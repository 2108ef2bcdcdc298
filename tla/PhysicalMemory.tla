--------------------------- MODULE PhysicalMemory ---------------------------
(***************************************************************************)
(* The physical memory manager of NileOS (memory/PhysicalMemory.c): the    *)
(* E820 table left by the boot loader, the bitmap with one bit per 4 KiB   *)
(* frame (1 = free) and the collections of 512 consecutive frames, each    *)
(* with a count of its free ones, that the allocator walks.  Here one core *)
(* calls at a time; PhysicalMemorySMP drops that assumption.               *)
(*                                                                         *)
(* A frame stands for its address divided by PageSize.  `held' and         *)
(* `dropped' are history: the frames callers were given, and those that    *)
(* AllocatePhysicalFrames took without telling anyone which.               *)
(***************************************************************************)
EXTENDS Integers, FiniteSets, Sequences, FiniteSetsExt

CONSTANTS Maps,       \* the E820 tables the firmware may report
          Devices,    \* [start, size] of the ranges drivers register
          PageSize,   \* FOUR_KiB_MEMORY_PAGE_SIZE
          F,          \* frames per collection, 512
          KernelSize, \* KERNEL_MEMORY_SIZE
          FirstMiB,   \* FIRST_MEMORY_1_MiB
          MaxEntries, \* bound on the entries (the code tests none)
          MaxTake,    \* bound on number_of_frames_to_allocate
          IntMax      \* largest int; frame numbers times 4096 are ints

VARIABLES phase, entries, total, bitmap, available, todo, ret, alarm,
          held, dropped

vars == <<phase, entries, total, bitmap, available, todo, ret, alarm, held,
          dropped>>

Types == {"usable", "reserved", "reclaimable", "nvs", "bad", "hole"}

Entry == [start : Nat, size : Nat, type : Types]

\* usable_memory_size + reserved_memory_size
Total(m) == MapThenSumSet(LAMBDA i : IF m[i].type \in {"bad", "hole"}
                                     THEN 0 ELSE m[i].size, DOMAIN m)

ASSUME SizesAssumption ==
  /\ PageSize \in Nat \ {0} /\ F \in Nat \ {0} /\ FirstMiB \in Nat
  /\ KernelSize \in Nat /\ FirstMiB <= (KernelSize \div PageSize) * PageSize
  /\ MaxEntries \in Nat /\ MaxTake \in Nat /\ IntMax \in Nat

\* No more memory than the int arithmetic on frame numbers can address.
ASSUME MapsAssumption ==
  \A m \in Maps : m \in Seq(Entry) /\ Total(m) \in 0..IntMax

ASSUME DevicesAssumption == Devices \subseteq [start : Nat, size : Nat]

KernelFrames == KernelSize \div PageSize

Collections == DOMAIN available

\* start_bit_index .. end_bit_address - 1 of collection i
FramesOf(i) == (i * F)..(i * F + F - 1)

Listed == UNION {FramesOf(i) : i \in Collections}

Contains(e, a) == e.start <= a /\ a < e.start + e.size

\* IsAddress: the address is in some entry
IsAddress(a) == \E i \in DOMAIN entries : Contains(entries[i], a)

\* Mutant: the last page of an entry may stick out of it.
IsUsableLoose(a, size) ==
  \E i \in DOMAIN entries :
     \/ Contains(entries[i], a) /\ entries[i].type = "usable"
     \/ a < FirstMiB

\* IsUsableAddress: a run that ends before its entry does (strictly), or
\* anything in the first MiB, whatever the entry that is looked at
IsUsableAddress(a, size) ==
  \E i \in DOMAIN entries :
     \/ /\ entries[i].start <= a
        /\ a + size < entries[i].start + entries[i].size
        /\ entries[i].type = "usable"
     \/ a < FirstMiB

Result(op, val) == ret' = [op |-> op, val |-> val]

Init == /\ phase = "boot" /\ entries = << >> /\ total = 0
        /\ bitmap = {} /\ available = << >> /\ todo = 0
        /\ ret = [op |-> "none", val |-> 0] /\ alarm = FALSE
        /\ held = {} /\ dropped = {}

\* scanmem found the table of the boot loader
InitializePhysicalMemory ==
  /\ phase = "boot"
  /\ \E m \in Maps : entries' = m /\ total' = Total(m)
  /\ phase' = "mapped"
  /\ UNCHANGED <<bitmap, available, todo, ret, alarm, held, dropped>>

\* scanmem found none: no service is registered, nothing more can be called
NoMemoryMap == /\ phase = "boot"
               /\ phase' = "nomap"
               /\ UNCHANGED <<entries, total, bitmap, available, todo, ret,
                              alarm, held, dropped>>

\* A driver registers a device's range; an address already known is refused.
\* The code does not test the size of its table: MaxEntries is our bound.
AddPhysicalMemoryEntry ==
  /\ phase = "ready" /\ todo = 0
  /\ \E d \in Devices :
       \/ /\ ~IsAddress(d.start)
          /\ Len(entries) < MaxEntries
          /\ entries' = Append(entries, [start |-> d.start, size |-> d.size,
                                         type |-> "reserved"])
       \/ IsAddress(d.start) /\ UNCHANGED entries
  /\ UNCHANGED <<phase, total, bitmap, available, todo, ret, alarm, held,
                 dropped>>

\* One bit per frame of the counted memory: set when the whole page is
\* usable and above the kernel.
CreatePhysicalPagesBitMap ==
  /\ phase = "mapped"
  /\ bitmap' = {f \in 0..(total \div PageSize - 1) :
                  /\ IsUsableAddress(f * PageSize, PageSize)
                  /\ f >= KernelFrames}
  /\ phase' = "bitmap"
  /\ UNCHANGED <<entries, total, available, todo, ret, alarm, held, dropped>>

\* The number of collections comes from the number of free frames.
InitializePhysicalMemoryFrames ==
  /\ phase = "bitmap"
  /\ available' = [i \in 0..(Cardinality(bitmap) \div F - 1) |->
                     Cardinality(FramesOf(i) \cap bitmap)]
  /\ phase' = "ready"
  /\ UNCHANGED <<entries, total, bitmap, todo, ret, alarm, held, dropped>>

\* The first collection with free frames that the bitmap confirms, and its
\* first free frame
HasFree(i) == available[i] > 0 /\ FramesOf(i) \cap bitmap # {}

First(i, S) == i \in S /\ \A j \in S : i <= j

Take(f, i) ==
  /\ First(i, {j \in Collections : HasFree(j)})
  /\ First(f, FramesOf(i) \cap bitmap)
  /\ bitmap' = bitmap \ {f}
  /\ available' = [available EXCEPT ![i] = @ - 1]

Exhausted == \A i \in Collections : ~HasFree(i)

\* AllocateOnePhysicalFrame returns an address ...
AllocateOnePhysicalFrame ==
  /\ phase = "ready" /\ todo = 0
  /\ \E i \in Collections : \E f \in FramesOf(i) :
       /\ Take(f, i)
       /\ held' = held \cup {f}
       /\ Result("frame", f)
  /\ UNCHANGED <<phase, entries, total, todo, alarm, dropped>>

\* ... or -1.
AllocateOneFails == /\ phase = "ready" /\ todo = 0
                    /\ Exhausted
                    /\ Result("frame", -1)
                    /\ UNCHANGED <<phase, entries, total, bitmap, available,
                                   todo, alarm, held, dropped>>

\* AllocatePhysicalFrames: number_of_frames_to_allocate calls in a loop;
\* the addresses go nowhere.
AllocatePhysicalFrames ==
  /\ phase = "ready" /\ todo = 0
  /\ todo' \in 1..MaxTake
  /\ UNCHANGED <<phase, entries, total, bitmap, available, ret, alarm, held,
                 dropped>>

TakeNext ==
  /\ todo > 0
  /\ \/ \E i \in Collections : \E f \in FramesOf(i) :
          Take(f, i) /\ dropped' = dropped \cup {f}
     \/ Exhausted /\ UNCHANGED <<bitmap, available, dropped>>
  /\ todo' = todo - 1
  /\ UNCHANGED <<phase, entries, total, ret, alarm, held>>

\* Mutant: the count of the collection is not brought up to date.
DeallocateUncounted ==
  /\ phase = "ready" /\ todo = 0
  /\ \E f \in held :
       \/ f \in bitmap /\ alarm' = TRUE /\ UNCHANGED <<bitmap, held>>
       \/ /\ f \notin bitmap
          /\ bitmap' = bitmap \cup {f}
          /\ held' = held \ {f}
          /\ UNCHANGED alarm
  /\ Result("free", 0)
  /\ UNCHANGED <<phase, entries, total, available, todo, dropped>>

\* A caller frees a frame it was given.  A bit already set is reported as
\* "should not happen"; otherwise the collection with the frame's address
\* counts one more.
DeallocatePhysicalFrame ==
  /\ phase = "ready" /\ todo = 0
  /\ \E f \in held :
       \/ /\ f \in bitmap
          /\ alarm' = TRUE
          /\ UNCHANGED <<bitmap, available, held>>
       \/ /\ f \notin bitmap
          /\ bitmap' = bitmap \cup {f}
          /\ available' = [i \in Collections |->
                             IF f \in FramesOf(i) THEN available[i] + 1
                             ELSE available[i]]
          /\ held' = held \ {f}
          /\ UNCHANGED alarm
  /\ Result("free", 0)
  /\ UNCHANGED <<phase, entries, total, todo, dropped>>

Full(i) == available[i] = F

\* Mutant: any collection with a free frame will do.
AllocateCollectionAny ==
  /\ phase = "ready" /\ todo = 0
  /\ \E i \in Collections :
       /\ First(i, {j \in Collections : available[j] > 0})
       /\ bitmap' = bitmap \ FramesOf(i)
       /\ available' = [available EXCEPT ![i] = 0]
       /\ alarm' = (alarm \/ ~(FramesOf(i) \subseteq bitmap))
       /\ held' = held \cup FramesOf(i)
       /\ Result("collection", i)
  /\ UNCHANGED <<phase, entries, total, todo, dropped>>

\* The first collection counted full loses all its bits; a bit already clear
\* is reported.  AllocateUsableCollection adds nothing but a log line.
AllocateOnePhysicalFrameCollection ==
  /\ phase = "ready" /\ todo = 0
  /\ \E i \in Collections :
       /\ First(i, {j \in Collections : Full(j)})
       /\ bitmap' = bitmap \ FramesOf(i)
       /\ available' = [available EXCEPT ![i] =
                          @ - Cardinality(FramesOf(i) \cap bitmap)]
       /\ alarm' = (alarm \/ ~(FramesOf(i) \subseteq bitmap))
       /\ held' = held \cup FramesOf(i)
       /\ Result("collection", i)
  /\ UNCHANGED <<phase, entries, total, todo, dropped>>

AllocateCollectionFails ==
  /\ phase = "ready" /\ todo = 0
  /\ \A i \in Collections : ~Full(i)
  /\ Result("collection", -1)
  /\ UNCHANGED <<phase, entries, total, bitmap, available, todo, alarm, held,
                 dropped>>

\* DeallocateOnePhysicalFrameCollection: DeallocatePhysicalFrame for each of
\* the 512 frames of a collection the caller was given
DeallocateOnePhysicalFrameCollection ==
  /\ phase = "ready" /\ todo = 0
  /\ \E i \in Collections :
       /\ FramesOf(i) \subseteq held
       /\ bitmap' = bitmap \cup FramesOf(i)
       /\ available' = [available EXCEPT ![i] =
                          @ + Cardinality(FramesOf(i) \ bitmap)]
       /\ alarm' = (alarm \/ FramesOf(i) \cap bitmap # {})
       /\ held' = held \ FramesOf(i)
  /\ Result("free", 0)
  /\ UNCHANGED <<phase, entries, total, todo, dropped>>

Next == \/ InitializePhysicalMemory \/ NoMemoryMap \/ AddPhysicalMemoryEntry
        \/ CreatePhysicalPagesBitMap \/ InitializePhysicalMemoryFrames
        \/ AllocateOnePhysicalFrame \/ AllocateOneFails
        \/ AllocatePhysicalFrames \/ TakeNext
        \/ DeallocatePhysicalFrame
        \/ AllocateOnePhysicalFrameCollection \/ AllocateCollectionFails
        \/ DeallocateOnePhysicalFrameCollection

Spec == Init /\ [][Next]_vars

-----------------------------------------------------------------------------
(* Properties *)

TypeOK == /\ phase \in {"boot", "nomap", "mapped", "bitmap", "ready"}
          /\ entries \in Seq(Entry)
          /\ total \in 0..IntMax
          /\ bitmap \subseteq 0..IntMax
          /\ DOMAIN available \subseteq Nat
          /\ available \in [DOMAIN available -> 0..F]
          /\ todo \in 0..MaxTake
          /\ ret \in [op : {"none", "frame", "collection", "free"}, val : Int]
          /\ alarm \in BOOLEAN
          /\ held \subseteq 0..IntMax /\ dropped \subseteq 0..IntMax

(* What the allocator decides by and the bitmap agree: the count kept with *)
(* a collection is the number of its bits that are set.                    *)
CountsAgree ==
  \A i \in Collections : available[i] = Cardinality(FramesOf(i) \cap bitmap)

(* A frame is free, or given to one caller, or dropped: never two of them, *)
(* so no frame is handed out twice, whatever mix of single frames and      *)
(* collections is allocated and freed.                                     *)
NoDoubleGrant == /\ bitmap \cap held = {}
                 /\ bitmap \cap dropped = {}
                 /\ held \cap dropped = {}

(* The page of the frame lies, as a whole, in memory reported usable.      *)
Ram(f) == \E i \in DOMAIN entries :
            /\ entries[i].type = "usable"
            /\ entries[i].start <= f * PageSize
            /\ (f + 1) * PageSize <= entries[i].start + entries[i].size

(* Whatever is or ever was handed out is usable memory above the kernel:   *)
(* neither kernel image and heap nor a device's registers.                 *)
OnlyRam == \A f \in bitmap \cup held \cup dropped :
             f >= KernelFrames /\ Ram(f)

(* AllocateOnePhysicalFrame and AllocateOnePhysicalFrameCollection fail    *)
(* only when no listed collection has a free frame, or all of them free.   *)
FailsOnlyExhausted ==
  ret.val = -1 => \A i \in Collections :
                    IF ret.op = "frame" THEN FramesOf(i) \cap bitmap = {}
                    ELSE ~(FramesOf(i) \subseteq bitmap)

(* Neither "deallocating of an unallocated memory.. should not happen!"    *)
(* nor "a bit in between was already cleared" is ever printed when callers *)
(* free what they were given.                                              *)
Silent == ~alarm

(* The inductive strengthening: before the collections exist nothing was   *)
(* handed out, and before the bitmap exists nothing is free.               *)
Started ==
  /\ phase # "ready" => /\ Collections = {} /\ held = {} /\ dropped = {}
                        /\ todo = 0 /\ ret.val = 0
  /\ phase \in {"boot", "nomap", "mapped"} => bitmap = {}

MemoryInv == /\ Started /\ CountsAgree /\ NoDoubleGrant /\ OnlyRam
             /\ FailsOnlyExhausted /\ Silent
=============================================================================
