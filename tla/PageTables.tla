----------------------------- MODULE PageTables -----------------------------
(***************************************************************************)
(* The page tables of the cores (memory/MemoryPageMap.c): the bootstrap    *)
(* core builds its own, adds the memory that ACPI names, builds those of   *)
(* the other cores and, when the network driver finds a device, maps the   *)
(* device for everybody (RefreshReserved).  By then the other cores run on *)
(* their tables, so the tables change under them one entry at a time: a    *)
(* step of the model is one call of LinkFourthStageToFramePhysical.        *)
(*                                                                         *)
(* Addresses above the page are page numbers; sizes are in bytes, because  *)
(* the code rounds them down where it reserves a range and up where it     *)
(* fills it.  The two upper levels are complete from the start             *)
(* (BspLinkFirst3Levels) and left out; entry flags too.                    *)
(***************************************************************************)
EXTENDS Integers, Sequences

CONSTANTS CoreCount,
          PageBytes,    \* FOUR_KiB_MEMORY_PAGE_SIZE
          TableSize,    \* PAGE_TABLE_UNIT_SIZE: entries of a table
          Top,          \* the last virtual page
          KernelPages,  \* KERNEL_MEMORY_SIZE in pages
          LowPages,     \* the first MiB in pages
          BlockCounts,  \* possible numbers of last-level tables
          ByteBits,     \* bits of a byte of the bitmap: 8
          Maps,         \* the tables E820 may report
          Acpi,         \* the areas that ACPI may name: local and I/O APICs
          Devices,      \* the memory of the network cards
          MaxEntries,   \* bound on the table of physical memory
          AreaPages,    \* bound on the pages of a reserved area
          None

ASSUME UnitAssumption == /\ CoreCount \in Nat \ {0}
                         /\ PageBytes \in Nat \ {0} /\ TableSize \in Nat \ {0}
                         /\ ByteBits \in Nat \ {0}
                         /\ Top \in Nat /\ KernelPages \in 0 .. Top
                         /\ LowPages \in Nat /\ BlockCounts \subseteq Nat
                         /\ MaxEntries \in Nat /\ AreaPages \in Nat
                         /\ None \notin Nat

Cores == 0 .. CoreCount - 1
Slot(v) == v \div TableSize
Index(v) == v % TableSize
Slots == 0 .. Slot(Top)

Area == [start : Nat, size : Nat,
         type : {"usable", "reserved", "bad", "hole"}, vstart : Nat \cup {None}]

ASSUME MapAssumption ==
  /\ Acpi \cup Devices \subseteq Nat \X Nat
  /\ \A map \in Maps : /\ map \in Seq(Area) /\ map # <<>> /\ Len(map) <= MaxEntries
                       /\ \A k \in DOMAIN map : map[k].vstart = None

VARIABLES entries,   \* physicalMemoryEntry[0 .. memory_entries - 1]
          numBlocks, \* L4.numBlocks: total frames / 512, rounded up
          pmd, pte,  \* third level of each core; the last-level tables
          blocks,    \* L4.bit_map: last-level tables not in use
          stage,     \* how far the boot is
          job,       \* the loop that runs, "idle" between passes
          core, i, page, last,  \* its variables
          covered    \* history: entries mapped by a core's last whole pass

tables == <<pmd, pte, blocks>>
bootvars == <<entries, tables, stage, job, core, i, page, last, covered>>
vars == <<bootvars, numBlocks>>

Blocks == 0 .. numBlocks - 1

-----------------------------------------------------------------------------
(* Physical memory entries (memory/PhysicalMemory.c)                       *)

Contains(e, a) == e.start * PageBytes <= a /\ a < e.start * PageBytes + e.size

IsAddress(a) == \E k \in DOMAIN entries : Contains(entries[k], a)

\* The first entry decides; 0 if there is none.
GetVirtualAddress(a) ==
  LET found == {k \in DOMAIN entries : Contains(entries[k], a)}
      k == CHOOSE k \in found : \A l \in found : k <= l
  IN IF found = {} THEN 0
     ELSE entries[k].vstart * PageBytes + (a - entries[k].start * PageBytes)

NewEntry(area) == [start |-> area[1], size |-> area[2], type |-> "reserved",
                   vstart |-> None]

\* "reserved" stands for the types reserved, ACPI reclaimed and ACPI NVS.
isReservedMemory(e) == e.start > LowPages /\ e.type = "reserved"

\* The entries of a machine that reports `map'.  Its reserved areas fit below
\* the top of the address space and above the kernel, and memory of another
\* kind does not lie in them.
Known(map) == {map[k] : k \in DOMAIN map} \cup {NewEntry(a) : a \in Acpi \cup Devices}

Overlap(e, f) == /\ e.start * PageBytes < f.start * PageBytes + f.size
                 /\ f.start * PageBytes < e.start * PageBytes + e.size

ASSUME SpaceAssumption ==
  /\ KernelPages + MaxEntries * AreaPages <= Top + 1
  /\ \A map \in Maps : \A e, f \in Known(map) : isReservedMemory(e) =>
       /\ e.size \div PageBytes < AreaPages
       /\ Overlap(e, f) => isReservedMemory(f)

\* Mutant: the new entry goes first.
AddInFront(area) ==
  /\ ~IsAddress(area[1] * PageBytes)
  /\ Len(entries) < MaxEntries
  /\ entries' = <<NewEntry(area)>> \o entries

\* An entry for an address that is in none; its vstart is not written yet.
AddPhysicalMemoryEntry(area) ==
  /\ ~IsAddress(area[1] * PageBytes)
  /\ Len(entries) < MaxEntries
  /\ entries' = Append(entries, NewEntry(area))

-----------------------------------------------------------------------------
(* Last-level tables                                                       *)

\* The tables whose bits the search sees: whole bytes only
Bitmap == 0 .. ByteBits * (numBlocks \div ByteBits) - 1

First(b, S) == b \in S /\ \A c \in S : b <= c

\* Mutant: the bit is not cleared.
AllocateKeepsBit(b) == First(b, blocks) /\ UNCHANGED blocks

AllocateVirtualMemoryBlock(b) == First(b, blocks) /\ blocks' = blocks \ {b}

\* LinkFourthStageToFramePhysical: virtual page v of core c is frame p.
Link(c, v, p) ==
  \/ /\ pmd[c][Slot(v)] # None
     /\ pte' = [pte EXCEPT ![pmd[c][Slot(v)]][Index(v)] = p]
     /\ UNCHANGED <<pmd, blocks>>
  \/ /\ pmd[c][Slot(v)] = None
     /\ \E b \in blocks :
          /\ AllocateVirtualMemoryBlock(b)
          /\ pmd' = [pmd EXCEPT ![c][Slot(v)] = b]
          /\ pte' = [pte EXCEPT ![b][Index(v)] = p]

\* No table is left: AllocateVirtualMemoryBlock returns -1, and the store to
\* the table at that address faults with nobody to handle it.
LinkFaults(c, v) == /\ pmd[c][Slot(v)] = None /\ blocks = {}
                    /\ UNCHANGED tables

\* What core c finds at virtual page v
Lookup(c, v) == IF pmd[c][Slot(v)] = None THEN None
                ELSE pte[pmd[c][Slot(v)]][Index(v)]

-----------------------------------------------------------------------------
\* InitVirtualMemoryService: all entries empty, all tables free
Init == /\ entries \in Maps /\ numBlocks \in BlockCounts
        /\ pmd = [c \in Cores |-> [s \in Slots |-> None]]
        /\ pte = [b \in Blocks |-> [x \in 0 .. TableSize - 1 |-> None]]
        /\ blocks = Bitmap
        /\ stage = "init" /\ job = "kernel"
        /\ core = 0 /\ i = 1 /\ page = 0 /\ last = Top
        /\ covered = [c \in Cores |-> 0]

\* MapKernelUsableMemory: the kernel's memory is mapped one to one.
MapKernelPage == /\ job = "kernel" /\ page < KernelPages
                 /\ \/ Link(core, page, page) /\ page' = page + 1 /\ UNCHANGED job
                    \/ LinkFaults(core, page) /\ job' = "fault" /\ UNCHANGED page
                 /\ UNCHANGED <<entries, stage, core, i, last, covered>>

\* MapReservedMemory begins, at the top of the address space.
BeginPass == job' = "place" /\ i' = 1 /\ last' = Top

MapKernelEnds == /\ job = "kernel" /\ page = KernelPages
                 /\ BeginPass
                 /\ UNCHANGED <<entries, tables, stage, core, page, covered>>

\* Mutant: no page is left free below a range.
PlaceTight == /\ job = "place" /\ i <= Len(entries)
              /\ isReservedMemory(entries[i])
              /\ LET start == last - entries[i].size \div PageBytes
                 IN /\ entries' = [entries EXCEPT ![i].vstart = start]
                    /\ last' = start
              /\ job' = "map" /\ page' = 0
              /\ UNCHANGED <<tables, stage, core, i, covered>>

\* A reserved entry gets the range below the last one, a page apart, ...
Place == /\ job = "place" /\ i <= Len(entries)
         /\ isReservedMemory(entries[i])
         /\ LET start == last - entries[i].size \div PageBytes
            IN /\ entries' = [entries EXCEPT ![i].vstart = start]
               /\ last' = start - 1
         /\ job' = "map" /\ page' = 0
         /\ UNCHANGED <<tables, stage, core, i, covered>>

\* ... any other one but a hole stays where it is, ...
PlaceIdentity ==
  /\ job = "place" /\ i <= Len(entries)
  /\ ~isReservedMemory(entries[i])
  /\ entries' = IF entries[i].type = "hole" THEN entries
                ELSE [entries EXCEPT ![i].vstart = entries[i].start]
  /\ i' = i + 1
  /\ UNCHANGED <<tables, stage, job, core, page, last, covered>>

\* ... and every page that the reserved entry touches is mapped.
MapReservedPage ==
  /\ job = "map" /\ page * PageBytes < entries[i].size
  /\ LET v == entries[i].vstart + page
     IN \/ /\ Link(core, v, entries[i].start + page)
           /\ page' = page + 1 /\ UNCHANGED job
        \/ LinkFaults(core, v) /\ job' = "fault" /\ UNCHANGED page
  /\ UNCHANGED <<entries, stage, core, i, last, covered>>

MapReservedEnds == /\ job = "map" /\ page * PageBytes >= entries[i].size
                   /\ job' = "place" /\ i' = i + 1
                   /\ UNCHANGED <<entries, tables, stage, core, page, last,
                                  covered>>

PassEnds == /\ job = "place" /\ i > Len(entries)
            /\ covered' = [covered EXCEPT ![core] = Len(entries)]
            /\ UNCHANGED <<entries, tables>>

\* The first pass is over: init_acpi.
InitEnds == /\ stage = "init" /\ PassEnds
            /\ stage' = "acpi" /\ job' = "idle"
            /\ UNCHANGED <<core, i, page, last>>

\* parseAPIC: an area that is in no entry yet is added.
ParseAPIC == /\ stage = "acpi" /\ job = "idle"
             /\ \E area \in Acpi : AddPhysicalMemoryEntry(area)
             /\ UNCHANGED <<tables, stage, job, core, i, page, last, covered>>

\* MapReservedMemory for the bootstrap core, then BuildApCoresPageTables
BeginBuild == /\ stage = "acpi" /\ job = "idle"
              /\ stage' = "build" /\ core' = 0 /\ BeginPass
              /\ UNCHANGED <<entries, tables, page, covered>>

\* Mutant: the kernel's memory is mapped for the bootstrap core only.
BuildNextBare == /\ stage = "build" /\ PassEnds
                 /\ core + 1 \in Cores
                 /\ core' = core + 1 /\ BeginPass
                 /\ UNCHANGED <<stage, page>>

BuildNext == /\ stage = "build" /\ PassEnds
             /\ core + 1 \in Cores
             /\ core' = core + 1 /\ job' = "kernel" /\ page' = 0
             /\ UNCHANGED <<stage, i, last>>

\* The cores are started; or RefreshReserved has come to its end.
PassesEnd == /\ stage \in {"build", "refresh"} /\ PassEnds
             /\ core + 1 \notin Cores
             /\ stage' = "up" /\ job' = "idle"
             /\ UNCHANGED <<core, i, page, last>>

\* e1000Init: a device whose memory is in no entry is added, and
\* RefreshReserved maps it for every core.
E1000Init == /\ stage = "up"
             /\ \E area \in Devices : AddPhysicalMemoryEntry(area)
             /\ stage' = "refresh" /\ core' = 0 /\ BeginPass
             /\ UNCHANGED <<tables, page, covered>>

RefreshNext == /\ stage = "refresh" /\ PassEnds
               /\ core + 1 \in Cores
               /\ core' = core + 1 /\ BeginPass
               /\ UNCHANGED <<stage, page>>

Step == \/ MapKernelPage \/ MapKernelEnds \/ Place \/ PlaceIdentity
        \/ MapReservedPage \/ MapReservedEnds
        \/ InitEnds \/ ParseAPIC \/ BeginBuild \/ BuildNext \/ PassesEnd
        \/ E1000Init \/ RefreshNext

Next == Step /\ UNCHANGED numBlocks

Spec == Init /\ [][Next]_vars

-----------------------------------------------------------------------------
EntriesOK ==
  /\ entries \in Seq(Area) /\ Len(entries) \in 1 .. MaxEntries
  /\ stage \in {"init", "acpi", "build", "up", "refresh"}
  /\ job \in {"kernel", "place", "map", "idle", "fault"}
  /\ core \in Cores /\ i \in 1 .. Len(entries) + 1 /\ page \in Nat /\ last \in Int
  /\ covered \in [Cores -> 0 .. Len(entries)]

TablesOK ==
  /\ numBlocks \in Nat /\ pmd \in [Cores -> [Slots -> Nat \cup {None}]]
  /\ pte \in [Blocks -> [0 .. TableSize - 1 -> Nat \cup {None}]]

TypeOK == EntriesOK /\ TablesOK

(* A last-level table in use exists in the pool, is not free and belongs   *)
(* to one slot of one core: what is mapped for one core or one area never  *)
(* shows up in another.                                                    *)
BlocksOwned ==
  /\ blocks \subseteq Blocks
  /\ \A c, d \in Cores : \A s, t \in Slots :
       pmd[c][s] # None => /\ pmd[c][s] \in Blocks \ blocks
                           /\ pmd[c][s] = pmd[d][t] => c = d /\ s = t

(* Every core that has a table reaches, at the address GetVirtualAddress   *)
(* gives to drivers, every byte of the memory reserved up to its last      *)
(* pass, and the kernel one to one.                                        *)
Reachable ==
  \A c \in Cores : covered[c] > 0 =>
    /\ \A p \in 0 .. KernelPages - 1 : Lookup(c, p) = p
    /\ \A k \in 1 .. covered[c] : isReservedMemory(entries[k]) =>
         \A x \in 0 .. entries[k].size - 1 :
           LET a == entries[k].start * PageBytes + x
               v == GetVirtualAddress(a)
           IN Lookup(c, v \div PageBytes) = a \div PageBytes

(* What a core can reach stays where it is.  The other cores run while     *)
(* RefreshReserved rewrites their tables, and nothing tells them to forget *)
(* a translation they have cached.                                         *)
MappingsStable ==
  [][\A c \in Cores : \A v \in 0 .. Top :
       Lookup(c, v) # None => Lookup(c, v)' = Lookup(c, v)]_vars

(* An entry keeps the virtual address it was given: drivers ask once and   *)
(* keep the pointer, and other cores ask while MapReservedMemory runs.     *)
AddressesKept ==
  [][\A k \in DOMAIN entries : entries[k].vstart # None =>
       k \in DOMAIN entries' /\ entries[k]' = entries[k]]_vars

-----------------------------------------------------------------------------
(* What makes them inductive.  The entries are those the machine reports   *)
(* and those added since.                                                  *)
KnownInv == \E map \in Maps : \A k \in DOMAIN entries :
              [entries[k] EXCEPT !.vstart = None] \in Known(map)

Reserved(k) == isReservedMemory(entries[k])

\* The pages of an entry that are mapped end at this one or before it.
LastPage(k) == entries[k].vstart + entries[k].size \div PageBytes

\* x is the last virtual page that is left for entry k, once those before it
\* have their ranges.
LeftBefore(k, x) ==
  \/ x = Top /\ \A j \in 1 .. k - 1 : ~Reserved(j)
  \/ \E j \in 1 .. k - 1 : /\ Reserved(j) /\ x = entries[j].vstart - 1
                            /\ \A l \in j + 1 .. k - 1 : ~Reserved(l)

(* Reserved entries are placed in their order, each below those before it  *)
(* and above the kernel, and every pass places them alike.                 *)
PlaceInv ==
  /\ job = "place" => LeftBefore(i, last) /\ last + (i - 1) * AreaPages >= Top
  /\ job = "map" => i \in DOMAIN entries /\ Reserved(i) /\ last = entries[i].vstart - 1
  /\ \A k \in DOMAIN entries :
       /\ ~Reserved(k) => entries[k].vstart \in {None, entries[k].start}
       /\ Reserved(k) /\ (k < i \/ (k = i /\ job = "map")) => entries[k].vstart # None
       /\ Reserved(k) /\ entries[k].vstart # None =>
            /\ LeftBefore(k, LastPage(k)) /\ LastPage(k) <= Top
            /\ entries[k].vstart + k * AreaPages > Top
            /\ \A j \in 1 .. k - 1 : Reserved(j) =>
                 entries[j].vstart # None /\ LastPage(k) < entries[j].vstart

\* Virtual page v is to be frame p.
MapsTo(v, p) ==
  \/ v < KernelPages /\ p = v
  \/ \E k \in DOMAIN entries :
       /\ Reserved(k) /\ entries[k].vstart # None /\ v >= entries[k].vstart
       /\ (v - entries[k].vstart) * PageBytes < entries[k].size
       /\ p = entries[k].start + (v - entries[k].vstart)

\* A table that is not in use has no entries.
FreeEmpty == \A b \in blocks : \A x \in 0 .. TableSize - 1 : pte[b][x] = None

(* Tables that are not in use are empty, and those in use have nothing but *)
(* the kernel and the reserved entries.                                    *)
TableInv ==
  /\ FreeEmpty
  /\ \A c \in Cores : \A v \in 0 .. Top :
       Lookup(c, v) # None => MapsTo(v, Lookup(c, v))

KernelMapped(c, n) == \A p \in 0 .. n - 1 : Lookup(c, p) = p

AreaMapped(c, k) ==
  /\ entries[k].vstart # None
  /\ \A p \in 0 .. entries[k].size : p * PageBytes < entries[k].size =>
       Lookup(c, entries[k].vstart + p) = entries[k].start + p

(* What a core has had mapped: by passes that are over, and by the one     *)
(* that runs.                                                              *)
CoverInv ==
  /\ stage = "init" => core = 0
  /\ stage \in {"acpi", "build"} => covered[0] > 0
  /\ stage = "build" => \A c \in 0 .. core - 1 : covered[c] > 0
  /\ stage \in {"up", "refresh"} => \A c \in Cores : covered[c] > 0
  /\ \A c \in Cores : covered[c] > 0 => KernelMapped(c, KernelPages)
  /\ \A c \in Cores : \A k \in 1 .. covered[c] : Reserved(k) => AreaMapped(c, k)
  /\ job = "kernel" => page <= KernelPages /\ KernelMapped(core, page)
  /\ job \in {"place", "map"} =>
       /\ KernelMapped(core, KernelPages)
       /\ \A k \in 1 .. i - 1 : Reserved(k) => AreaMapped(core, k)
  /\ job = "map" => \A p \in 0 .. page - 1 :
       Lookup(core, entries[i].vstart + p) = entries[i].start + p
=============================================================================
