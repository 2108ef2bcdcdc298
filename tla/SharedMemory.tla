---------------------------- MODULE SharedMemory ----------------------------
(***************************************************************************)
(* The shared memory service of NileOS (memory/SharedMemory.c) and the     *)
(* page-table work it does (AllocateSharedMemoryTwoMb,                     *)
(* DeallocateSharedMemoryTwoMb and what they call in MemoryPageMap.c): a   *)
(* bitmap of 2 MiB pages of virtual memory from 2 GiB on, under one        *)
(* spinlock, each page mapped by every core's table to one collection of   *)
(* physical frames.                                                        *)
(*                                                                         *)
(* Addresses count from START_OFFSET; a page stands for its address.       *)
(* `grants' is history: what callers were told is theirs.  The lock is the *)
(* one Spinlock.tla implements.                                            *)
(***************************************************************************)
EXTENDS Integers

CONSTANTS CoreCount,  \* kernel.acpi.cores_count
          NoCore,
          Bytes,      \* length of bitMap
          ByteBits,   \* bits of a byte, 8
          PageBytes,  \* PAGE_TABLE_SIZE_BYTES
          Sizes,      \* the values of numberOfBytes to try
          Phys        \* the physical collections, 0 .. n-1

ASSUME SharedAssumption ==
  /\ CoreCount \in Nat \ {0} /\ NoCore \notin 0 .. CoreCount - 1
  /\ Bytes \in Nat /\ ByteBits \in Nat \ {0} /\ PageBytes \in Nat \ {0}
  /\ Sizes \subseteq Nat /\ Phys \subseteq Nat

Cores == 0 .. CoreCount - 1
Bits == 0 .. Bytes * ByteBits - 1
Pages == 0 .. Bytes * ByteBits   \* one page is mapped beyond a request
None == -1                       \* an entry 0xFFFF...: no address

VARIABLES used,   \* bitMap: the pages whose bit is 1
          owner,  \* holder of sharedMemory->spinlock
          pc, call, at,  \* per core: label, request, next page or core
          table,  \* coresPageTables_ptr[core]: page -> collection or None
          free,   \* collections all of whose frames are free
          alarm,  \* "deallocating of an unallocated memory" was printed
          grants, freed  \* history: live grants; was anything deallocated?

vars == <<used, owner, pc, call, at, table, free, alarm, grants, freed>>

Lock == INSTANCE Mutex

Grant == [page : Pages, bytes : Sizes]
NoCall == [op |-> "none", page |-> 0, bytes |-> 0]
Calls == [op : {"alloc", "free"}, page : Pages, bytes : Sizes] \cup {NoCall}

Init == /\ used = {} /\ Lock!Init
        /\ pc = [c \in Cores |-> "idle"]
        /\ call = [c \in Cores |-> NoCall]
        /\ at = [c \in Cores |-> 0]
        /\ table = [c \in Cores |-> [p \in Pages |-> None]]
        /\ free = Phys /\ alarm = FALSE /\ grants = {} /\ freed = FALSE

Goto(c, label) == pc' = [pc EXCEPT ![c] = label]
First(x, S) == x \in S /\ \A y \in S : x <= y

\* numberOfBytes in whole pages, rounded up
PageCount(bytes) == (bytes + PageBytes - 1) \div PageBytes

\* The last page of the loop "start <= virtualAddressStart + size"
LastMapped(g) == g.page + g.bytes \div PageBytes

\* Mutant: the search is satisfied one clear bit too early.
RunEndsEarly(n) == {b \in Bits : IF n = 0 THEN b \in used
                                 ELSE b + 1 >= n /\ (b + 2 - n)..b \cap used = {}}

\* The bits at which AllocateConsecutivePages has just read n clear ones in
\* a row (n = 0: the bits that are set)
RunEnds(n) == {b \in Bits : IF n = 0 THEN b \in used
                            ELSE b + 1 >= n /\ (b + 1 - n)..b \cap used = {}}

\* The bits SetBitsToValue visits, and whether it returns true: it gives up
\* when it steps off the end of the map, even right after the last bit.
Visited(start, n) == {b \in Bits : start <= b /\ b < start + n}
SetBitsOk(start, n) == n = 0 \/ start + n < Bytes * ByteBits

-----------------------------------------------------------------------------
\* A caller asks for memory, or gives back a grant, and heads for the lock.
CallAllocate(c) ==
  /\ pc[c] = "idle"
  /\ \E b \in Sizes :
       call' = [call EXCEPT ![c] = [op |-> "alloc", page |-> 0, bytes |-> b]]
  /\ Goto(c, "lock")
  /\ UNCHANGED <<used, owner, at, table, free, alarm, grants, freed>>

CallDeallocate(c) ==
  /\ pc[c] = "idle"
  /\ \E g \in grants :
       /\ call' = [call EXCEPT ![c] = [op |-> "free", page |-> g.page,
                                       bytes |-> g.bytes]]
       /\ grants' = grants \ {g}
  /\ Goto(c, "lock")
  /\ UNCHANGED <<used, owner, at, table, free, alarm, freed>>

Acquire(c) == /\ pc[c] = "lock"
              /\ Lock!Acquire(c)
              /\ Goto(c, call[c].op)
              /\ UNCHANGED <<used, call, at, table, free, alarm, grants, freed>>

Return(c) == call' = [call EXCEPT ![c] = NoCall]

\* AllocateSharedMemory with the lock: find a run and mark it.  When marking
\* returns false the function returns at once, with the lock.
Reserve(c) ==
  LET n == PageCount(call[c].bytes)
  IN /\ pc[c] = "alloc"
     /\ \/ \E b \in Bits :
             /\ First(b, RunEnds(n))
             /\ used' = used \cup Visited(b + 1 - n, n)
             /\ \/ /\ SetBitsOk(b + 1 - n, n)
                   /\ call' = [call EXCEPT ![c].page = b + 1 - n]
                   /\ at' = [at EXCEPT ![c] = b + 1 - n]
                   /\ Goto(c, "map")
                \/ /\ ~SetBitsOk(b + 1 - n, n)
                   /\ Return(c)
                   /\ Goto(c, "idle")
                   /\ UNCHANGED at
        \/ /\ RunEnds(n) = {}
           /\ Return(c)
           /\ Goto(c, "unlock")
           /\ UNCHANGED <<used, at>>
     /\ UNCHANGED <<owner, table, free, alarm, grants, freed>>

\* Mutant: only the first core's table gets the new mapping.
MapFirstCore(c) ==
  /\ pc[c] = "map"
  /\ \E m \in free \cup {None} :
       /\ IF free = {} THEN m = None ELSE First(m, free)
       /\ free' = free \ {m}
       /\ table' = [table EXCEPT ![0][at[c]] = m]
  /\ at' = [at EXCEPT ![c] = @ + 1]
  /\ Goto(c, IF at[c] = LastMapped(call[c]) THEN "unlock" ELSE "map")
  /\ UNCHANGED <<used, owner, call, alarm, grants, freed>>

\* One round of AllocateSharedMemoryTwoMb: the first free collection, or -1,
\* goes into the page's entry of every core.
Map(c) ==
  /\ pc[c] = "map"
  /\ \E m \in free \cup {None} :
       /\ IF free = {} THEN m = None ELSE First(m, free)
       /\ free' = free \ {m}
       /\ table' = [k \in Cores |-> [table[k] EXCEPT ![at[c]] = m]]
  /\ at' = [at EXCEPT ![c] = @ + 1]
  /\ Goto(c, IF at[c] = LastMapped(call[c]) THEN "unlock" ELSE "map")
  /\ UNCHANGED <<used, owner, call, alarm, grants, freed>>

\* DeallocateSharedMemory with the lock: clear the bits, from an index that
\* is the page number divided by 8.
Unreserve(c) ==
  LET n == PageCount(call[c].bytes)
      start == call[c].page \div ByteBits
  IN /\ pc[c] = "free"
     /\ used' = used \ Visited(start, n)
     /\ at' = [at EXCEPT ![c] = 0]
     /\ freed' = TRUE
     /\ \/ /\ SetBitsOk(start, n)
           /\ Goto(c, "unmap")
           /\ UNCHANGED call
        \/ /\ ~SetBitsOk(start, n)
           /\ Goto(c, "unlock")
           /\ Return(c)
     /\ UNCHANGED <<owner, table, free, alarm, grants>>

Mapped(k, c) == {table[k][p] : p \in call[c].page..LastMapped(call[c])} \ {None}

\* Mutant: the entries stay in the table.
UnmapKeeps(c) ==
  /\ pc[c] = "unmap"
  /\ free' = free \cup Mapped(at[c], c)
  /\ alarm' = (alarm \/ Mapped(at[c], c) \cap free # {})
  /\ at' = [at EXCEPT ![c] = @ + 1]
  /\ Goto(c, IF at[c] = CoreCount - 1 THEN "unlock" ELSE "unmap")
  /\ UNCHANGED <<used, owner, call, table, grants, freed>>

\* One core of DeallocateSharedMemoryTwoMb: the frames behind each entry are
\* freed (an entry without an address frees nothing) and the entry is reset.
Unmap(c) ==
  /\ pc[c] = "unmap"
  /\ free' = free \cup Mapped(at[c], c)
  /\ alarm' = (alarm \/ Mapped(at[c], c) \cap free # {})
  /\ table' = [table EXCEPT ![at[c]] =
                 [p \in Pages |-> IF p \in call[c].page..LastMapped(call[c])
                                  THEN None ELSE @[p]]]
  /\ at' = [at EXCEPT ![c] = @ + 1]
  /\ Goto(c, IF at[c] = CoreCount - 1 THEN "unlock" ELSE "unmap")
  /\ UNCHANGED <<used, owner, call, grants, freed>>

\* spinlock_unlock and return
Release(c) ==
  /\ pc[c] = "unlock"
  /\ Lock!Release(c)
  /\ grants' = IF call[c].op = "alloc"
               THEN grants \cup {[page |-> call[c].page, bytes |-> call[c].bytes]}
               ELSE grants
  /\ Return(c)
  /\ at' = [at EXCEPT ![c] = 0]
  /\ Goto(c, "idle")
  /\ UNCHANGED <<used, table, free, alarm, freed>>

Next == \E c \in Cores :
          \/ CallAllocate(c) \/ CallDeallocate(c) \/ Acquire(c)
          \/ Reserve(c) \/ Map(c) \/ Unreserve(c) \/ Unmap(c) \/ Release(c)

Spec == Init /\ [][Next]_vars

-----------------------------------------------------------------------------
(* Properties *)

TypeOK ==
  /\ used \subseteq Bits /\ owner \in Cores \cup {NoCore}
  /\ pc \in [Cores -> {"idle", "lock", "alloc", "free", "map", "unmap", "unlock"}]
  /\ call \in [Cores -> Calls] /\ at \in [Cores -> Nat]
  /\ table \in [Cores -> [Pages -> Phys \cup {None}]] /\ free \subseteq Phys
  /\ alarm \in BOOLEAN /\ grants \subseteq Grant /\ freed \in BOOLEAN

Quiet == \A c \in Cores : pc[c] \notin {"map", "unmap"}

(* Every core sees the shared memory in the same place: unless a call is   *)
(* in the middle of changing them, the cores' tables agree on every page.  *)
TablesAgree == Quiet => \A k, l \in Cores : table[k] = table[l]

(* A mapped collection is not free, and is mapped once, so no later        *)
(* allocation can hand out memory that a table still points to.            *)
MappingsOwned ==
  Quiet => \A k \in Cores : \A p, q \in Pages :
    table[k][p] # None => /\ table[k][p] \notin free
                          /\ p # q => table[k][p] # table[k][q]

PagesOf(g) == g.page .. g.page + PageCount(g.bytes) - 1

(* As long as nothing was deallocated, no page belongs to two callers and  *)
(* the pages of every caller are marked used.                              *)
GrantsDisjoint ==
  ~freed => \A g, h \in grants :
              /\ PagesOf(g) \subseteq used
              /\ g # h => PagesOf(g) \cap PagesOf(h) = {}

(* What makes them inductive.  Only the holder of the lock is between      *)
(* acquiring and releasing it; what is or will be mapped or unmapped is    *)
(* inside the tables, the page beyond the request included; it is mapped   *)
(* page by page and unmapped core by core.                                 *)
Reserved(c) == pc[c] = "map" \/ (pc[c] = "unlock" /\ call[c].op = "alloc")

LockInv ==
  /\ \A g \in grants : LastMapped(g) \in Pages
  /\ \A c \in Cores :
       /\ pc[c] \notin {"idle", "lock"} => owner = c
       /\ pc[c] \in {"alloc", "map"} => call[c].op = "alloc"
       /\ pc[c] \in {"free", "unmap"} => call[c].op = "free"
       /\ pc[c] = "lock" => call[c].op # "none"
       /\ call[c].op = "free" \/ Reserved(c) => LastMapped(call[c]) \in Pages
       /\ pc[c] = "map" => at[c] \in call[c].page .. LastMapped(call[c])
       /\ pc[c] = "unmap" => at[c] \in Cores

(* A call is unmapping page p, and core k's table is still to come.        *)
Due(k, p) == \E c \in Cores : /\ pc[c] = "unmap" /\ at[c] <= k
                              /\ p \in call[c].page .. LastMapped(call[c])

(* The tables agree but for the pages being unmapped, which are gone from  *)
(* the tables of the first cores and unchanged in those of the others; ... *)
AgreeInv ==
  /\ \A k, l \in Cores : \A p \in Pages :
       (Due(k, p) <=> Due(l, p)) => table[k][p] = table[l][p]
  /\ \A c, k \in Cores : pc[c] = "unmap" /\ k < at[c] =>
       \A p \in Pages : p \in call[c].page .. LastMapped(call[c]) =>
         table[k][p] = None

(* ... a collection is mapped once, and one that is free is mapped only in *)
(* a page that is being unmapped, by a core whose table is still to come.  *)
OwnedInv ==
  \A k \in Cores : \A p \in Pages : table[k][p] # None =>
    /\ ~Due(k, p) => table[k][p] \notin free
    /\ \A q \in Pages : p # q => table[k][p] # table[k][q]

(* The pages of an allocation that has reserved them and not returned are  *)
(* treated as a grant.                                                     *)
GrantInv ==
  ~freed => /\ GrantsDisjoint
            /\ \A c \in Cores : Reserved(c) =>
                 /\ PagesOf(call[c]) \subseteq used
                 /\ \A g \in grants : PagesOf(call[c]) \cap PagesOf(g) = {}

(* "deallocating of an unallocated memory.. should not happen!"            *)
NeverUnallocated == ~alarm
=============================================================================
