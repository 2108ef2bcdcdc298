------------------------------- MODULE KMalloc -------------------------------
(***************************************************************************)
(* sources/memory/KMalloc.c: the kernel's two bump allocators, called from *)
(* every core under one spinlock.  The lock is the abstract one of         *)
(* Mutex.tla, which Spinlock.tla implements.                               *)
(*                                                                         *)
(* Addresses are uint64_t: sums are taken modulo Word.  PageMapStage1      *)
(* gives the kernel heap its bounds.  Nothing in the kernel assigns        *)
(* user_memory_end_address, so in the kernel UserEnd is the 0 that the     *)
(* global starts with and malloc and valloc always fail.                   *)
(***************************************************************************)
EXTENDS Integers

CONSTANTS Cores, NoCore,
          Sizes,        \* the sizes requested
          Word,         \* 2^64
          PageSize,     \* 0x1000
          KernelStart,  \* KERNELKMALLOC_INITIAL_MEMORY_ADDRESS
          KernelSize,   \* KERNELKMALLOC_INITIAL_MEMORY_SIZE
          UserEnd,      \* user_memory_end_address
          Uint16,       \* 2^16, the width of touch
          MaxEnd        \* bound: how far repeated Adjusts move the end

KernelEnd == KernelStart + KernelSize - 1

ASSUME CoresAssumption == NoCore \notin Cores
ASSUME LayoutAssumption ==
  /\ Word \in Nat /\ PageSize \in Nat \ {0}
  /\ KernelStart \in Nat \ {0} /\ KernelSize \in Nat \ {0}
  /\ UserEnd \in Nat /\ Uint16 \in Nat \ {0}
  /\ MaxEnd \in Nat /\ KernelEnd <= MaxEnd
  /\ Sizes \subseteq Nat
(* The ends of the heaps, three pages and the largest request stay below   *)
(* 2^64; a request that wrapped the sum would be granted (see README).     *)
ASSUME NoWrapAssumption ==
  \A s \in Sizes \cup {0} : /\ MaxEnd + 1 + 3 * PageSize + s < Word
                           /\ UserEnd + 3 * PageSize + s < Word

VARIABLES heap,     \* the start, current and end address of both heaps
          touch,    \* uint16_t: clients of the user heap
          owner,    \* holder of memoryAllocator.spinlock
          pc, call, \* where each core is and what it asked for
          cur,      \* the local variable "cur" of each call
          blocks    \* history: the blocks handed out and not withdrawn

vars == <<heap, touch, owner, pc, call, cur, blocks>>

Lock == INSTANCE Mutex

Requests == [op : {"kmalloc", "kvalloc", "malloc", "valloc"}, size : Sizes]
Services == [op : {"dump", "touch", "untouch", "adjust"}, size : {0}]
Kernel == {"kmalloc", "kvalloc"}
Aligned == {"kvalloc", "valloc"}
HeapOf(op) == IF op \in Kernel THEN "kernel" ELSE "user"

NoCall == [op |-> "none", size |-> 0]

Heaps == [start : Nat, current : Nat, end : Nat]
Block == [heap : {"kernel", "user"}, start : Nat, size : Nat]

TypeOK == /\ heap \in [{"kernel", "user"} -> Heaps]
          /\ touch \in 0 .. Uint16 - 1
          /\ owner \in Cores \cup {NoCore}
          /\ pc \in [Cores -> {"idle", "lock", "work", "store", "unlock"}]
          /\ call \in [Cores -> Requests \cup Services \cup {NoCall}]
          /\ cur \in [Cores -> Nat]
          /\ blocks \subseteq Block

\* PageMapStage1 (the user half is the zeroed global)
Init == /\ heap = [h \in {"kernel", "user"} |->
             IF h = "kernel"
             THEN [start |-> KernelStart, current |-> KernelStart,
                   end |-> KernelEnd]
             ELSE [start |-> 0, current |-> 0, end |-> UserEnd]]
        /\ touch = 0
        /\ Lock!Init
        /\ pc = [c \in Cores |-> "idle"]
        /\ call = [c \in Cores |-> NoCall]
        /\ cur = [c \in Cores |-> 0]
        /\ blocks = {}

Goto(c, label) == pc' = [pc EXCEPT ![c] = label]

\* (a & 0xFFFFFFFFFFFFF000) < a ? next page boundary : a
PageUp(a) == IF a % PageSize = 0 THEN a
             ELSE ((a - (a % PageSize)) + PageSize) % Word

-----------------------------------------------------------------------------
Call(c) == /\ pc[c] = "idle"
           /\ \E r \in Requests \cup Services :
                call' = [call EXCEPT ![c] = r]
           /\ Goto(c, "lock")
           /\ UNCHANGED <<heap, touch, owner, cur, blocks>>

\* Mutant: no spinlock_lock at the head of the function.
AcquireNothing(c) == /\ pc[c] = "lock"
                     /\ Goto(c, "work")
                     /\ UNCHANGED <<heap, touch, owner, call, cur, blocks>>

Acquire(c) == /\ pc[c] = "lock"
              /\ Lock!Acquire(c)
              /\ Goto(c, "work")
              /\ UNCHANGED <<heap, touch, call, cur, blocks>>

\* Where this request's block would start.
Candidate(c) == LET now == heap[HeapOf(call[c].op)].current
                IN  IF call[c].op \in Aligned THEN PageUp(now) ELSE now

\* Mutant: the padding to the page boundary left out of the test.
FitsUnpadded(c) == (heap[HeapOf(call[c].op)].current + call[c].size) % Word
                     < heap[HeapOf(call[c].op)].end

\* cur + p_size < end
Fits(c) == (Candidate(c) + call[c].size) % Word < heap[HeapOf(call[c].op)].end

Test(c) == /\ pc[c] = "work"
           /\ call[c] \in Requests
           /\ cur' = [cur EXCEPT ![c] = Candidate(c)]
           /\ Goto(c, IF Fits(c) THEN "store" ELSE "unlock")
           /\ UNCHANGED <<heap, touch, owner, call, blocks>>

\* Mutant: the page kvalloc started on is not counted as used.
StoreFromOldEnd(c) ==
  LET h == HeapOf(call[c].op)
  IN /\ pc[c] = "store"
     /\ heap' = [heap EXCEPT ![h].current = (@ + call[c].size) % Word]
     /\ blocks' = blocks \cup {[heap |-> h, start |-> cur[c],
                                size |-> call[c].size]}
     /\ Goto(c, "unlock")
     /\ UNCHANGED <<touch, owner, call, cur>>

Store(c) ==
  LET h == HeapOf(call[c].op)
  IN /\ pc[c] = "store"
     /\ heap' = [heap EXCEPT ![h].current = (cur[c] + call[c].size) % Word]
     /\ blocks' = blocks \cup {[heap |-> h, start |-> cur[c],
                                size |-> call[c].size]}
     /\ Goto(c, "unlock")
     /\ UNCHANGED <<touch, owner, call, cur>>

\* memoryAllocatorDump only prints.
Dump(c) == /\ pc[c] = "work"
           /\ call[c].op = "dump"
           /\ Goto(c, "unlock")
           /\ UNCHANGED <<heap, touch, owner, call, cur, blocks>>

\* touch++
Touch(c) == /\ pc[c] = "work"
            /\ call[c].op = "touch"
            /\ touch' = (touch + 1) % Uint16
            /\ Goto(c, "unlock")
            /\ UNCHANGED <<heap, owner, call, cur, blocks>>

UserBlocks == {b \in blocks : b.heap = "user"}

\* The last one out empties the user heap; so does one too many.
Untouch(c) == /\ pc[c] = "work"
              /\ call[c].op = "untouch"
              /\ touch' = IF touch > 0 THEN touch - 1 ELSE 0
              /\ \/ /\ touch' = 0
                    /\ heap' = [heap EXCEPT !["user"].current =
                                              heap["user"].start]
                    /\ blocks' = blocks \ UserBlocks
                 \/ /\ touch' # 0
                    /\ UNCHANGED <<heap, blocks>>
              /\ Goto(c, "unlock")
              /\ UNCHANGED <<owner, call, cur>>

\* Mutant: the kernel heap cut back to less than what is in use.
AdjustedEndShort == heap["kernel"].start
                    + ((heap["kernel"].current - heap["kernel"].start) * 9)
                      \div 10

\* kernel_used_memory * 1.1, truncated, above the start
AdjustedEnd == heap["kernel"].start
               + ((heap["kernel"].current - heap["kernel"].start) * 11) \div 10

\* The kernel heap keeps a tenth to spare; the user heap starts after it.
Adjust(c) == LET first == PageUp(AdjustedEnd + 1)
             IN /\ pc[c] = "work"
                /\ call[c].op = "adjust"
                /\ AdjustedEnd <= MaxEnd
                /\ heap' = [heap EXCEPT !["kernel"].end = AdjustedEnd,
                                        !["user"].start = first,
                                        !["user"].current = first]
                /\ blocks' = blocks \ UserBlocks
                /\ Goto(c, "unlock")
                /\ UNCHANGED <<touch, owner, call, cur>>

\* spinlock_unlock and return: the locals are gone
Release(c) == /\ pc[c] = "unlock"
              /\ Lock!Release(c)
              /\ Goto(c, "idle")
              /\ call' = [call EXCEPT ![c] = NoCall]
              /\ cur' = [cur EXCEPT ![c] = 0]
              /\ UNCHANGED <<heap, touch, blocks>>

Next == \E c \in Cores :
          \/ Call(c) \/ Acquire(c) \/ Test(c) \/ Store(c) \/ Release(c)
          \/ Dump(c) \/ Touch(c) \/ Untouch(c) \/ Adjust(c)

Spec == Init /\ [][Next]_vars

-----------------------------------------------------------------------------
(* Properties *)

End(b) == b.start + b.size

Disjoint(b, d) == End(b) <= d.start \/ End(d) <= b.start

(* No byte of a heap is handed out twice, however the calls of the cores   *)
(* interleave; user blocks count until the user heap is emptied.           *)
BlocksDisjoint ==
  \A b, d \in blocks : b.heap = d.heap /\ b # d => Disjoint(b, d)

(* Every kernel block lies between the start and the end of the kernel     *)
(* heap, also after memoryAllocatorAdjust moved that end, so it never      *)
(* reaches into the user heap, which starts behind it.                     *)
KernelBlocksInside ==
  \A b \in blocks : b.heap = "kernel" =>
     /\ KernelStart <= b.start
     /\ End(b) <= heap["kernel"].end
     /\ heap["user"].start # 0 => End(b) <= heap["user"].start

(* The inductive strengthening: a core works on the heap only while it     *)
(* owns the lock, and the current address of a heap is the frontier that   *)
(* no block crosses and every block still to be stored starts behind.      *)
LockHeld == \A c \in Cores :
              pc[c] \in {"work", "store", "unlock"} <=> owner = c

HeapsOrdered ==
  LET k == heap["kernel"]
      u == heap["user"]
  IN /\ k.start = KernelStart /\ k.start <= k.current
     /\ k.current <= k.end /\ k.end <= MaxEnd
     /\ u.start <= u.current /\ u.end = UserEnd
     /\ u.current <= MaxEnd + 1 + PageSize \/ u.current <= UserEnd
     /\ u.start <= MaxEnd + 1 + PageSize
     /\ u.start = 0 \/ k.end < u.start

Frontier == \A b \in blocks : /\ heap[b.heap].start <= b.start
                              /\ End(b) <= heap[b.heap].current

PendingFits == \A c \in Cores : pc[c] = "store" =>
                 LET h == heap[HeapOf(call[c].op)]
                 IN /\ call[c] \in Requests
                    /\ h.current <= cur[c]
                    /\ cur[c] + call[c].size < h.end

HeapInv == LockHeld /\ HeapsOrdered /\ Frontier /\ PendingFits
           /\ BlocksDisjoint

(* The kernel heap never hands memory back.                                *)
KernelGrows == [][heap'["kernel"].current >= heap["kernel"].current]_heap
=============================================================================
