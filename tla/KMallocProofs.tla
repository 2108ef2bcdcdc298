---------------------------- MODULE KMallocProofs ----------------------------
(***************************************************************************)
(* Disjointness of the blocks of KMalloc.tla for any number of cores, any  *)
(* heap layout and any request sizes that do not wrap the 64-bit sum.      *)
(***************************************************************************)
EXTENDS KMalloc, TLAPS

(* Rounding up moves an address by less than a page, and never down.       *)
LEMMA PageUpBounds ==
  ASSUME NEW a \in Nat, a + PageSize < Word
  PROVE  PageUp(a) \in Nat /\ a <= PageUp(a) /\ PageUp(a) < a + PageSize
<1> USE LayoutAssumption
<1>1. a % PageSize \in 0 .. PageSize - 1
  OBVIOUS
<1> DEFINE r == a % PageSize
<1> HIDE DEF r
<1>2. r \in 0 .. PageSize - 1
  BY <1>1 DEF r
<1>3. r <= a
  BY DEF r
<1>4. (a - r) + PageSize \in 0 .. Word - 1
  BY <1>2, <1>3
<1>5. ((a - r) + PageSize) % Word = (a - r) + PageSize
  BY <1>4
<1>6. PageUp(a) = IF r = 0 THEN a ELSE (a - r) + PageSize
  BY <1>5 DEF PageUp, r
<1> QED
  BY <1>2, <1>3, <1>6

(* memoryAllocatorAdjust leaves room for everything in use.                *)
LEMMA AdjustKeepsUsed ==
  ASSUME NEW used \in Nat
  PROVE  (used * 11) \div 10 \in Nat /\ used <= (used * 11) \div 10
OBVIOUS

(* The inductive invariant of the allocator.                               *)
THEOREM HeapCorrect == Spec => [](TypeOK /\ HeapInv)
<1> USE CoresAssumption, LayoutAssumption, NoWrapAssumption
<1> USE DEF KernelEnd, Heaps, Block, Requests, Services, NoCall, Kernel,
            Aligned, HeapOf
<1>1. Init => TypeOK /\ HeapInv
  BY DEF Init, Lock!Init, TypeOK, HeapInv, LockHeld, HeapsOrdered, Frontier,
         PendingFits, BlocksDisjoint
<1>2. TypeOK /\ HeapInv /\ [Next]_vars => (TypeOK /\ HeapInv)'
  <2> SUFFICES ASSUME TypeOK, HeapInv, [Next]_vars
               PROVE  TypeOK' /\ HeapInv'
    OBVIOUS
  <2> USE DEF HeapInv, Goto
  <2>1. ASSUME NEW c \in Cores, Call(c) PROVE TypeOK' /\ HeapInv'
    BY <2>1 DEF Call, TypeOK, LockHeld, HeapsOrdered, Frontier, PendingFits,
                BlocksDisjoint
  <2>2. ASSUME NEW c \in Cores, Acquire(c) PROVE TypeOK' /\ HeapInv'
    BY <2>2 DEF Acquire, Lock!Acquire, TypeOK, LockHeld, HeapsOrdered,
                Frontier, PendingFits, BlocksDisjoint
  <2>3. ASSUME NEW c \in Cores, Test(c) PROVE TypeOK' /\ HeapInv'
    <3> DEFINE h == heap[HeapOf(call[c].op)]
    <3>1. /\ h \in Heaps
          /\ h.current + PageSize < Word
          /\ h.current + 2 * PageSize + call[c].size < Word
          /\ call[c].size \in Nat
      <4>1. call[c].size \in Sizes /\ HeapOf(call[c].op) \in {"kernel", "user"}
        BY <2>3 DEF Test
      <4>2. /\ heap["kernel"] \in Heaps /\ heap["user"] \in Heaps
            /\ heap["kernel"].current \in Nat /\ heap["user"].current \in Nat
            /\ heap["kernel"].current <= MaxEnd
            /\ \/ heap["user"].current <= MaxEnd + 1 + PageSize
               \/ heap["user"].current <= UserEnd
        BY DEF TypeOK, HeapsOrdered
      <4>3. /\ call[c].size \in Nat
            /\ MaxEnd + 1 + 3 * PageSize + call[c].size < Word
            /\ UserEnd + 3 * PageSize + call[c].size < Word
        BY <4>1
      <4>4. h = heap["kernel"] \/ h = heap["user"]
        BY <4>1
      <4> HIDE DEF h, Heaps
      <4>5. h \in Heaps /\ h.current \in Nat
            /\ (h.current <= MaxEnd + 1 + PageSize \/ h.current <= UserEnd)
        BY <4>2, <4>4
      <4> QED
        BY <4>3, <4>5
    <3>2. /\ Candidate(c) \in Nat
          /\ h.current <= Candidate(c)
          /\ Candidate(c) <= h.current + PageSize
      BY <3>1, PageUpBounds DEF Candidate
    <3>3. (Candidate(c) + call[c].size) % Word = Candidate(c) + call[c].size
      <4>1. Candidate(c) + call[c].size \in 0 .. Word - 1
        BY <3>1, <3>2
      <4> QED
        BY <4>1
    <3>4. Fits(c) <=> Candidate(c) + call[c].size < h.end
      BY <3>3 DEF Fits
    <3>5. PendingFits'
      BY <2>3, <3>2, <3>4 DEF Test, TypeOK, LockHeld, PendingFits
    <3> QED
      BY <2>3, <3>2, <3>5 DEF Test, TypeOK, LockHeld, HeapsOrdered, Frontier,
                              BlocksDisjoint
  <2>4. ASSUME NEW c \in Cores, Store(c) PROVE TypeOK' /\ HeapInv'
    <3> DEFINE g == HeapOf(call[c].op)
               b0 == [heap |-> g, start |-> cur[c], size |-> call[c].size]
    <3>1. /\ call[c] \in Requests /\ call[c].size \in Nat
          /\ g \in {"kernel", "user"} /\ heap[g] \in Heaps
          /\ heap[g].current <= cur[c]
          /\ cur[c] + call[c].size < heap[g].end
          /\ cur[c] \in Nat
      BY <2>4 DEF Store, TypeOK, PendingFits
    <3>2. heap[g].end < Word
      BY <3>1 DEF HeapsOrdered, TypeOK
    <3>3. (cur[c] + call[c].size) % Word = cur[c] + call[c].size
      <4>1. cur[c] + call[c].size \in 0 .. Word - 1
        BY <3>1, <3>2
      <4> QED
        BY <4>1
    <3>4. /\ heap' = [heap EXCEPT ![g].current = cur[c] + call[c].size]
          /\ blocks' = blocks \cup {b0}
      BY <2>4, <3>3 DEF Store
    <3> HIDE DEF g
    <3>5. TypeOK'
      BY <2>4, <3>1, <3>4 DEF Store, TypeOK
    <3>6. LockHeld' /\ PendingFits'
      BY <2>4, <3>1 DEF Store, TypeOK, LockHeld, PendingFits
    <3>7. HeapsOrdered'
      BY <3>1, <3>4 DEF TypeOK, HeapsOrdered
    <3>8. Frontier'
      BY <3>1, <3>4 DEF TypeOK, Frontier, HeapsOrdered, End
    <3>9. BlocksDisjoint'
      <4>1. \A d \in blocks : d.heap = g => Disjoint(d, b0) /\ Disjoint(b0, d)
        BY <3>1 DEF Frontier, Disjoint, End, TypeOK
      <4> QED
        BY <3>4, <4>1 DEF BlocksDisjoint
    <3> QED
      BY <3>5, <3>6, <3>7, <3>8, <3>9
  <2>5. ASSUME NEW c \in Cores, Release(c) PROVE TypeOK' /\ HeapInv'
    BY <2>5 DEF Release, Lock!Release, TypeOK, LockHeld, HeapsOrdered,
                Frontier, PendingFits, BlocksDisjoint
  <2>6. ASSUME NEW c \in Cores, Dump(c) PROVE TypeOK' /\ HeapInv'
    BY <2>6 DEF Dump, TypeOK, LockHeld, HeapsOrdered,
                Frontier, PendingFits, BlocksDisjoint
  <2>7. ASSUME NEW c \in Cores, Touch(c) PROVE TypeOK' /\ HeapInv'
    BY <2>7 DEF Touch, TypeOK, LockHeld, HeapsOrdered,
                Frontier, PendingFits, BlocksDisjoint
  <2>8. ASSUME NEW c \in Cores, Untouch(c) PROVE TypeOK' /\ HeapInv'
    BY <2>8 DEF Untouch, UserBlocks, TypeOK, LockHeld, HeapsOrdered,
                Frontier, PendingFits, BlocksDisjoint
  <2>9. ASSUME NEW c \in Cores, Adjust(c) PROVE TypeOK' /\ HeapInv'
    <3> DEFINE k == heap["kernel"]
               end == AdjustedEnd
               first == PageUp(end + 1)
    <3>1. /\ k \in Heaps /\ k.start = KernelStart /\ k.start <= k.current
          /\ heap["user"] \in Heaps
      BY DEF TypeOK, HeapsOrdered
    <3>2. end \in Nat /\ k.current <= end /\ end <= MaxEnd
      BY <2>9, <3>1, AdjustKeepsUsed DEF Adjust, AdjustedEnd
    <3>3. first \in Nat /\ end < first /\ first <= MaxEnd + 1 + PageSize
      BY <3>2, PageUpBounds
    <3>4. /\ heap' = [heap EXCEPT !["kernel"].end = end,
                                  !["user"].start = first,
                                  !["user"].current = first]
          /\ blocks' = blocks \ UserBlocks
      BY <2>9 DEF Adjust
    <3> HIDE DEF end, first
    <3>5. TypeOK'
      <4>1. heap' \in [{"kernel", "user"} -> Heaps]
        BY <3>1, <3>2, <3>3, <3>4 DEF TypeOK
      <4>2. blocks' \subseteq Block
        BY <3>4 DEF TypeOK
      <4> QED
        BY <2>9, <4>1, <4>2 DEF Adjust, TypeOK
    <3>6. LockHeld' /\ PendingFits'
      BY <2>9 DEF Adjust, TypeOK, LockHeld, PendingFits
    <3>7. HeapsOrdered'
      BY <3>1, <3>2, <3>3, <3>4 DEF TypeOK, HeapsOrdered
    <3>8. Frontier' /\ BlocksDisjoint'
      BY <3>4 DEF TypeOK, Frontier, BlocksDisjoint, UserBlocks
    <3> QED
      BY <3>5, <3>6, <3>7, <3>8
  <2>10. CASE UNCHANGED vars
    BY <2>10 DEF vars, TypeOK, LockHeld, HeapsOrdered, Frontier, PendingFits,
                BlocksDisjoint
  <2> QED
    BY <2>1, <2>2, <2>3, <2>4, <2>5, <2>6, <2>7, <2>8, <2>9, <2>10 DEF Next
<1> QED
  BY <1>1, <1>2, PTL DEF Spec

(* The cores never get overlapping memory from kmalloc, kvalloc, malloc or *)
(* valloc.                                                                 *)
THEOREM NoDoubleGrant == Spec => []BlocksDisjoint
<1>1. TypeOK /\ HeapInv => BlocksDisjoint
  BY DEF HeapInv
<1> QED
  BY <1>1, HeapCorrect, PTL

(* Kernel blocks stay below the end of the kernel heap and out of the user *)
(* heap, memoryAllocatorAdjust included.                                   *)
THEOREM KernelContained == Spec => []KernelBlocksInside
<1>1. TypeOK /\ HeapInv => KernelBlocksInside
  BY LayoutAssumption DEF TypeOK, HeapInv, HeapsOrdered, Frontier,
     KernelBlocksInside, End, Heaps, Block
<1> QED
  BY <1>1, HeapCorrect, PTL

(* No step of any core moves the kernel heap's current address back.       *)
THEOREM KernelMonotone == Spec => KernelGrows
<1> USE CoresAssumption, LayoutAssumption, NoWrapAssumption
<1>1. TypeOK /\ HeapInv /\ [Next]_vars
      => [heap'["kernel"].current >= heap["kernel"].current]_heap
  <2> SUFFICES ASSUME TypeOK, HeapInv, [Next]_vars
               PROVE  \/ heap'["kernel"].current >= heap["kernel"].current
                      \/ UNCHANGED heap
    OBVIOUS
  <2>1. heap["kernel"] \in Heaps /\ heap["user"] \in Heaps
        /\ DOMAIN heap = {"kernel", "user"}
    BY DEF TypeOK
  <2>2. ASSUME NEW c \in Cores, Store(c)
        PROVE  heap'["kernel"].current >= heap["kernel"].current
    <3>1. CASE HeapOf(call[c].op) = "user"
      BY <2>1, <2>2, <3>1 DEF Store, Heaps
    <3>2. CASE HeapOf(call[c].op) = "kernel"
      <4>1. /\ cur[c] \in Nat /\ call[c].size \in Nat
            /\ heap["kernel"].current <= cur[c]
            /\ cur[c] + call[c].size < heap["kernel"].end
            /\ heap["kernel"].end \in Nat /\ heap["kernel"].end <= MaxEnd
            /\ heap["kernel"].current \in Nat
        BY <2>1, <2>2, <3>2 DEF Store, TypeOK, HeapInv, PendingFits,
           HeapsOrdered, Heaps, Requests
      <4>2. MaxEnd < Word
        <5>1. 0 \in Sizes \cup {0}
          OBVIOUS
        <5>2. MaxEnd + 1 + 3 * PageSize + 0 < Word
          BY <5>1
        <5> QED
          BY <5>2
      <4>3. cur[c] + call[c].size \in 0 .. Word - 1
        BY <4>1, <4>2
      <4>4. (cur[c] + call[c].size) % Word = cur[c] + call[c].size
        BY <4>3
      <4>5. heap'["kernel"].current = cur[c] + call[c].size
        BY <2>1, <2>2, <3>2, <4>4 DEF Store, Heaps
      <4> QED
        BY <4>1, <4>5
    <3> QED
      BY <3>1, <3>2 DEF HeapOf
  <2>3. ASSUME NEW c \in Cores, Untouch(c) \/ Adjust(c)
        PROVE  heap'["kernel"].current >= heap["kernel"].current
    BY <2>1, <2>3 DEF Untouch, Adjust, Heaps
  <2>4. ASSUME NEW c \in Cores,
               Call(c) \/ Acquire(c) \/ Test(c) \/ Release(c) \/ Dump(c)
               \/ Touch(c)
        PROVE  UNCHANGED heap
    BY <2>4 DEF Call, Acquire, Test, Release, Dump, Touch
  <2> QED
    BY <2>2, <2>3, <2>4 DEF Next, vars
<1> QED
  BY <1>1, HeapCorrect, PTL DEF Spec, KernelGrows
=============================================================================
