------------------------ MODULE PhysicalMemoryProofs ------------------------
(***************************************************************************)
(* Proofs about PhysicalMemory for every memory map, page size, collection *)
(* size and kernel size.                                                   *)
(***************************************************************************)
EXTENDS PhysicalMemory, FiniteSetTheorems, TLAPS

(* A collection has F frames, all of them natural numbers.                 *)
LEMMA FramesCount ==
  ASSUME NEW i \in Nat
  PROVE  /\ IsFiniteSet(FramesOf(i)) /\ Cardinality(FramesOf(i)) = F
         /\ FramesOf(i) \subseteq Nat
<1>1. i * F \in Nat /\ F \in Nat \ {0}
  BY SizesAssumption
<1>2. PICK a \in Nat : a = i * F
  BY <1>1
<1>3. FramesOf(i) = a..(a + F - 1)
  BY <1>2 DEF FramesOf
<1>4. QED
  BY <1>1, <1>3, FS_Interval, a \in Int, a + F - 1 \in Int

(* Two collections share no frame.                                         *)
LEMMA FramesDisjoint ==
  ASSUME NEW i \in Nat, NEW j \in Nat, i # j
  PROVE  FramesOf(i) \cap FramesOf(j) = {}
<1>1. F \in Nat \ {0}
  BY SizesAssumption
<1>2. \A a, b \in Nat : a < b => a * F + F <= b * F
  <2> SUFFICES ASSUME NEW a \in Nat, NEW b \in Nat, a < b
               PROVE  a * F + F <= b * F
    OBVIOUS
  <2>1. PICK d \in Nat : b = a + 1 + d
    <3> b - a - 1 \in Nat
      OBVIOUS
    <3> QED
      BY b = a + 1 + (b - a - 1)
  <2>2. (a + 1 + d) * F = a * F + F + d * F
    BY <1>1
  <2>3. d * F \in Nat /\ a * F \in Nat
    BY <1>1
  <2> QED
    BY <2>1, <2>2, <2>3, <1>1
<1>3. i * F \in Nat /\ j * F \in Nat
  BY <1>1
<1>4. CASE i < j
  <2>1. i * F + F <= j * F
    BY <1>2, <1>4
  <2> QED
    BY <2>1, <1>1, <1>3 DEF FramesOf
<1>5. CASE j < i
  <2>1. j * F + F <= i * F
    BY <1>2, <1>5
  <2> QED
    BY <2>1, <1>1, <1>3 DEF FramesOf
<1>6. QED
  BY <1>4, <1>5

(* Taking one set frame out of a collection lowers its number of set bits  *)
(* by one and that of no other collection.                                 *)
LEMMA ClearOne ==
  ASSUME NEW i \in Nat, NEW B, NEW f \in FramesOf(i) \cap B
  PROVE  /\ Cardinality(FramesOf(i) \cap (B \ {f}))
              = Cardinality(FramesOf(i) \cap B) - 1
         /\ \A j \in Nat \ {i} :
              FramesOf(j) \cap (B \ {f}) = FramesOf(j) \cap B
<1>1. IsFiniteSet(FramesOf(i) \cap B)
  BY FramesCount, FS_Intersection
<1>2. FramesOf(i) \cap (B \ {f}) = (FramesOf(i) \cap B) \ {f}
  OBVIOUS
<1>3. Cardinality((FramesOf(i) \cap B) \ {f})
        = Cardinality(FramesOf(i) \cap B) - 1
  BY <1>1, FS_RemoveElement
<1>4. ASSUME NEW j \in Nat \ {i}
      PROVE  FramesOf(j) \cap (B \ {f}) = FramesOf(j) \cap B
  <2>1. FramesOf(i) \cap FramesOf(j) = {}
    BY FramesDisjoint
  <2> QED
    BY <2>1
<1>5. QED
  BY <1>2, <1>3, <1>4

(* How many bits of a collection are set is a natural number up to F.      *)
LEMMA CountType ==
  ASSUME NEW i \in Nat, NEW B
  PROVE  /\ IsFiniteSet(FramesOf(i) \cap B)
         /\ Cardinality(FramesOf(i) \cap B) \in 0..F
<1>1. IsFiniteSet(FramesOf(i)) /\ Cardinality(FramesOf(i)) = F
  BY FramesCount
<1>2. /\ IsFiniteSet(FramesOf(i) \cap B)
      /\ Cardinality(FramesOf(i) \cap B) <= F
  BY <1>1, FS_Intersection
<1>3. Cardinality(FramesOf(i) \cap B) \in Nat
  BY <1>2, FS_CardinalityType
<1>4. QED
  BY <1>2, <1>3, SizesAssumption

(* The count is F exactly when the whole collection is set, and zero       *)
(* exactly when none of it is.                                             *)
LEMMA CountExtremes ==
  ASSUME NEW i \in Nat, NEW B
  PROVE  /\ Cardinality(FramesOf(i) \cap B) = F <=> FramesOf(i) \subseteq B
         /\ Cardinality(FramesOf(i) \cap B) = 0 <=> FramesOf(i) \cap B = {}
<1>1. /\ IsFiniteSet(FramesOf(i)) /\ Cardinality(FramesOf(i)) = F
      /\ IsFiniteSet(FramesOf(i) \cap B)
  BY FramesCount, CountType
<1>2. FramesOf(i) \cap B \in SUBSET FramesOf(i)
  OBVIOUS
<1>3. Cardinality(FramesOf(i)) = Cardinality(FramesOf(i) \cap B)
        => FramesOf(i) = FramesOf(i) \cap B
  BY <1>1, <1>2, FS_Subset
<1>4. FramesOf(i) \subseteq B => FramesOf(i) \cap B = FramesOf(i)
  OBVIOUS
<1>5. Cardinality(FramesOf(i) \cap B) = F <=> FramesOf(i) \subseteq B
  BY <1>1, <1>3, <1>4
<1>6. Cardinality(FramesOf(i) \cap B) = 0 <=> FramesOf(i) \cap B = {}
  BY <1>1, FS_EmptySet
<1>7. QED
  BY <1>5, <1>6

-----------------------------------------------------------------------------
(* Taking the first free frame keeps the counts right and leaves, apart    *)
(* from that frame, what was free.                                         *)
LEMMA TakeKeeps ==
  ASSUME TypeOK, CountsAgree, NEW i \in Collections, NEW f \in FramesOf(i),
         Take(f, i)
  PROVE  /\ f \in bitmap /\ bitmap' = bitmap \ {f}
         /\ DOMAIN available' = DOMAIN available
         /\ available' \in [DOMAIN available' -> 0..F]
         /\ CountsAgree'
<1>1. /\ i \in Nat /\ Collections \subseteq Nat /\ F \in Nat
      /\ available \in [DOMAIN available -> 0..F]
  BY SizesAssumption DEF TypeOK, Collections
<1>2. f \in FramesOf(i) \cap bitmap /\ bitmap' = bitmap \ {f}
  BY DEF Take, First
<1>3. /\ available' = [available EXCEPT ![i] = @ - 1]
      /\ DOMAIN available' = DOMAIN available
      /\ available[i] > 0
  BY DEF Take, First, HasFree, Collections
<1>4. available' \in [DOMAIN available' -> 0..F]
  BY <1>1, <1>3 DEF Collections
<1>5. CountsAgree'
  <2> SUFFICES ASSUME NEW j \in Collections
               PROVE  available'[j] = Cardinality(FramesOf(j) \cap bitmap')
    BY <1>3 DEF CountsAgree, Collections, FramesOf
  <2>1. j \in Nat /\ available[j] = Cardinality(FramesOf(j) \cap bitmap)
    BY <1>1 DEF CountsAgree
  <2>2. CASE j = i
    <3>1. Cardinality(FramesOf(i) \cap (bitmap \ {f}))
            = Cardinality(FramesOf(i) \cap bitmap) - 1
      BY <1>1, <1>2, ClearOne
    <3> QED
      BY <3>1, <2>1, <2>2, <1>1, <1>2, <1>3 DEF Collections
  <2>3. CASE j # i
    <3>0. FramesOf(i) \cap FramesOf(j) = {}
      BY <1>1, <2>1, <2>3, FramesDisjoint
    <3>1. FramesOf(j) \cap (bitmap \ {f}) = FramesOf(j) \cap bitmap
      BY <3>0
    <3> QED
      BY <3>1, <2>1, <2>3, <1>1, <1>2, <1>3 DEF Collections
  <2> QED
    BY <2>2, <2>3
<1>6. QED
  BY <1>2, <1>3, <1>4, <1>5

(* Setting the cleared bits of some frames, each counted where it belongs, *)
(* keeps the counts right: one frame ...                                   *)
LEMMA FreeOneKeeps ==
  ASSUME TypeOK, CountsAgree, NEW f, f \notin bitmap,
         bitmap' = bitmap \cup {f},
         available' = [i \in Collections |->
                         IF f \in FramesOf(i) THEN available[i] + 1
                         ELSE available[i]]
  PROVE  /\ DOMAIN available' = DOMAIN available
         /\ available' \in [DOMAIN available' -> 0..F]
         /\ CountsAgree'
<1>1. Collections \subseteq Nat /\ F \in Nat
  BY SizesAssumption DEF TypeOK, Collections
<1>2. DOMAIN available' = DOMAIN available
  BY DEF Collections
<1>3. ASSUME NEW i \in Collections
      PROVE  available'[i] = Cardinality(FramesOf(i) \cap bitmap')
  <2>1. /\ i \in Nat /\ available[i] = Cardinality(FramesOf(i) \cap bitmap)
        /\ IsFiniteSet(FramesOf(i) \cap bitmap)
    BY <1>1, CountType DEF CountsAgree
  <2>2. CASE f \in FramesOf(i)
    <3>1. FramesOf(i) \cap bitmap' = (FramesOf(i) \cap bitmap) \cup {f}
      BY <2>2
    <3>2. Cardinality((FramesOf(i) \cap bitmap) \cup {f})
            = Cardinality(FramesOf(i) \cap bitmap) + 1
      BY <2>1, FS_AddElement
    <3> QED
      BY <2>1, <2>2, <3>1, <3>2
  <2>3. CASE f \notin FramesOf(i)
    <3>1. FramesOf(i) \cap bitmap' = FramesOf(i) \cap bitmap
      BY <2>3
    <3> QED
      BY <2>1, <2>3, <3>1
  <2> QED
    BY <2>2, <2>3
<1>4. CountsAgree'
  BY <1>2, <1>3 DEF CountsAgree, Collections, FramesOf
<1>5. \A i \in Collections : available'[i] \in 0..F
  BY <1>1, <1>3, CountType
<1>6. available' \in [DOMAIN available' -> 0..F]
  BY <1>2, <1>5 DEF Collections
<1>7. QED
  BY <1>2, <1>4, <1>6

(* ... or a whole collection that was taken or is given back.              *)
LEMMA WholeKeeps ==
  ASSUME TypeOK, CountsAgree, NEW i \in Collections,
         \/ /\ bitmap' = bitmap \ FramesOf(i)
            /\ available' = [available EXCEPT ![i] =
                               @ - Cardinality(FramesOf(i) \cap bitmap)]
         \/ /\ bitmap' = bitmap \cup FramesOf(i)
            /\ available' = [available EXCEPT ![i] =
                               @ + Cardinality(FramesOf(i) \ bitmap)]
  PROVE  /\ DOMAIN available' = DOMAIN available
         /\ available' \in [DOMAIN available' -> 0..F]
         /\ CountsAgree'
<1>1. Collections \subseteq Nat /\ F \in Nat
  BY SizesAssumption DEF TypeOK, Collections
<1>2. DOMAIN available' = DOMAIN available
  OBVIOUS
<1>3. \A j \in Collections \ {i} :
         /\ available'[j] = available[j]
         /\ FramesOf(j) \cap bitmap' = FramesOf(j) \cap bitmap
  <2> TAKE j \in Collections \ {i}
  <2>1. FramesOf(i) \cap FramesOf(j) = {}
    BY <1>1, FramesDisjoint
  <2>2. available'[j] = available[j]
    BY DEF Collections
  <2>3. FramesOf(j) \cap bitmap' = FramesOf(j) \cap bitmap
    BY <2>1
  <2> QED
    BY <2>2, <2>3
<1>4. available'[i] = Cardinality(FramesOf(i) \cap bitmap')
  <2>1. /\ IsFiniteSet(FramesOf(i)) /\ Cardinality(FramesOf(i)) = F
        /\ Cardinality(FramesOf(i) \cap bitmap) \in 0..F
        /\ available[i] = Cardinality(FramesOf(i) \cap bitmap)
    BY <1>1, FramesCount, CountType DEF CountsAgree
  <2>2. CASE /\ bitmap' = bitmap \ FramesOf(i)
             /\ available' = [available EXCEPT ![i] =
                                @ - Cardinality(FramesOf(i) \cap bitmap)]
    <3>1. FramesOf(i) \cap bitmap' = {}
      BY <2>2
    <3>2. available'[i] = available[i] - Cardinality(FramesOf(i) \cap bitmap)
      BY <2>2 DEF Collections
    <3>3. available'[i] = 0
      BY <2>1, <3>2, <1>1
    <3>4. Cardinality(FramesOf(i) \cap bitmap') = 0
      BY <3>1, FS_EmptySet, Zenon
    <3> QED
      BY <3>3, <3>4
  <2>3. CASE /\ bitmap' = bitmap \cup FramesOf(i)
             /\ available' = [available EXCEPT ![i] =
                                @ + Cardinality(FramesOf(i) \ bitmap)]
    <3>1. FramesOf(i) \cap bitmap' = FramesOf(i)
      BY <2>3
    <3>2. available'[i] = available[i] + Cardinality(FramesOf(i) \ bitmap)
      BY <2>3 DEF Collections
    <3>3. Cardinality(FramesOf(i) \ bitmap)
            = Cardinality(FramesOf(i)) - Cardinality(FramesOf(i) \cap bitmap)
      BY <2>1, FS_Difference
    <3>4. Cardinality(FramesOf(i) \cap bitmap') = F
      BY <2>1, <3>1, Zenon
    <3>5. available'[i] = F
      BY <2>1, <3>2, <3>3, <1>1
    <3> QED
      BY <3>4, <3>5
  <2> QED
    BY <2>2, <2>3
<1>5. CountsAgree'
  BY <1>2, <1>3, <1>4 DEF CountsAgree, Collections, FramesOf
<1>6. \A j \in Collections : available'[j] \in 0..F
  <2> TAKE j \in Collections
  <2>1. available'[j] = Cardinality(FramesOf(j) \cap bitmap')
    BY <1>2, <1>5 DEF CountsAgree, Collections, FramesOf
  <2> QED
    BY <1>1, <2>1, CountType
<1>7. available' \in [DOMAIN available' -> 0..F]
  <2>1. available' = [j \in DOMAIN available' |-> available'[j]]
    OBVIOUS
  <2> QED
    BY <1>2, <1>6, <2>1 DEF Collections
<1>8. QED
  BY <1>2, <1>5, <1>7

-----------------------------------------------------------------------------
(* The type invariant and the inductive invariant of the allocator hold in *)
(* every reachable state.                                                  *)
THEOREM MemoryCorrect == Spec => [](TypeOK /\ MemoryInv)
<1> USE SizesAssumption
<1>1. Init => TypeOK /\ MemoryInv
  <2> SUFFICES ASSUME Init PROVE TypeOK /\ MemoryInv
    OBVIOUS
  <2>1. DOMAIN available = {} /\ available \in [{} -> 0..F]
    BY DEF Init
  <2>2. TypeOK
    <3>1. /\ available \in [DOMAIN available -> 0..F]
          /\ DOMAIN available \subseteq Nat
      BY <2>1, Zenon
    <3>2. entries \in Seq(Entry)
      BY DEF Init
    <3>3. /\ total \in 0..IntMax /\ todo \in 0..MaxTake
          /\ bitmap \subseteq 0..IntMax
          /\ held \subseteq 0..IntMax /\ dropped \subseteq 0..IntMax
      <4>1. 0 \in 0..IntMax /\ 0 \in 0..MaxTake
        OBVIOUS
      <4> QED
        BY <4>1, Zenon DEF Init
    <3>5. /\ phase \in {"boot", "nomap", "mapped", "bitmap", "ready"}
          /\ alarm \in BOOLEAN
      BY Zenon DEF Init
    <3>4. ret \in [op : {"none", "frame", "collection", "free"}, val : Int]
      BY DEF Init
    <3> QED
      BY <3>1, <3>2, <3>3, <3>4, <3>5, Zenon DEF TypeOK
  <2>3. MemoryInv
    BY <2>1 DEF Init, MemoryInv, Started, CountsAgree, NoDoubleGrant, OnlyRam,
       FailsOnlyExhausted, Silent, Collections
  <2> QED
    BY <2>2, <2>3
<1>2. ASSUME TypeOK, MemoryInv, [Next]_vars
      PROVE  TypeOK' /\ MemoryInv'
  <2> USE <1>2 DEF MemoryInv
  <2>1. CASE InitializePhysicalMemory
    <3>1. PICK m \in Maps : entries' = m /\ total' = Total(m)
      BY <2>1 DEF InitializePhysicalMemory
    <3>2. entries' \in Seq(Entry) /\ total' \in 0..IntMax
      BY <3>1, MapsAssumption
    <3> QED
      BY <2>1, <3>2 DEF InitializePhysicalMemory, TypeOK, Started, CountsAgree,
         NoDoubleGrant, OnlyRam, FailsOnlyExhausted, Silent, Collections
  <2>2. CASE NoMemoryMap
    BY <2>2 DEF NoMemoryMap, TypeOK, Started, CountsAgree, NoDoubleGrant,
       OnlyRam, Ram, FailsOnlyExhausted, Silent, Collections, FramesOf
  <2>3. CASE AddPhysicalMemoryEntry
    <3>1. /\ entries' \in Seq(Entry)
          /\ DOMAIN entries \subseteq DOMAIN entries'
          /\ \A i \in DOMAIN entries : entries'[i] = entries[i]
      <4>1. CASE UNCHANGED entries
        BY <4>1 DEF TypeOK
      <4>2. CASE ~(UNCHANGED entries)
        <5>1. PICK d \in Devices :
                entries' = Append(entries, [start |-> d.start,
                                   size |-> d.size, type |-> "reserved"])
          BY <2>3, <4>2 DEF AddPhysicalMemoryEntry
        <5>2. [start |-> d.start, size |-> d.size, type |-> "reserved"]
                \in Entry
          BY DevicesAssumption DEF Entry, Types
        <5> QED
          BY <5>1, <5>2 DEF TypeOK
      <4> QED
        BY <4>1, <4>2
    <3>2. \A f : Ram(f) => Ram(f)'
      BY <3>1 DEF Ram
    <3>3. TypeOK'
      BY <2>3, <3>1 DEF AddPhysicalMemoryEntry, TypeOK
    <3>4. OnlyRam'
      BY <2>3, <3>2 DEF AddPhysicalMemoryEntry, OnlyRam, KernelFrames
    <3> QED
      BY <2>3, <3>3, <3>4 DEF AddPhysicalMemoryEntry, Started, CountsAgree,
         NoDoubleGrant, FailsOnlyExhausted, Silent, Collections, FramesOf
  <2>4. CASE CreatePhysicalPagesBitMap
    <3> USE <2>4 DEF CreatePhysicalPagesBitMap
    <3>1. /\ total \in 0..IntMax /\ total \div PageSize \in Nat
          /\ total \div PageSize <= total
      <4> DEFINE q == total \div PageSize
      <4>1. total \in Nat /\ total \in 0..IntMax
        BY DEF TypeOK
      <4>2. q \in Int /\ q * PageSize <= total /\ total < q * PageSize + PageSize
        BY <4>1
      <4>3. q \in Nat
        BY <4>1, <4>2
      <4>4. q <= q * PageSize
        BY <4>3
      <4> QED
        BY <4>1, <4>2, <4>3, <4>4
    <3>2. bitmap' \subseteq 0..IntMax
      BY <3>1
    <3>3. TypeOK'
      BY <3>2 DEF TypeOK
    <3>4. \A f \in bitmap' : f >= KernelFrames /\ Ram(f)'
      <4> SUFFICES ASSUME NEW f \in bitmap'
                   PROVE  f >= KernelFrames /\ Ram(f)
        BY DEF Ram
      <4>1. /\ f \in Nat /\ KernelFrames \in Nat /\ f >= KernelFrames
            /\ f * PageSize \in Nat
            /\ IsUsableAddress(f * PageSize, PageSize)
        BY <3>1 DEF KernelFrames
      <4>2. f * PageSize >= KernelFrames * PageSize
        <5>1. PICK d \in Nat : f = KernelFrames + d
          BY <4>1, f - KernelFrames \in Nat, f = KernelFrames + (f - KernelFrames)
        <5>2. (KernelFrames + d) * PageSize = KernelFrames * PageSize + d * PageSize
          BY <4>1
        <5>3. d * PageSize \in Nat /\ KernelFrames * PageSize \in Nat
          BY <4>1
        <5> QED
          BY <5>1, <5>2, <5>3
      <4>3. ~(f * PageSize < FirstMiB)
        <5>1. FirstMiB <= KernelFrames * PageSize
          BY DEF KernelFrames
        <5>2. KernelFrames * PageSize \in Nat
          BY <4>1
        <5> QED
          BY <4>1, <4>2, <5>1, <5>2
      <4>4. PICK i \in DOMAIN entries :
              /\ entries[i].start <= f * PageSize
              /\ f * PageSize + PageSize < entries[i].start + entries[i].size
              /\ entries[i].type = "usable"
        BY <4>1, <4>3 DEF IsUsableAddress
      <4>5. entries[i] \in Entry
        BY DEF TypeOK
      <4>6. (f + 1) * PageSize = f * PageSize + PageSize
        BY <4>1
      <4> QED
        BY <4>1, <4>4, <4>5, <4>6 DEF Ram, Entry
    <3>5. OnlyRam'
      BY <3>4 DEF OnlyRam, Started, KernelFrames
    <3> QED
      BY <3>3, <3>5 DEF Started, CountsAgree, NoDoubleGrant,
         FailsOnlyExhausted, Silent, Collections
  <2>5. CASE InitializePhysicalMemoryFrames
    <3> USE <2>5 DEF InitializePhysicalMemoryFrames
    <3>0. IsFiniteSet(bitmap) /\ Cardinality(bitmap) \div F \in Nat
      <4>1. IsFiniteSet(0..IntMax)
        BY FS_Interval
      <4>2. IsFiniteSet(bitmap)
        BY <4>1, FS_Subset DEF TypeOK
      <4>3. Cardinality(bitmap) \in Nat
        BY <4>2, FS_CardinalityType
      <4> QED
        BY <4>2, <4>3
    <3>1. DOMAIN available' \subseteq Nat
      BY <3>0
    <3>2. CountsAgree'
      BY DEF CountsAgree, Collections, FramesOf
    <3>3. available' \in [DOMAIN available' -> 0..F]
      <4>1. \A i \in DOMAIN available' :
               Cardinality(FramesOf(i) \cap bitmap) \in 0..F
        BY <3>1, CountType
      <4> QED
        BY <4>1
    <3>4. TypeOK'
      BY <3>1, <3>3 DEF TypeOK
    <3> QED
      BY <3>2, <3>4 DEF Started, NoDoubleGrant, OnlyRam, Ram,
         FailsOnlyExhausted, Silent
  <2>6. CASE AllocateOnePhysicalFrame
    <3> USE <2>6 DEF AllocateOnePhysicalFrame
    <3>0. PICK i \in Collections : \E f \in FramesOf(i) :
            /\ Take(f, i) /\ held' = held \cup {f}
            /\ ret' = [op |-> "frame", val |-> f]
      BY DEF Result
    <3>1. PICK f \in FramesOf(i) :
            /\ Take(f, i) /\ held' = held \cup {f}
            /\ ret' = [op |-> "frame", val |-> f]
      BY <3>0
    <3>2. /\ f \in bitmap /\ bitmap' = bitmap \ {f}
          /\ DOMAIN available' = DOMAIN available
          /\ available' \in [DOMAIN available' -> 0..F]
          /\ CountsAgree'
      BY <3>1, TakeKeeps
    <3>3. f \in 0..IntMax
      BY <3>2 DEF TypeOK
    <3>4. TypeOK'
      BY <3>1, <3>2, <3>3 DEF TypeOK
    <3>5. NoDoubleGrant' /\ OnlyRam'
      BY <3>1, <3>2 DEF NoDoubleGrant, OnlyRam, Ram
    <3> QED
      BY <3>1, <3>2, <3>3, <3>4, <3>5 DEF Started, FailsOnlyExhausted, Silent
  <2>7. CASE AllocateOneFails
    <3> USE <2>7 DEF AllocateOneFails
    <3>1. \A i \in Collections : FramesOf(i) \cap bitmap = {}
      <4> TAKE i \in Collections
      <4>1. i \in Nat /\ available[i] = Cardinality(FramesOf(i) \cap bitmap)
        BY DEF CountsAgree, TypeOK, Collections
      <4>2. Cardinality(FramesOf(i) \cap bitmap) \in 0..F
        BY <4>1, CountType
      <4>3. ~HasFree(i)
        BY DEF Exhausted
      <4>4. CASE Cardinality(FramesOf(i) \cap bitmap) = 0
        BY <4>1, <4>4, CountExtremes
      <4>5. CASE Cardinality(FramesOf(i) \cap bitmap) # 0
        BY <4>1, <4>2, <4>3, <4>5 DEF HasFree
      <4> QED
        BY <4>4, <4>5
    <3>2. TypeOK'
      BY DEF TypeOK, Result
    <3>3. FailsOnlyExhausted'
      BY <3>1 DEF FailsOnlyExhausted, Result, Collections, FramesOf
    <3> QED
      BY <3>2, <3>3 DEF Started, CountsAgree, NoDoubleGrant, OnlyRam, Ram,
         Silent, Collections, FramesOf
  <2>8. CASE AllocatePhysicalFrames
    <3>1. TypeOK'
      BY <2>8 DEF AllocatePhysicalFrames, TypeOK
    <3> QED
      BY <2>8, <3>1 DEF AllocatePhysicalFrames, Started, CountsAgree,
         NoDoubleGrant, OnlyRam, Ram, FailsOnlyExhausted, Silent, Collections,
         FramesOf
  <2>9. CASE TakeNext
    <3> USE <2>9 DEF TakeNext
    <3>1. todo' \in 0..MaxTake /\ phase = "ready"
      BY DEF TypeOK, Started
    <3>2. CASE Exhausted /\ UNCHANGED <<bitmap, available, dropped>>
      <4>1. TypeOK'
        BY <3>1, <3>2 DEF TypeOK
      <4> QED
        BY <3>1, <3>2, <4>1 DEF Started, CountsAgree, NoDoubleGrant, OnlyRam,
           Ram, FailsOnlyExhausted, Silent, Collections, FramesOf
    <3>3. CASE \E i \in Collections : \E f \in FramesOf(i) :
                 Take(f, i) /\ dropped' = dropped \cup {f}
      <4>0. PICK i \in Collections : \E f \in FramesOf(i) :
                 Take(f, i) /\ dropped' = dropped \cup {f}
        BY <3>3
      <4>1. PICK f \in FramesOf(i) :
                 Take(f, i) /\ dropped' = dropped \cup {f}
        BY <4>0
      <4>2. /\ f \in bitmap /\ bitmap' = bitmap \ {f}
            /\ DOMAIN available' = DOMAIN available
            /\ available' \in [DOMAIN available' -> 0..F]
            /\ CountsAgree'
        BY <4>1, TakeKeeps
      <4>3. f \in 0..IntMax
        BY <4>2 DEF TypeOK
      <4>4. TypeOK'
        BY <3>1, <4>1, <4>2, <4>3 DEF TypeOK
      <4>5. NoDoubleGrant' /\ OnlyRam'
        BY <4>1, <4>2 DEF NoDoubleGrant, OnlyRam, Ram
      <4>6. FailsOnlyExhausted'
        <5>1. \A j \in Collections :
                /\ FramesOf(j) \cap bitmap = {} => FramesOf(j) \cap bitmap' = {}
                /\ FramesOf(j) \subseteq bitmap' => FramesOf(j) \subseteq bitmap
          BY <4>2
        <5> QED
          BY <4>2, <5>1 DEF FailsOnlyExhausted, Collections, FramesOf
      <4> QED
        BY <3>1, <4>2, <4>4, <4>5, <4>6 DEF Started, Silent
    <3> QED
      BY <3>2, <3>3
  <2>10. CASE DeallocatePhysicalFrame
    <3> USE <2>10 DEF DeallocatePhysicalFrame
    <3>1. PICK f \in held :
            /\ f \notin bitmap
            /\ bitmap' = bitmap \cup {f}
            /\ available' = [i \in Collections |->
                               IF f \in FramesOf(i) THEN available[i] + 1
                               ELSE available[i]]
            /\ held' = held \ {f}
            /\ UNCHANGED alarm
      BY DEF NoDoubleGrant
    <3>2. /\ DOMAIN available' = DOMAIN available
          /\ available' \in [DOMAIN available' -> 0..F]
          /\ CountsAgree'
      BY <3>1, FreeOneKeeps
    <3>3. f \in 0..IntMax
      BY <3>1 DEF TypeOK
    <3>4. TypeOK'
      BY <3>1, <3>2, <3>3 DEF TypeOK, Result
    <3>5. NoDoubleGrant' /\ OnlyRam'
      BY <3>1 DEF NoDoubleGrant, OnlyRam, Ram
    <3> QED
      BY <3>1, <3>2, <3>4, <3>5 DEF Started, FailsOnlyExhausted, Silent, Result
  <2>11. CASE AllocateOnePhysicalFrameCollection
    <3> USE <2>11 DEF AllocateOnePhysicalFrameCollection
    <3>1. PICK i \in Collections :
            /\ Full(i)
            /\ bitmap' = bitmap \ FramesOf(i)
            /\ available' = [available EXCEPT ![i] =
                               @ - Cardinality(FramesOf(i) \cap bitmap)]
            /\ alarm' = (alarm \/ ~(FramesOf(i) \subseteq bitmap))
            /\ held' = held \cup FramesOf(i)
            /\ ret' = [op |-> "collection", val |-> i]
      BY DEF First, Result
    <3>2. /\ DOMAIN available' = DOMAIN available
          /\ available' \in [DOMAIN available' -> 0..F]
          /\ CountsAgree'
      BY <3>1, WholeKeeps
    <3>3. i \in Nat /\ FramesOf(i) \subseteq bitmap
      <4>1. i \in Nat /\ Cardinality(FramesOf(i) \cap bitmap) = F
        BY <3>1 DEF TypeOK, Collections, CountsAgree, Full
      <4> QED
        BY <4>1, CountExtremes
    <3>4. FramesOf(i) \subseteq 0..IntMax
      BY <3>3 DEF TypeOK
    <3>5. alarm' = FALSE
      BY <3>1, <3>3 DEF Silent
    <3>6. TypeOK'
      <4>1. bitmap' \subseteq 0..IntMax /\ held' \subseteq 0..IntMax
        BY <3>1, <3>4 DEF TypeOK
      <4>2. ret' \in [op : {"none", "frame", "collection", "free"}, val : Int]
        BY <3>1, <3>3
      <4> QED
        BY <3>2, <3>5, <4>1, <4>2 DEF TypeOK
    <3>7. NoDoubleGrant' /\ OnlyRam'
      BY <3>1, <3>3 DEF NoDoubleGrant, OnlyRam, Ram
    <3> QED
      BY <3>1, <3>2, <3>3, <3>5, <3>6, <3>7
         DEF Started, FailsOnlyExhausted, Silent
  <2>12. CASE AllocateCollectionFails
    <3> USE <2>12 DEF AllocateCollectionFails
    <3>1. \A i \in Collections : ~(FramesOf(i) \subseteq bitmap)
      <4> TAKE i \in Collections
      <4>1. /\ i \in Nat /\ Cardinality(FramesOf(i) \cap bitmap) # F
        BY DEF CountsAgree, TypeOK, Collections, Full
      <4> QED
        BY <4>1, CountExtremes
    <3>2. TypeOK'
      BY DEF TypeOK, Result
    <3>3. FailsOnlyExhausted'
      BY <3>1 DEF FailsOnlyExhausted, Result, Collections, FramesOf
    <3> QED
      BY <3>2, <3>3 DEF Started, CountsAgree, NoDoubleGrant, OnlyRam, Ram,
         Silent, Collections, FramesOf
  <2>13. CASE DeallocateOnePhysicalFrameCollection
    <3> USE <2>13 DEF DeallocateOnePhysicalFrameCollection
    <3>1. PICK i \in Collections :
            /\ FramesOf(i) \subseteq held
            /\ bitmap' = bitmap \cup FramesOf(i)
            /\ available' = [available EXCEPT ![i] =
                               @ + Cardinality(FramesOf(i) \ bitmap)]
            /\ alarm' = (alarm \/ FramesOf(i) \cap bitmap # {})
            /\ held' = held \ FramesOf(i)
      OBVIOUS
    <3>2. /\ DOMAIN available' = DOMAIN available
          /\ available' \in [DOMAIN available' -> 0..F]
          /\ CountsAgree'
      BY <3>1, WholeKeeps
    <3>3. FramesOf(i) \cap bitmap = {} /\ FramesOf(i) \subseteq 0..IntMax
      BY <3>1 DEF NoDoubleGrant, TypeOK
    <3>4. alarm' = FALSE
      BY <3>1, <3>3 DEF Silent
    <3>5. TypeOK'
      <4>1. bitmap' \subseteq 0..IntMax /\ held' \subseteq 0..IntMax
        BY <3>1, <3>3 DEF TypeOK
      <4>2. ret' \in [op : {"none", "frame", "collection", "free"}, val : Int]
        BY DEF TypeOK, Result
      <4> QED
        BY <3>2, <3>4, <4>1, <4>2 DEF TypeOK
    <3>6. NoDoubleGrant' /\ OnlyRam'
      BY <3>1, <3>3 DEF NoDoubleGrant, OnlyRam, Ram
    <3> QED
      BY <3>1, <3>2, <3>4, <3>5, <3>6
         DEF Started, FailsOnlyExhausted, Silent, Result
  <2>14. CASE UNCHANGED vars
    BY <2>14 DEF vars, TypeOK, Started, CountsAgree, NoDoubleGrant, OnlyRam,
       Ram, FailsOnlyExhausted, Silent, Collections, FramesOf
  <2> QED
    BY <2>1, <2>2, <2>3, <2>4, <2>5, <2>6, <2>7, <2>8, <2>9, <2>10, <2>11,
       <2>12, <2>13, <2>14 DEF Next
<1> QED
  BY <1>1, <1>2, PTL DEF Spec

(* What the allocator decides by agrees with the bitmap.                   *)
THEOREM CountsCorrect == Spec => []CountsAgree
  BY MemoryCorrect, PTL DEF MemoryInv

(* No frame is handed out twice.                                           *)
THEOREM FramesDisjointly == Spec => []NoDoubleGrant
  BY MemoryCorrect, PTL DEF MemoryInv

(* Only usable memory above the kernel is ever handed out.                 *)
THEOREM RamOnly == Spec => []OnlyRam
  BY MemoryCorrect, PTL DEF MemoryInv

(* An allocation fails only when the listed collections cannot serve it,   *)
(* and the two "cannot happen" messages stay silent.                       *)
THEOREM FailsRightly == Spec => [](FailsOnlyExhausted /\ Silent)
  BY MemoryCorrect, PTL DEF MemoryInv
=============================================================================
