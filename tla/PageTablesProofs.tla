-------------------------- MODULE PageTablesProofs --------------------------
(***************************************************************************)
(* Proofs about the page tables, for any number of cores, any sizes of     *)
(* pages and tables, and any memory that fits into the address space.      *)
(***************************************************************************)
EXTENDS PageTables, WellFoundedInduction, TLAPS

-----------------------------------------------------------------------------
(* Arithmetic.                                                             *)

(* What \div and % return.                                                 *)
LEMMA Division ==
  ASSUME NEW n \in Nat, NEW d \in Nat \ {0}
  PROVE  /\ n \div d \in Nat /\ n % d \in 0 .. d - 1
         /\ n = d * (n \div d) + (n % d)
  OBVIOUS

(* A quotient is determined by the interval the number lies in.            *)
LEMMA Quotient ==
  ASSUME NEW n \in Nat, NEW d \in Nat \ {0}, NEW q \in Nat, NEW r \in 0 .. d - 1,
         n = d * q + r
  PROVE  n \div d = q
<1> DEFINE u == n \div d
           s == n % d
<1>1. u \in Nat /\ s \in 0 .. d - 1 /\ n = d * u + s
  BY Division
<1> HIDE DEF u, s
<1>2. ~(u + 1 <= q)
  <2> SUFFICES ASSUME u + 1 <= q PROVE FALSE
    OBVIOUS
  <2>1. d * (u + 1) <= d * q
    BY <1>1
  <2>2. d * (u + 1) = d * u + d
    BY <1>1
  <2> QED
    BY <1>1, <2>1, <2>2
<1>3. ~(q + 1 <= u)
  <2> SUFFICES ASSUME q + 1 <= u PROVE FALSE
    OBVIOUS
  <2>1. d * (q + 1) <= d * u
    BY <1>1
  <2>2. d * (q + 1) = d * q + d
    OBVIOUS
  <2> QED
    BY <1>1, <2>1, <2>2
<1>4. u = q
  BY <1>1, <1>2, <1>3
<1> QED
  BY <1>4 DEF u

(* Whole pages in front of an address are divided off.                     *)
LEMMA WholePages ==
  ASSUME NEW q \in Nat, NEW y \in Nat
  PROVE  (q * PageBytes + y) \div PageBytes = q + y \div PageBytes
<1> DEFINE u == y \div PageBytes
           r == y % PageBytes
<1>0. PageBytes \in Nat \ {0}
  BY UnitAssumption
<1>1. u \in Nat /\ r \in 0 .. PageBytes - 1 /\ y = PageBytes * u + r
  BY <1>0, Division
<1> HIDE DEF u, r
<1>2. q * PageBytes + y = PageBytes * (q + u) + r /\ q * PageBytes + y \in Nat
  BY <1>0, <1>1
<1>3. (q * PageBytes + y) \div PageBytes = q + u
  BY <1>0, <1>1, <1>2, Quotient
<1> QED
  BY <1>3 DEF u

(* A page that an area touches is at most as far from its start as the     *)
(* whole pages of the area.                                                *)
LEMMA PageOfArea ==
  ASSUME NEW size \in Nat, NEW p \in Nat, p * PageBytes < size
  PROVE  p <= size \div PageBytes /\ p \in 0 .. size
<1> DEFINE u == size \div PageBytes
           r == size % PageBytes
<1>0. PageBytes \in Nat \ {0}
  BY UnitAssumption
<1>1. u \in Nat /\ r \in 0 .. PageBytes - 1 /\ size = PageBytes * u + r
  BY <1>0, Division
<1> HIDE DEF u, r
<1>2. ~(u + 1 <= p)
  <2> SUFFICES ASSUME u + 1 <= p PROVE FALSE
    OBVIOUS
  <2>1. PageBytes * (u + 1) <= p * PageBytes
    BY <1>0, <1>1
  <2>2. PageBytes * (u + 1) = PageBytes * u + PageBytes
    BY <1>0, <1>1
  <2> QED
    BY <1>0, <1>1, <2>1, <2>2
<1>3. p <= p * PageBytes
  BY <1>0
<1> QED
  BY <1>0, <1>1, <1>2, <1>3 DEF u

(* A virtual page is found by its slot and its index, and no other page is *)
(* found there.                                                            *)
LEMMA SlotAndIndex ==
  ASSUME NEW v \in 0 .. Top
  PROVE  /\ Slot(v) \in Slots /\ Index(v) \in 0 .. TableSize - 1
         /\ \A w \in 0 .. Top : Slot(w) = Slot(v) /\ Index(w) = Index(v) => w = v
<1>0. TableSize \in Nat \ {0} /\ Top \in Nat
  BY UnitAssumption
<1>1. \A w \in 0 .. Top : /\ Slot(w) \in Nat /\ Index(w) \in 0 .. TableSize - 1
                          /\ w = TableSize * Slot(w) + Index(w)
  <2> SUFFICES ASSUME NEW w \in Nat
               PROVE  /\ Slot(w) \in Nat /\ Index(w) \in 0 .. TableSize - 1
                      /\ w = TableSize * Slot(w) + Index(w)
    BY <1>0
  <2> QED
    BY <1>0, Division, Zenon DEF Slot, Index
<1> HIDE DEF Slot, Index
<1>2. Slot(v) <= Slot(Top)
  <2> SUFFICES ASSUME Slot(Top) + 1 <= Slot(v) PROVE FALSE
    BY <1>0, <1>1
  <2> DEFINE a == Slot(Top)
             b == Slot(v)
  <2>1. /\ a \in Nat /\ b \in Nat /\ a + 1 <= b
        /\ TableSize * a + Index(Top) = Top /\ TableSize * b + Index(v) = v
        /\ Index(Top) \in 0 .. TableSize - 1 /\ Index(v) \in 0 .. TableSize - 1
    BY <1>0, <1>1
  <2> HIDE DEF a, b
  <2>2. TableSize * (a + 1) <= TableSize * b
    BY <1>0, <2>1
  <2>3. TableSize * (a + 1) = TableSize * a + TableSize
    BY <1>0, <2>1
  <2> QED
    BY <1>0, <2>1, <2>2, <2>3
<1> QED
  BY <1>0, <1>1, <1>2 DEF Slots
-----------------------------------------------------------------------------
(* Physical memory entries.                                                *)

(* Writing vstart leaves the rest of the entry, and the others.            *)
LEMMA EntryPlaced ==
  ASSUME entries \in Seq(Area), NEW n \in DOMAIN entries,
         NEW x \in Nat \cup {None}, entries' = [entries EXCEPT ![n].vstart = x]
  PROVE  /\ entries' \in Seq(Area) /\ Len(entries') = Len(entries)
         /\ DOMAIN entries' = DOMAIN entries
         /\ \A k \in DOMAIN entries :
              /\ entries'[k].start = entries[k].start
              /\ entries'[k].size = entries[k].size
              /\ entries'[k].type = entries[k].type
              /\ entries'[k].vstart = IF k = n THEN x ELSE entries[k].vstart
              /\ [entries'[k] EXCEPT !.vstart = None]
                   = [entries[k] EXCEPT !.vstart = None]
<1>1. entries \in [1 .. Len(entries) -> Area] /\ n \in 1 .. Len(entries)
  OBVIOUS
<1>a. entries[n] \in Area
  BY <1>1
<1>2. [entries[n] EXCEPT !.vstart = x] \in Area
  BY <1>a DEF Area
<1>3. entries' \in [1 .. Len(entries) -> Area]
  BY <1>1, <1>2
<1>4. entries' \in Seq(Area) /\ Len(entries') = Len(entries)
  BY <1>3
<1>5. \A k \in DOMAIN entries : entries[k] \in Area
  BY <1>1
<1>6. \A k \in DOMAIN entries :
        entries'[k] = IF k = n THEN [entries[k] EXCEPT !.vstart = x] ELSE entries[k]
  BY <1>1
<1>7. ASSUME NEW k \in DOMAIN entries
      PROVE  /\ entries'[k].start = entries[k].start
             /\ entries'[k].size = entries[k].size
             /\ entries'[k].type = entries[k].type
             /\ entries'[k].vstart = IF k = n THEN x ELSE entries[k].vstart
             /\ [entries'[k] EXCEPT !.vstart = None]
                  = [entries[k] EXCEPT !.vstart = None]
  BY <1>5, <1>6 DEF Area
<1> QED
  BY <1>1, <1>3, <1>4, <1>7

(* A new entry is the last one and has no virtual address.                 *)
LEMMA EntryAdded ==
  ASSUME entries \in Seq(Area), NEW a \in Acpi \cup Devices,
         entries' = Append(entries, NewEntry(a))
  PROVE  /\ entries' \in Seq(Area) /\ Len(entries') = Len(entries) + 1
         /\ \A k \in DOMAIN entries : entries'[k] = entries[k]
         /\ entries'[Len(entries) + 1] = NewEntry(a)
         /\ NewEntry(a) \in Area /\ NewEntry(a).vstart = None
         /\ [NewEntry(a) EXCEPT !.vstart = None] = NewEntry(a)
<1>1. NewEntry(a) \in Area /\ NewEntry(a).vstart = None
      /\ [NewEntry(a) EXCEPT !.vstart = None] = NewEntry(a)
  BY MapAssumption DEF NewEntry, Area
<1> HIDE DEF NewEntry
<1> QED
  BY <1>1

(* What an area takes, and what it can lie in.                             *)
LEMMA AreaFits ==
  ASSUME EntriesOK, KnownInv, NEW k \in DOMAIN entries, Reserved(k)
  PROVE  /\ entries[k].size \div PageBytes \in Nat
         /\ entries[k].size \div PageBytes < AreaPages
         /\ \A l \in DOMAIN entries :
              Overlap(entries[k], entries[l]) => Reserved(l)
<1>0. \A l \in DOMAIN entries : entries[l] \in Area
  BY DEF EntriesOK
<1>1. PICK map \in Maps : \A l \in DOMAIN entries :
        [entries[l] EXCEPT !.vstart = None] \in Known(map)
  BY DEF KnownInv
<1> DEFINE e(l) == [entries[l] EXCEPT !.vstart = None]
<1>2. \A l \in DOMAIN entries : /\ e(l).start = entries[l].start
                                /\ e(l).size = entries[l].size
                                /\ e(l).type = entries[l].type
  BY <1>0 DEF Area
<1> HIDE DEF e
<1>3. \A l \in DOMAIN entries : e(l) \in Known(map)
  BY <1>1 DEF e
<1>4. isReservedMemory(e(k))
  BY <1>2 DEF Reserved, isReservedMemory
<1>5. e(k).size \div PageBytes < AreaPages
  BY <1>3, <1>4, SpaceAssumption
<1>6. ASSUME NEW l \in DOMAIN entries, Overlap(entries[k], entries[l])
      PROVE  Reserved(l)
  <2>1. Overlap(e(k), e(l))
    BY <1>2, <1>6 DEF Overlap
  <2>2. isReservedMemory(e(l))
    BY <1>3, <1>4, <2>1, SpaceAssumption
  <2> QED
    BY <1>2, <2>2 DEF Reserved, isReservedMemory
<1>7. entries[k].size \in Nat
  BY <1>0 DEF Area
<1>8. entries[k].size \div PageBytes \in Nat
  BY <1>7, Division, UnitAssumption
<1> QED
  BY <1>2, <1>5, <1>6, <1>8

(* What is left before an entry depends on the entries before it.          *)
LEMMA LeftFrame ==
  ASSUME NEW k \in Nat, NEW x,
         \A j \in 1 .. k - 1 : /\ Reserved(j)' <=> Reserved(j)
                               /\ entries'[j].vstart = entries[j].vstart
  PROVE  LeftBefore(k, x)' <=> LeftBefore(k, x)
  BY DEF LeftBefore

(* It is one page, and lies below all of them.                             *)
LEMMA LeftOne ==
  ASSUME NEW k \in Nat, NEW x, NEW y, LeftBefore(k, x), LeftBefore(k, y)
  PROVE  x = y
<1>1. ASSUME NEW j \in 1 .. k - 1, NEW l \in 1 .. k - 1, Reserved(j), Reserved(l),
             \A m \in j + 1 .. k - 1 : ~Reserved(m),
             \A m \in l + 1 .. k - 1 : ~Reserved(m)
      PROVE  j = l
  BY <1>1
<1> QED
  BY <1>1 DEF LeftBefore

\* What is left of the reserved addresses is below every area placed so far.
LEMMA LeftBelow ==
  ASSUME EntriesOK, KnownInv, PlaceInv, NEW k \in Nat, k <= Len(entries) + 1,
         NEW x, LeftBefore(k, x),
         \A j \in 1 .. k - 1 : Reserved(j) => entries[j].vstart # None
  PROVE  /\ x \in Int /\ x <= Top
         /\ \A j \in 1 .. k - 1 : Reserved(j) => x < entries[j].vstart
<1>0. /\ \A j \in DOMAIN entries : entries[j].vstart \in Nat \cup {None}
      /\ \A j \in 1 .. k - 1 : j \in DOMAIN entries /\ j \in Nat
      /\ Top \in Nat /\ DOMAIN entries = 1 .. Len(entries) /\ Len(entries) \in Nat
  <2>1. /\ DOMAIN entries = 1 .. Len(entries) /\ Len(entries) \in Nat
        /\ \A j \in DOMAIN entries : entries[j] \in Area
    BY DEF EntriesOK
  <2>2. \A j \in 1 .. k - 1 : j \in DOMAIN entries /\ j \in Nat
    BY <2>1
  <2> QED
    BY <2>1, <2>2, UnitAssumption DEF Area
<1>a. \A j \in 1 .. k - 1 : Reserved(j) => entries[j].size \div PageBytes \in Nat
  BY <1>0, AreaFits
<1>1. CASE x = Top /\ \A j \in 1 .. k - 1 : ~Reserved(j)
  BY <1>0, <1>1
<1>2. ASSUME NEW j \in 1 .. k - 1, Reserved(j), x = entries[j].vstart - 1,
             \A l \in j + 1 .. k - 1 : ~Reserved(l)
      PROVE  /\ x \in Int /\ x <= Top
             /\ \A l \in 1 .. k - 1 : Reserved(l) => x < entries[l].vstart
  <2>1. /\ entries[j].vstart \in Nat /\ LastPage(j) <= Top
        /\ \A l \in 1 .. j - 1 : Reserved(l) => LastPage(j) < entries[l].vstart
    BY <1>0, <1>2 DEF PlaceInv
  <2>2. entries[j].vstart <= LastPage(j) /\ LastPage(j) \in Nat
    BY <1>2, <1>a, <2>1 DEF LastPage
  <2>3. ASSUME NEW l \in 1 .. k - 1, Reserved(l) PROVE x < entries[l].vstart
    <3>1. CASE l = j
      BY <1>2, <2>1, <3>1
    <3>2. CASE l < j
      <4>1. LastPage(j) < entries[l].vstart /\ entries[l].vstart \in Nat
        BY <1>0, <2>1, <2>3, <3>2
      <4> QED
        BY <1>2, <2>1, <2>2, <4>1
    <3>3. CASE l > j
      BY <1>2, <2>3, <3>3
    <3> QED
      BY <3>1, <3>2, <3>3
  <2> QED
    BY <1>0, <1>2, <2>1, <2>2, <2>3
<1> QED
  BY <1>1, <1>2 DEF LeftBefore

(* A reserved entry that has a virtual address is given the same again.    *)
LEMMA PlacedAlike ==
  ASSUME EntriesOK, KnownInv, PlaceInv, job = "place", i \in DOMAIN entries,
         Reserved(i), entries[i].vstart # None
  PROVE  last - entries[i].size \div PageBytes = entries[i].vstart
<1>1. LeftBefore(i, LastPage(i)) /\ LeftBefore(i, last)
  BY DEF PlaceInv
<1>2. i \in Nat /\ last \in Int /\ entries[i] \in Area
  BY DEF EntriesOK
<1>3. LastPage(i) = last
  BY <1>1, <1>2, LeftOne
<1>4. entries[i].size \div PageBytes \in Nat /\ entries[i].vstart \in Nat
  BY <1>2, AreaFits DEF Area
<1> QED
  BY <1>2, <1>3, <1>4 DEF LastPage

(* A range that is placed lies above the kernel.                           *)
LEMMA PlacedInside ==
  ASSUME EntriesOK, KnownInv, PlaceInv, job = "place", i \in DOMAIN entries,
         Reserved(i)
  PROVE  /\ last - entries[i].size \div PageBytes \in Nat
         /\ last - entries[i].size \div PageBytes + i * AreaPages > Top
         /\ last - entries[i].size \div PageBytes >= KernelPages
<1> DEFINE q == entries[i].size \div PageBytes
<1>0. /\ last \in Int /\ i \in Nat /\ i >= 1 /\ i <= MaxEntries /\ MaxEntries \in Nat
      /\ AreaPages \in Nat /\ Top \in Nat /\ KernelPages \in Nat
  BY UnitAssumption DEF EntriesOK
<1>1. q \in Nat /\ q < AreaPages
  BY AreaFits
<1> HIDE DEF q
<1>2. last + (i - 1) * AreaPages >= Top
  BY DEF PlaceInv
<1>3. i * AreaPages = (i - 1) * AreaPages + AreaPages /\ (i - 1) * AreaPages \in Nat
  BY <1>0
<1>4. i * AreaPages <= MaxEntries * AreaPages
      /\ i * AreaPages \in Nat /\ MaxEntries * AreaPages \in Nat
  BY <1>0
<1>5. KernelPages + MaxEntries * AreaPages <= Top + 1
  BY SpaceAssumption
<1>6. last - q + i * AreaPages > Top
  BY <1>0, <1>1, <1>2, <1>3
<1> QED
  BY <1>0, <1>1, <1>4, <1>5, <1>6 DEF q
-----------------------------------------------------------------------------
(* Every pass of MapReservedMemory, whichever core it is for and whatever  *)
(* entries were added since the last one, computes the same virtual        *)
(* addresses for the entries there were: they depend on the entries before *)
(* alone, and new ones are added behind.                                   *)
THEOREM Placement == Spec => [](EntriesOK /\ KnownInv /\ PlaceInv)
<1>0. /\ 0 \in Cores /\ Cores \subseteq Nat /\ Top \in Nat /\ AreaPages \in Nat
      /\ MaxEntries \in Nat /\ PageBytes \in Nat \ {0} /\ KernelPages \in Nat
      /\ None \notin Nat
  BY UnitAssumption DEF Cores
<1>1. Init => EntriesOK /\ KnownInv /\ PlaceInv
  <2> SUFFICES ASSUME Init PROVE EntriesOK /\ KnownInv /\ PlaceInv
    OBVIOUS
  <2>1. /\ entries \in Maps /\ entries \in Seq(Area) /\ entries # <<>>
        /\ Len(entries) <= MaxEntries
        /\ \A k \in DOMAIN entries : entries[k].vstart = None
    BY MapAssumption DEF Init
  <2>2. Len(entries) \in 1 .. MaxEntries
    BY <1>0, <2>1
  <2>3. EntriesOK
    BY <1>0, <2>1, <2>2 DEF Init, EntriesOK
  <2>4. KnownInv
    <3>1. \A k \in DOMAIN entries :
            [entries[k] EXCEPT !.vstart = None] = entries[k]
      <4> SUFFICES ASSUME NEW k \in DOMAIN entries
                   PROVE  [entries[k] EXCEPT !.vstart = None] = entries[k]
        OBVIOUS
      <4>1. entries[k] \in Area /\ entries[k].vstart = None
        BY <2>1
      <4> QED
        BY <4>1 DEF Area
    <3> QED
      BY <2>1, <3>1 DEF KnownInv, Known
  <2>5. PlaceInv
    BY <2>1 DEF Init, PlaceInv
  <2> QED
    BY <2>3, <2>4, <2>5
<1>2. EntriesOK /\ KnownInv /\ PlaceInv /\ [Next]_vars
        => (EntriesOK /\ KnownInv /\ PlaceInv)'
  <2> SUFFICES ASSUME EntriesOK, KnownInv, PlaceInv, [Next]_vars
               PROVE  EntriesOK' /\ KnownInv' /\ PlaceInv'
    OBVIOUS
  <2>0. /\ entries \in Seq(Area) /\ Len(entries) \in 1 .. MaxEntries
        /\ DOMAIN entries = 1 .. Len(entries) /\ Len(entries) \in Nat
        /\ i \in Nat /\ i \in 1 .. Len(entries) + 1 /\ last \in Int
        /\ core \in Cores
    BY <1>0 DEF EntriesOK
  <2>b. \A k \in DOMAIN entries : /\ entries[k].vstart \in Nat \cup {None}
                                  /\ entries[k].start \in Nat
                                  /\ entries[k].size \in Nat
    <3>1. \A k \in DOMAIN entries : entries[k] \in Area
      BY <2>0
    <3> QED
      BY <3>1 DEF Area
  <2>1. ASSUME entries' = entries, EntriesOK',
               \/ job' = "place" /\ i' = 1 /\ last' = Top
               \/ job' \in {"kernel", "idle", "fault"} /\ i' = i
               \/ UNCHANGED <<job, i, last>>
               \/ job = "map" /\ job' = "place" /\ i' = i + 1 /\ last' = last
        PROVE  EntriesOK' /\ KnownInv' /\ PlaceInv'
    <3>1. KnownInv'
      BY <2>1 DEF KnownInv
    <3>3. \A k \in DOMAIN entries :
            /\ ~Reserved(k) => entries[k].vstart \in {None, entries[k].start}
            /\ Reserved(k) /\ entries[k].vstart # None =>
                 /\ LeftBefore(k, LastPage(k)) /\ LastPage(k) <= Top
                 /\ entries[k].vstart + k * AreaPages > Top
                 /\ \A j \in 1 .. k - 1 : Reserved(j) =>
                      entries[j].vstart # None /\ LastPage(k) < entries[j].vstart
      BY DEF PlaceInv
    <3>4. \A k \in DOMAIN entries :
            Reserved(k) /\ (k < i' \/ (k = i' /\ job' = "map"))
              => entries[k].vstart # None
      BY <2>0, <2>1 DEF PlaceInv
    <3>5. job' = "map" => i' \in DOMAIN entries /\ Reserved(i') /\ last' = entries[i'].vstart - 1
      BY <2>1 DEF PlaceInv
    <3>6. job' = "place" => LeftBefore(i', last') /\ last' + (i' - 1) * AreaPages >= Top
      <4>1. CASE i' = 1 /\ last' = Top
        BY <1>0, <4>1 DEF LeftBefore
      <4>2. CASE UNCHANGED <<job, i, last>>
        BY <4>2 DEF PlaceInv
      <4>3. CASE job = "map" /\ i' = i + 1 /\ last' = last
        <5>1. /\ i \in DOMAIN entries /\ Reserved(i) /\ last = entries[i].vstart - 1
              /\ entries[i].vstart # None
          BY <2>0, <4>3 DEF PlaceInv
        <5>2. LeftBefore(i', last')
          BY <2>0, <4>3, <5>1 DEF LeftBefore
        <5>3. entries[i].vstart + i * AreaPages > Top /\ entries[i].vstart \in Nat
          BY <2>b, <3>3, <5>1
        <5>4. i * AreaPages \in Nat /\ (i' - 1) * AreaPages = i * AreaPages
          BY <1>0, <2>0, <4>3
        <5> QED
          BY <1>0, <4>3, <5>1, <5>2, <5>3, <5>4
      <4> QED
        BY <2>1, <4>1, <4>2, <4>3
    <3>7. PlaceInv'
      BY <2>1, <3>3, <3>4, <3>5, <3>6 DEF PlaceInv, LeftBefore, LastPage, Reserved
    <3> QED
      BY <2>1, <3>1, <3>7
  <2>2. CASE MapKernelPage
    BY <2>1, <2>2 DEF MapKernelPage, EntriesOK
  <2>3. CASE MapKernelEnds
    BY <1>0, <2>0, <2>1, <2>3 DEF MapKernelEnds, BeginPass, EntriesOK
  <2>4. CASE MapReservedPage
    BY <2>1, <2>4 DEF MapReservedPage, EntriesOK
  <2>5. CASE MapReservedEnds
    <3>1. i + 1 \in 1 .. Len(entries) + 1
      BY <2>0, <2>5 DEF MapReservedEnds, PlaceInv
    <3> QED
      BY <2>1, <2>5, <3>1 DEF MapReservedEnds, EntriesOK
  <2>6. CASE InitEnds
    <3>1. covered' \in [Cores -> 0 .. Len(entries)]
      BY <2>0, <2>6 DEF InitEnds, PassEnds, EntriesOK
    <3> QED
      BY <2>1, <2>6, <3>1 DEF InitEnds, PassEnds, EntriesOK
  <2>7. CASE BeginBuild
    BY <1>0, <2>0, <2>1, <2>7 DEF BeginBuild, BeginPass, EntriesOK
  <2>8. CASE BuildNext
    <3>1. covered' \in [Cores -> 0 .. Len(entries)]
      BY <2>0, <2>8 DEF BuildNext, PassEnds, EntriesOK
    <3> QED
      BY <2>1, <2>8, <3>1 DEF BuildNext, PassEnds, EntriesOK
  <2>9. CASE PassesEnd
    <3>1. covered' \in [Cores -> 0 .. Len(entries)]
      BY <2>0, <2>9 DEF PassesEnd, PassEnds, EntriesOK
    <3> QED
      BY <2>1, <2>9, <3>1 DEF PassesEnd, PassEnds, EntriesOK
  <2>10. CASE RefreshNext
    <3>1. covered' \in [Cores -> 0 .. Len(entries)]
      BY <2>0, <2>10 DEF RefreshNext, PassEnds, EntriesOK
    <3> QED
      BY <1>0, <2>0, <2>1, <2>10, <3>1 DEF RefreshNext, BeginPass, PassEnds, EntriesOK
  <2>11. CASE UNCHANGED vars
    BY <2>1, <2>11 DEF vars, bootvars, EntriesOK
  <2>12. ASSUME NEW n \in DOMAIN entries, NEW x \in Nat,
                entries' = [entries EXCEPT ![n].vstart = x]
         PROVE  /\ KnownInv' /\ entries' \in Seq(Area)
                /\ Len(entries') = Len(entries)
                /\ \A k \in DOMAIN entries :
                       /\ Reserved(k)' <=> Reserved(k)
                       /\ entries'[k].vstart = IF k = n THEN x ELSE entries[k].vstart
                       /\ entries'[k].start = entries[k].start
                       /\ entries'[k].size = entries[k].size
    <3>1. /\ entries' \in Seq(Area) /\ Len(entries') = Len(entries)
          /\ DOMAIN entries' = DOMAIN entries
          /\ \A k \in DOMAIN entries :
              /\ entries'[k].start = entries[k].start
              /\ entries'[k].size = entries[k].size
              /\ entries'[k].type = entries[k].type
              /\ entries'[k].vstart = IF k = n THEN x ELSE entries[k].vstart
              /\ [entries'[k] EXCEPT !.vstart = None]
                   = [entries[k] EXCEPT !.vstart = None]
      <4>1. x \in Nat \cup {None} /\ entries \in Seq(Area)
        BY <2>0
      <4> QED
        BY <2>12, <4>1, EntryPlaced, Zenon
    <3>2. KnownInv'
      BY <3>1 DEF KnownInv
    <3>3. \A k \in DOMAIN entries : Reserved(k)' <=> Reserved(k)
      BY <3>1 DEF Reserved, isReservedMemory
    <3>4. \A k \in DOMAIN entries :
              /\ entries'[k].vstart = IF k = n THEN x ELSE entries[k].vstart
              /\ entries'[k].start = entries[k].start
              /\ entries'[k].size = entries[k].size
      BY <3>1
    <3> QED
      BY <3>1, <3>2, <3>3, <3>4, Zenon
  <2>13. CASE Place
    <3> DEFINE q == entries[i].size \div PageBytes
               s == last - q
    <3>1. /\ job = "place" /\ job' = "map" /\ i \in DOMAIN entries /\ Reserved(i)
          /\ i' = i /\ last' = s - 1 /\ entries' = [entries EXCEPT ![i].vstart = s]
          /\ page' = 0 /\ UNCHANGED <<stage, core, covered>>
      BY <2>0, <2>13 DEF Place, Reserved
    <3>2. q \in Nat /\ q < AreaPages
      BY <3>1, AreaFits
    <3> HIDE DEF q
    <3>3. /\ LeftBefore(i, last) /\ last + (i - 1) * AreaPages >= Top
          /\ \A j \in 1 .. i - 1 : Reserved(j) => entries[j].vstart # None
      BY <2>0, <3>1 DEF PlaceInv
    <3>4. /\ last \in Int /\ last <= Top
          /\ \A j \in 1 .. i - 1 : Reserved(j) => last < entries[j].vstart
      BY <2>0, <3>3, LeftBelow
    <3>5. s \in Nat /\ s + i * AreaPages > Top
      BY <3>1, PlacedInside DEF q
    <3>7. entries[i].vstart # None => s = entries[i].vstart
      BY <3>1, PlacedAlike DEF q
    <3> HIDE DEF s
    <3>8. /\ KnownInv' /\ entries' \in Seq(Area) /\ Len(entries') = Len(entries)
          /\ \A k \in DOMAIN entries :
                 /\ Reserved(k)' <=> Reserved(k)
                 /\ entries'[k].vstart = IF k = i THEN s ELSE entries[k].vstart
                 /\ entries'[k].start = entries[k].start
                 /\ entries'[k].size = entries[k].size
      BY <2>12, <3>1, <3>5
    <3>9. EntriesOK'
      <4>1. last' \in Int /\ page' \in Nat /\ i' \in 1 .. Len(entries') + 1
        BY <2>0, <3>1, <3>5, <3>8
      <4>2. Len(entries') \in 1 .. MaxEntries /\ core' \in Cores
            /\ covered' \in [Cores -> 0 .. Len(entries')]
        BY <2>0, <3>1, <3>8 DEF EntriesOK
      <4> QED
        BY <3>1, <3>8, <4>1, <4>2 DEF EntriesOK
    <3>10. DOMAIN entries' = DOMAIN entries
      BY <2>0, <3>8
    <3>11. ASSUME NEW k \in DOMAIN entries, Reserved(k), entries'[k].vstart # None
           PROVE  /\ LeftBefore(k, LastPage(k))' /\ LastPage(k)' <= Top
                  /\ entries'[k].vstart + k * AreaPages > Top
                  /\ \A j \in 1 .. k - 1 : Reserved(j)' =>
                       entries'[j].vstart # None /\ LastPage(k)' < entries'[j].vstart
      <4>0. k \in Nat /\ \A j \in 1 .. k - 1 : j \in DOMAIN entries
        BY <2>0
      <4>1. CASE k = i
        <5>1. PICK z \in Int : z = last
          BY <2>0
        <5>2. LastPage(k)' = z
          <6>1. LastPage(k)' = s + q
            BY <3>8, <4>1 DEF LastPage, q
          <6> QED
            BY <3>2, <5>1, <6>1 DEF s
        <5>3. \A j \in 1 .. k - 1 : /\ Reserved(j)' <=> Reserved(j)
                                    /\ entries'[j].vstart = entries[j].vstart
          BY <2>0, <3>8, <4>0, <4>1
        <5>4. LeftBefore(k, z)'
          BY <3>3, <4>0, <4>1, <5>1, <5>3, LeftFrame
        <5>5. LeftBefore(k, LastPage(k))'
          BY <5>2, <5>4 DEF LeftBefore
        <5> QED
          BY <3>3, <3>4, <3>5, <3>8, <4>1, <5>1, <5>2, <5>3, <5>5
      <4>2. CASE k # i
        <5>1. entries'[k].vstart = entries[k].vstart /\ entries[k].vstart # None
          BY <3>8, <3>11, <4>2
        <5>2. /\ LeftBefore(k, LastPage(k)) /\ LastPage(k) <= Top
              /\ entries[k].vstart + k * AreaPages > Top
              /\ \A j \in 1 .. k - 1 : Reserved(j) =>
                   entries[j].vstart # None /\ LastPage(k) < entries[j].vstart
          BY <3>11, <5>1 DEF PlaceInv
        <5>3. \A j \in 1 .. k - 1 : /\ Reserved(j)' <=> Reserved(j)
                                    /\ entries'[j].vstart = entries[j].vstart
          BY <3>1, <3>7, <3>8, <4>0, <5>2
        <5>4. PICK z : z = LastPage(k)
          OBVIOUS
        <5>5. LastPage(k)' = z
          BY <3>8, <5>1, <5>4 DEF LastPage
        <5>6. LeftBefore(k, z)'
          BY <4>0, <5>2, <5>3, <5>4, LeftFrame
        <5>7. LeftBefore(k, LastPage(k))'
          BY <5>5, <5>6 DEF LeftBefore
        <5> QED
          BY <4>0, <5>1, <5>2, <5>3, <5>4, <5>5, <5>7
      <4> QED
        BY <4>1, <4>2
    <3>12. /\ \A k \in DOMAIN entries : ~Reserved(k) =>
                entries'[k].vstart \in {None, entries'[k].start}
           /\ \A k \in DOMAIN entries : Reserved(k) /\ (k < i \/ k = i) =>
                entries'[k].vstart # None
      <4>1. s # None
        BY <1>0, <3>5
      <4> QED
        BY <2>0, <3>1, <3>3, <3>8, <4>1 DEF PlaceInv
    <3>13. i' \in DOMAIN entries /\ Reserved(i)' /\ last' = entries'[i'].vstart - 1
      BY <3>1, <3>8 DEF Reserved
    <3>14. PlaceInv'
      BY <2>0, <3>1, <3>8, <3>10, <3>11, <3>12, <3>13 DEF PlaceInv
    <3> QED
      BY <3>8, <3>9, <3>14
  <2>14. ASSUME \A k \in DOMAIN entries :
                  /\ Reserved(k)' <=> Reserved(k)
                  /\ Reserved(k) => entries'[k].vstart = entries[k].vstart
                  /\ entries'[k].size = entries[k].size,
                NEW k \in DOMAIN entries, Reserved(k), entries'[k].vstart # None
         PROVE  /\ LeftBefore(k, LastPage(k))' /\ LastPage(k)' <= Top
                /\ entries'[k].vstart + k * AreaPages > Top
                /\ \A j \in 1 .. k - 1 : Reserved(j)' =>
                     entries'[j].vstart # None /\ LastPage(k)' < entries'[j].vstart
    <3>0. k \in Nat /\ \A j \in 1 .. k - 1 : j \in DOMAIN entries
      BY <2>0
    <3>1. entries'[k].vstart = entries[k].vstart /\ entries[k].vstart # None
      BY <2>14
    <3>2. /\ LeftBefore(k, LastPage(k)) /\ LastPage(k) <= Top
          /\ entries[k].vstart + k * AreaPages > Top
          /\ \A j \in 1 .. k - 1 : Reserved(j) =>
               entries[j].vstart # None /\ LastPage(k) < entries[j].vstart
      BY <2>14, <3>1 DEF PlaceInv
    <3>3. \A j \in 1 .. k - 1 :
            /\ Reserved(j)' <=> Reserved(j)
            /\ Reserved(j) => entries'[j].vstart = entries[j].vstart
      BY <2>14, <3>0
    <3>4. LastPage(k)' = LastPage(k)
      BY <2>14, <3>1 DEF LastPage
    <3>5. LeftBefore(k, LastPage(k))'
      BY <3>2, <3>3, <3>4 DEF LeftBefore
    <3> QED
      BY <3>1, <3>2, <3>3, <3>4, <3>5
  <2>15. CASE PlaceIdentity
    <3>1. /\ job = "place" /\ job' = "place" /\ i \in DOMAIN entries /\ ~Reserved(i)
          /\ i' = i + 1 /\ last' = last /\ UNCHANGED <<stage, core, page, covered>>
          /\ \/ entries' = entries
             \/ entries' = [entries EXCEPT ![i].vstart = entries[i].start]
      BY <2>0, <2>15 DEF PlaceIdentity, Reserved
    <3>2. /\ KnownInv' /\ entries' \in Seq(Area) /\ Len(entries') = Len(entries)
          /\ \A k \in DOMAIN entries :
               /\ Reserved(k)' <=> Reserved(k)
               /\ Reserved(k) => entries'[k].vstart = entries[k].vstart
               /\ ~Reserved(k) => entries'[k].vstart \in {None, entries'[k].start}
               /\ entries'[k].size = entries[k].size
      <4>1. CASE entries' = entries
        BY <2>0, <4>1 DEF KnownInv, Reserved, PlaceInv
      <4>2. CASE entries' = [entries EXCEPT ![i].vstart = entries[i].start]
        <5>1. entries[i].start \in Nat
          BY <2>b, <3>1
        <5>2. /\ KnownInv' /\ entries' \in Seq(Area) /\ Len(entries') = Len(entries)
              /\ \A k \in DOMAIN entries :
                   /\ Reserved(k)' <=> Reserved(k)
                   /\ entries'[k].vstart = IF k = i THEN entries[i].start
                                           ELSE entries[k].vstart
                   /\ entries'[k].start = entries[k].start
                   /\ entries'[k].size = entries[k].size
          BY <2>12, <3>1, <4>2, <5>1
        <5>3. \A k \in DOMAIN entries : ~Reserved(k) =>
                entries[k].vstart \in {None, entries[k].start}
          BY DEF PlaceInv
        <5> QED
          BY <3>1, <5>2, <5>3
      <4> QED
        BY <3>1, <4>1, <4>2
    <3>3. EntriesOK' /\ DOMAIN entries' = DOMAIN entries
      BY <1>0, <2>0, <3>1, <3>2 DEF EntriesOK
    <3>4. LeftBefore(i, last)'
      <4>1. LeftBefore(i, last)
        BY <3>1 DEF PlaceInv
      <4>2. PICK n \in Nat : n = i
        BY <2>0
      <4>3. \A j \in 1 .. n : /\ Reserved(j)' <=> Reserved(j)
                              /\ Reserved(j) => entries'[j].vstart = entries[j].vstart
        BY <2>0, <3>1, <3>2, <4>2
      <4>4. ~Reserved(n) /\ ~Reserved(n)'
        BY <3>1, <3>2, <4>2
      <4>5. i' = n + 1 /\ last' = last
        BY <3>1, <4>2
      <4>6. LeftBefore(n, last)
        BY <4>1, <4>2
      <4>7. \A j \in Nat : j \in 1 .. n <=> j \in 1 .. n - 1 \/ (j = n /\ n > 0)
        OBVIOUS
      <4>8. CASE last = Top /\ \A j \in 1 .. n - 1 : ~Reserved(j)
        <5>1. \A j \in 1 .. i' - 1 : ~Reserved(j)'
          BY <4>3, <4>4, <4>5, <4>7, <4>8
        <5> QED
          BY <4>5, <4>8, <5>1 DEF LeftBefore
      <4>9. ASSUME NEW j \in 1 .. n - 1, Reserved(j), last = entries[j].vstart - 1,
                   \A l \in j + 1 .. n - 1 : ~Reserved(l)
            PROVE  LeftBefore(i, last)'
        <5>1. j \in 1 .. i' - 1 /\ Reserved(j)' /\ last' = entries'[j].vstart - 1
          BY <4>3, <4>5, <4>9
        <5>2. \A l \in j + 1 .. i' - 1 : ~Reserved(l)'
          BY <4>3, <4>4, <4>5, <4>9
        <5> QED
          BY <5>1, <5>2 DEF LeftBefore
      <4> QED
        BY <4>6, <4>8, <4>9 DEF LeftBefore
    <3>5. last' + (i' - 1) * AreaPages >= Top
      <4>1. last + (i - 1) * AreaPages >= Top
        BY <3>1 DEF PlaceInv
      <4>2. i * AreaPages = (i - 1) * AreaPages + AreaPages
            /\ (i - 1) * AreaPages \in Nat
        BY <1>0, <2>0
      <4>3. (i' - 1) * AreaPages = i * AreaPages /\ last' = last
        BY <1>0, <2>0, <3>1
      <4> QED
        BY <1>0, <2>0, <4>1, <4>2, <4>3
    <3>6. \A k \in DOMAIN entries : Reserved(k) /\ k < i' => entries'[k].vstart # None
      BY <2>0, <3>1, <3>2 DEF PlaceInv
    <3>7. PlaceInv'
      BY <2>14, <3>1, <3>2, <3>3, <3>4, <3>5, <3>6 DEF PlaceInv
    <3> QED
      BY <3>2, <3>3, <3>7
  <2>16. ASSUME NEW a \in Acpi \cup Devices, AddPhysicalMemoryEntry(a),
                core' \in Cores, page' \in Nat, UNCHANGED covered,
                stage' \in {"acpi", "refresh"},
                \/ job' = "idle" /\ UNCHANGED <<i, last>>
                \/ BeginPass
         PROVE  EntriesOK' /\ KnownInv' /\ PlaceInv'
    <3>1. /\ entries' = Append(entries, NewEntry(a)) /\ Len(entries) < MaxEntries
      BY <2>16 DEF AddPhysicalMemoryEntry
    <3>2. /\ entries' \in Seq(Area) /\ Len(entries') = Len(entries) + 1
          /\ \A k \in DOMAIN entries : entries'[k] = entries[k]
          /\ entries'[Len(entries) + 1] = NewEntry(a)
          /\ NewEntry(a).vstart = None
          /\ [NewEntry(a) EXCEPT !.vstart = None] = NewEntry(a)
      BY <2>0, <3>1, EntryAdded
    <3>3. DOMAIN entries' = DOMAIN entries \cup {Len(entries) + 1}
      BY <2>0, <3>2
    <3>4. covered' \in [Cores -> 0 .. Len(entries')]
      <4>1. covered \in [Cores -> 0 .. Len(entries)] /\ covered' = covered
        BY <2>16 DEF EntriesOK
      <4>2. 0 .. Len(entries) \subseteq 0 .. Len(entries')
        BY <2>0, <3>2
      <4> QED
        BY <4>1, <4>2
    <3>5. i' \in 1 .. Len(entries) + 1 /\ last' \in Int
      BY <1>0, <2>0, <2>16 DEF BeginPass
    <3>6. EntriesOK'
      <4>1. Len(entries') \in 1 .. MaxEntries /\ i' \in 1 .. Len(entries') + 1
        BY <1>0, <2>0, <3>1, <3>2, <3>5
      <4>2. job' \in {"kernel", "place", "map", "idle", "fault"}
        BY <2>16 DEF BeginPass
      <4> QED
        BY <2>16, <3>2, <3>4, <3>5, <4>1, <4>2 DEF EntriesOK
    <3>7. KnownInv'
      <4>1. PICK map \in Maps : \A k \in DOMAIN entries :
              [entries[k] EXCEPT !.vstart = None] \in Known(map)
        BY DEF KnownInv
      <4>2. NewEntry(a) \in Known(map)
        BY DEF Known
      <4>3. \A k \in DOMAIN entries' : [entries'[k] EXCEPT !.vstart = None] \in Known(map)
        BY <3>2, <3>3, <4>1, <4>2
      <4> QED
        BY <4>3 DEF KnownInv
    <3>8. \A k \in DOMAIN entries :
            /\ Reserved(k)' <=> Reserved(k)
            /\ Reserved(k) => entries'[k].vstart = entries[k].vstart
            /\ entries'[k].size = entries[k].size
      BY <3>2 DEF Reserved
    <3>9. LeftBefore(1, Top)'
      BY DEF LeftBefore
    <3>10. job' = "place" => LeftBefore(i, last)' /\ last' + (i' - 1) * AreaPages >= Top
      <4>1. job' = "place" => i' = 1 /\ last' = Top
        BY <2>16 DEF BeginPass
      <4>2. job' = "place" => LeftBefore(i, last)'
        BY <4>1 DEF LeftBefore
      <4>3. (1 - 1) * AreaPages = 0
        BY <1>0
      <4> QED
        BY <1>0, <4>1, <4>2, <4>3
    <3>11. job' # "map"
      BY <2>16 DEF BeginPass
    <3>12. \A k \in DOMAIN entries :
             /\ ~Reserved(k) => entries'[k].vstart \in {None, entries'[k].start}
             /\ Reserved(k) /\ k < i' => entries'[k].vstart # None
      <4>1. i' = i \/ i' = 1
        BY <2>16 DEF BeginPass
      <4> QED
        BY <2>0, <3>2, <4>1 DEF PlaceInv
    <3>13. entries'[Len(entries) + 1].vstart = None /\ ~(Len(entries) + 1 < i')
      BY <2>0, <3>2, <3>5
    <3>14. PlaceInv'
      BY <2>14, <3>3, <3>8, <3>10, <3>11, <3>12, <3>13 DEF PlaceInv
    <3> QED
      BY <3>6, <3>7, <3>14
  <2>17. CASE ParseAPIC
    <3>1. PICK a \in Acpi : AddPhysicalMemoryEntry(a)
      BY <2>17 DEF ParseAPIC
    <3> QED
      BY <2>16, <2>17, <3>1 DEF ParseAPIC, EntriesOK
  <2>18. CASE E1000Init
    <3>1. PICK a \in Devices : AddPhysicalMemoryEntry(a)
      BY <2>18 DEF E1000Init
    <3> QED
      BY <1>0, <2>16, <2>18, <3>1 DEF E1000Init, EntriesOK
  <2> QED
    BY <2>2, <2>3, <2>4, <2>5, <2>6, <2>7, <2>8, <2>9, <2>10, <2>11, <2>13,
       <2>15, <2>17, <2>18 DEF Next, Step
<1> QED
  BY <1>1, <1>2, PTL DEF Spec
(* No step changes what an entry describes, nor an address it was given.   *)
LEMMA EntriesKept ==
  ASSUME EntriesOK, KnownInv, PlaceInv, [Next]_vars
  PROVE  /\ DOMAIN entries \subseteq DOMAIN entries'
         /\ \A k \in DOMAIN entries :
              /\ entries'[k].start = entries[k].start
              /\ entries'[k].size = entries[k].size
              /\ Reserved(k)' <=> Reserved(k)
              /\ entries[k].vstart # None => entries'[k] = entries[k]
<1>0. /\ entries \in Seq(Area) /\ DOMAIN entries = 1 .. Len(entries)
      /\ Len(entries) \in Nat /\ i \in 1 .. Len(entries) + 1
      /\ \A k \in DOMAIN entries : entries[k] \in Area
  BY DEF EntriesOK
<1>1. CASE entries' = entries
  BY <1>1 DEF Reserved
<1>2. ASSUME NEW n \in DOMAIN entries, NEW x \in Nat,
             entries' = [entries EXCEPT ![n].vstart = x],
             entries[n].vstart # None => entries[n].vstart = x
      PROVE  /\ DOMAIN entries \subseteq DOMAIN entries'
             /\ \A k \in DOMAIN entries :
                  /\ entries'[k].start = entries[k].start
                  /\ entries'[k].size = entries[k].size
                  /\ Reserved(k)' <=> Reserved(k)
                  /\ entries[k].vstart # None => entries'[k] = entries[k]
  <2>1. /\ DOMAIN entries' = DOMAIN entries
        /\ \A k \in DOMAIN entries :
             /\ entries'[k].start = entries[k].start
             /\ entries'[k].size = entries[k].size
             /\ entries'[k].type = entries[k].type
    BY <1>0, <1>2, EntryPlaced
  <2>2. \A k \in DOMAIN entries : Reserved(k)' <=> Reserved(k)
    BY <2>1 DEF Reserved, isReservedMemory
  <2>3. ASSUME NEW k \in DOMAIN entries, entries[k].vstart # None
        PROVE  entries'[k] = entries[k]
    <3>1. CASE k # n
      BY <1>0, <1>2, <3>1
    <3>2. CASE k = n
      <4>1. entries'[k] = [entries[k] EXCEPT !.vstart = x] /\ entries[k].vstart = x
        BY <1>0, <1>2, <2>3, <3>2
      <4>2. entries[k] \in Area
        BY <1>0
      <4> QED
        BY <4>1, <4>2 DEF Area
    <3> QED
      BY <3>1, <3>2
  <2> QED
    BY <2>1, <2>2, <2>3
<1>3. CASE Place
  <2>1. /\ job = "place" /\ i \in DOMAIN entries /\ Reserved(i)
        /\ entries' = [entries EXCEPT ![i].vstart = last - entries[i].size \div PageBytes]
    BY <1>0, <1>3 DEF Place, Reserved
  <2>2. last - entries[i].size \div PageBytes \in Nat
    BY <2>1, PlacedInside
  <2> QED
    BY <1>2, <2>1, <2>2, PlacedAlike
<1>4. CASE PlaceIdentity
  <2>1. /\ i \in DOMAIN entries /\ ~Reserved(i)
        /\ \/ entries' = entries
           \/ entries' = [entries EXCEPT ![i].vstart = entries[i].start]
    BY <1>0, <1>4 DEF PlaceIdentity, Reserved
  <2>2. entries[i].start \in Nat
    BY <1>0, <2>1 DEF Area
  <2>3. entries[i].vstart # None => entries[i].vstart = entries[i].start
    BY <2>1 DEF PlaceInv
  <2> QED
    BY <1>1, <1>2, <2>1, <2>2, <2>3
<1>5. ASSUME NEW a \in Acpi \cup Devices, AddPhysicalMemoryEntry(a)
      PROVE  /\ DOMAIN entries \subseteq DOMAIN entries'
             /\ \A k \in DOMAIN entries : entries'[k] = entries[k]
  <2>1. /\ entries' \in Seq(Area) /\ Len(entries') = Len(entries) + 1
        /\ \A k \in DOMAIN entries : entries'[k] = entries[k]
    BY <1>0, <1>5, EntryAdded DEF AddPhysicalMemoryEntry
  <2> QED
    BY <1>0, <2>1
<1>6. CASE ParseAPIC \/ E1000Init
  <2>1. PICK a \in Acpi \cup Devices : AddPhysicalMemoryEntry(a)
    BY <1>6 DEF ParseAPIC, E1000Init
  <2> QED
    BY <1>5, <2>1 DEF Reserved
<1>7. Place \/ PlaceIdentity \/ ParseAPIC \/ E1000Init \/ entries' = entries
  BY DEF Next, Step, vars, bootvars, MapKernelPage, MapKernelEnds, MapReservedPage,
         MapReservedEnds, InitEnds, PassEnds, BeginBuild, BuildNext, PassesEnd,
         RefreshNext
<1> QED
  BY <1>1, <1>3, <1>4, <1>6, <1>7

(* The virtual address of an entry, once given, is the same for ever: a    *)
(* driver may keep the pointer that GetVirtualAddress gave it, and another *)
(* core may ask for it while MapReservedMemory runs.                       *)
THEOREM PointersKept == Spec => AddressesKept
<1>1. EntriesOK /\ KnownInv /\ PlaceInv /\ [Next]_vars
        => [\A k \in DOMAIN entries : entries[k].vstart # None =>
              k \in DOMAIN entries' /\ entries[k]' = entries[k]]_vars
  <2> SUFFICES ASSUME EntriesOK, KnownInv, PlaceInv, [Next]_vars,
                      NEW k \in DOMAIN entries, entries[k].vstart # None
               PROVE  k \in DOMAIN entries' /\ entries'[k] = entries[k]
    OBVIOUS
  <2> QED
    BY EntriesKept
<1> QED
  BY <1>1, Placement, PTL DEF Spec, AddressesKept

-----------------------------------------------------------------------------
(* The tables.                                                             *)

(* Linking a page to a frame changes what one core finds at one page.  A   *)
(* table is shared by the pages of a slot, and one that is taken from the  *)
(* pool was empty.                                                         *)
LEMMA Linked ==
  ASSUME TablesOK, BlocksOwned, FreeEmpty, NEW c \in Cores, NEW v \in 0 .. Top,
         NEW p \in Nat, Link(c, v, p), numBlocks' = numBlocks
  PROVE  /\ TablesOK' /\ BlocksOwned' /\ FreeEmpty'
         /\ Lookup(c, v)' = p
         /\ \A d \in Cores : \A w \in 0 .. Top :
              d # c \/ w # v => Lookup(d, w)' = Lookup(d, w)
<1> DEFINE s == Slot(v)
           x == Index(v)
<1>0. /\ s \in Slots /\ x \in 0 .. TableSize - 1
      /\ \A w \in 0 .. Top : /\ Slot(w) \in Slots /\ Index(w) \in 0 .. TableSize - 1
                             /\ Slot(w) = s /\ Index(w) = x => w = v
  BY SlotAndIndex
<1>1. /\ numBlocks \in Nat /\ pmd \in [Cores -> [Slots -> Nat \cup {None}]]
      /\ pte \in [Blocks -> [0 .. TableSize - 1 -> Nat \cup {None}]]
      /\ blocks \subseteq Blocks /\ Blocks' = Blocks /\ Blocks \subseteq Nat
      /\ None \notin Nat
      /\ \A d, e \in Cores : \A t, u \in Slots :
           pmd[d][t] # None => /\ pmd[d][t] \in Blocks \ blocks
                               /\ pmd[d][t] = pmd[e][u] => d = e /\ t = u
  BY UnitAssumption DEF TablesOK, BlocksOwned, Blocks
<1>2. CASE pmd[c][s] # None
  <2> DEFINE b == pmd[c][s]
  <2>1. /\ pte' = [pte EXCEPT ![b][x] = p] /\ UNCHANGED <<pmd, blocks>>
        /\ b \in Blocks \ blocks
    BY <1>0, <1>1, <1>2 DEF Link
  <2>2. b \in Blocks /\ b \notin blocks
    BY <2>1
  <2>3. \A d \in Cores : \A t \in Slots : pmd[d][t] = b => d = c /\ t = s
    BY <1>0, <1>1, <1>2
  <2> HIDE DEF b, s, x
  <2>4. pte' \in [Blocks -> [0 .. TableSize - 1 -> Nat \cup {None}]]
    BY <1>0, <1>1, <2>1, <2>2
  <2>5. \A a \in Blocks : \A y \in 0 .. TableSize - 1 :
          pte'[a][y] = IF a = b /\ y = x THEN p ELSE pte[a][y]
    <3> SUFFICES ASSUME NEW a \in Blocks, NEW y \in 0 .. TableSize - 1
                 PROVE  pte'[a][y] = IF a = b /\ y = x THEN p ELSE pte[a][y]
      OBVIOUS
    <3>1. pte'[a] = IF a = b THEN [pte[b] EXCEPT ![x] = p] ELSE pte[a]
      BY <1>1, <2>1, <2>2
    <3>2. pte[b] \in [0 .. TableSize - 1 -> Nat \cup {None}]
      BY <1>1, <2>2
    <3> QED
      BY <1>0, <3>1, <3>2
  <2>6. TablesOK'
    BY <1>1, <2>1, <2>4 DEF TablesOK
  <2>7. BlocksOwned'
    BY <1>1, <2>1 DEF BlocksOwned
  <2>8. FreeEmpty'
    BY <1>1, <2>1, <2>2, <2>5 DEF FreeEmpty
  <2>9. Lookup(c, v)' = p
    <3>1. pmd'[c][s] = b /\ b # None
      BY <1>2, <2>1 DEF b
    <3>2. pte'[b][x] = p
      BY <1>0, <2>2, <2>5
    <3> QED
      BY <3>1, <3>2 DEF Lookup, s, x
  <2>10. ASSUME NEW d \in Cores, NEW w \in 0 .. Top, d # c \/ w # v
         PROVE  Lookup(d, w)' = Lookup(d, w)
    <3>1. pmd'[d][Slot(w)] = pmd[d][Slot(w)]
      BY <2>1
    <3>2. ASSUME pmd[d][Slot(w)] # None
          PROVE  pte'[pmd[d][Slot(w)]][Index(w)] = pte[pmd[d][Slot(w)]][Index(w)]
      <4>1. pmd[d][Slot(w)] \in Blocks
        BY <1>0, <1>1, <3>2
      <4>2. ~(pmd[d][Slot(w)] = b /\ Index(w) = x)
        BY <1>0, <2>3, <2>10
      <4> QED
        BY <1>0, <2>5, <4>1, <4>2
    <3> QED
      BY <3>1, <3>2 DEF Lookup
  <2> QED
    BY <2>6, <2>7, <2>8, <2>9, <2>10
<1>3. CASE pmd[c][s] = None
  <2>1. PICK b \in blocks : /\ blocks' = blocks \ {b}
                            /\ pmd' = [pmd EXCEPT ![c][s] = b]
                            /\ pte' = [pte EXCEPT ![b][x] = p]
    BY <1>3 DEF Link, AllocateVirtualMemoryBlock
  <2>2. b \in Blocks /\ b \in Nat
    BY <1>1
  <2> HIDE DEF s, x
  <2>3. pte' \in [Blocks -> [0 .. TableSize - 1 -> Nat \cup {None}]]
    BY <1>0, <1>1, <2>1, <2>2
  <2>4. pmd' \in [Cores -> [Slots -> Nat \cup {None}]]
    BY <1>0, <1>1, <2>1, <2>2
  <2>5. \A a \in Blocks : \A y \in 0 .. TableSize - 1 :
          pte'[a][y] = IF a = b /\ y = x THEN p ELSE pte[a][y]
    <3> SUFFICES ASSUME NEW a \in Blocks, NEW y \in 0 .. TableSize - 1
                 PROVE  pte'[a][y] = IF a = b /\ y = x THEN p ELSE pte[a][y]
      OBVIOUS
    <3>1. pte'[a] = IF a = b THEN [pte[b] EXCEPT ![x] = p] ELSE pte[a]
      BY <1>1, <2>1, <2>2
    <3>2. pte[b] \in [0 .. TableSize - 1 -> Nat \cup {None}]
      BY <1>1, <2>2
    <3> QED
      BY <1>0, <3>1, <3>2
  <2>6. \A d \in Cores : \A t \in Slots :
          pmd'[d][t] = IF d = c /\ t = s THEN b ELSE pmd[d][t]
    BY <1>0, <1>1, <2>1
  <2>7. TablesOK'
    BY <1>1, <2>1, <2>3, <2>4 DEF TablesOK
  <2>8. BlocksOwned'
    <3>1. \A d \in Cores : \A t \in Slots : pmd[d][t] # b
      BY <1>1, <2>2
    <3>2. blocks' \subseteq Blocks'
      BY <1>1, <2>1
    <3>3. ASSUME NEW d \in Cores, NEW e \in Cores, NEW t \in Slots, NEW u \in Slots,
                 pmd'[d][t] # None
          PROVE  /\ pmd'[d][t] \in Blocks \ blocks'
                 /\ pmd'[d][t] = pmd'[e][u] => d = e /\ t = u
      <4>1. CASE d = c /\ t = s
        BY <2>1, <2>2, <2>6, <3>1, <3>3, <4>1
      <4>2. CASE ~(d = c /\ t = s)
        <5>1. pmd'[d][t] = pmd[d][t] /\ pmd[d][t] # None
          BY <2>6, <3>3, <4>2
        <5>2. pmd[d][t] \in Blocks \ blocks /\ (pmd[d][t] = pmd[e][u] => d = e /\ t = u)
          BY <1>1, <5>1
        <5> QED
          BY <2>1, <2>6, <3>1, <5>1, <5>2
      <4> QED
        BY <4>1, <4>2
    <3> QED
      BY <1>1, <3>2, <3>3 DEF BlocksOwned
  <2>9. FreeEmpty'
    BY <1>1, <2>1, <2>5 DEF FreeEmpty
  <2>10. Lookup(c, v)' = p
    <3>1. pmd'[c][s] = b /\ b # None
      BY <1>0, <1>1, <2>2, <2>6
    <3>2. pte'[b][x] = p
      BY <1>0, <2>2, <2>5
    <3> QED
      BY <3>1, <3>2 DEF Lookup, s, x
  <2>11. ASSUME NEW d \in Cores, NEW w \in 0 .. Top, d # c \/ w # v
         PROVE  Lookup(d, w)' = Lookup(d, w)
    <3>1. CASE d = c /\ Slot(w) = s
      <4>1. Index(w) # x /\ Index(w) \in 0 .. TableSize - 1
        BY <1>0, <2>11, <3>1
      <4>2. pmd'[d][Slot(w)] = b /\ pmd[d][Slot(w)] = None
        BY <1>0, <1>3, <2>6, <3>1
      <4>3. pte'[b][Index(w)] = None
        BY <2>2, <2>5, <4>1 DEF FreeEmpty
      <4> QED
        BY <4>2, <4>3 DEF Lookup
    <3>2. CASE ~(d = c /\ Slot(w) = s)
      <4>1. pmd'[d][Slot(w)] = pmd[d][Slot(w)]
        BY <1>0, <2>6, <3>2
      <4>2. ASSUME pmd[d][Slot(w)] # None
            PROVE  pte'[pmd[d][Slot(w)]][Index(w)] = pte[pmd[d][Slot(w)]][Index(w)]
        <5>1. pmd[d][Slot(w)] \in Blocks /\ pmd[d][Slot(w)] # b
          BY <1>0, <1>1, <4>2
        <5> QED
          BY <1>0, <2>5, <5>1
      <4> QED
        BY <4>1, <4>2 DEF Lookup
    <3> QED
      BY <3>1, <3>2
  <2> QED
    BY <2>7, <2>8, <2>9, <2>10, <2>11
<1> QED
  BY <1>2, <1>3
(* The pages of an entry that is placed lie above the kernel and below the *)
(* top of the address space.                                               *)
LEMMA AreaInside ==
  ASSUME EntriesOK, KnownInv, PlaceInv, NEW k \in DOMAIN entries, Reserved(k),
         entries[k].vstart # None
  PROVE  /\ entries[k].vstart \in Nat /\ entries[k].vstart >= KernelPages
         /\ entries[k].start \in Nat /\ entries[k].size \in Nat
         /\ LastPage(k) \in Nat /\ LastPage(k) <= Top
         /\ \A p \in Nat : p * PageBytes < entries[k].size =>
              /\ entries[k].vstart + p <= LastPage(k)
              /\ entries[k].vstart + p \in 0 .. Top
<1>0. /\ k \in Nat /\ k <= MaxEntries /\ MaxEntries \in Nat /\ AreaPages \in Nat
      /\ Top \in Nat /\ KernelPages \in Nat /\ entries[k] \in Area
  BY UnitAssumption DEF EntriesOK
<1>1. entries[k].vstart \in Nat /\ entries[k].start \in Nat /\ entries[k].size \in Nat
  BY <1>0 DEF Area
<1>2. entries[k].vstart + k * AreaPages > Top /\ LastPage(k) <= Top
  BY DEF PlaceInv
<1>3. k * AreaPages <= MaxEntries * AreaPages
      /\ k * AreaPages \in Nat /\ MaxEntries * AreaPages \in Nat
  BY <1>0
<1>4. KernelPages + MaxEntries * AreaPages <= Top + 1
  BY SpaceAssumption
<1>5. entries[k].vstart >= KernelPages
  BY <1>0, <1>1, <1>2, <1>3, <1>4
<1>6. entries[k].size \div PageBytes \in Nat
  BY AreaFits
<1>7. LastPage(k) \in Nat
  BY <1>1, <1>6 DEF LastPage
<1>8. ASSUME NEW p \in Nat, p * PageBytes < entries[k].size
      PROVE  entries[k].vstart + p <= LastPage(k)
  <2>1. p <= entries[k].size \div PageBytes
    BY <1>1, <1>8, PageOfArea
  <2> QED
    BY <1>1, <1>6, <2>1 DEF LastPage
<1> QED
  BY <1>0, <1>1, <1>2, <1>5, <1>7, <1>8

(* A page is to be one frame: the ranges are disjoint.                     *)
LEMMA MapsToOne ==
  ASSUME EntriesOK, KnownInv, PlaceInv, NEW v \in Nat, NEW p, NEW q,
         MapsTo(v, p), MapsTo(v, q)
  PROVE  p = q
<1> DEFINE In(k) == /\ Reserved(k) /\ entries[k].vstart # None
                    /\ v >= entries[k].vstart
                    /\ (v - entries[k].vstart) * PageBytes < entries[k].size
<1>0. KernelPages \in Nat /\ DOMAIN entries \subseteq Nat
  BY UnitAssumption DEF EntriesOK
<1>1. ASSUME NEW k \in DOMAIN entries, In(k)
      PROVE  /\ v >= KernelPages /\ v <= LastPage(k)
             /\ LastPage(k) \in Nat /\ entries[k].vstart \in Nat
  <2>1. /\ entries[k].vstart \in Nat /\ entries[k].vstart >= KernelPages
        /\ LastPage(k) \in Nat
        /\ \A y \in Nat : y * PageBytes < entries[k].size =>
             entries[k].vstart + y <= LastPage(k)
    BY <1>1, AreaInside
  <2>2. v - entries[k].vstart \in Nat
    BY <1>1, <2>1
  <2>3. entries[k].vstart + (v - entries[k].vstart) <= LastPage(k)
    BY <1>1, <2>1, <2>2
  <2> QED
    BY <1>0, <1>1, <2>1, <2>2, <2>3
<1>2. ASSUME NEW k \in DOMAIN entries, NEW l \in DOMAIN entries, In(k), In(l), k < l
      PROVE  FALSE
  <2>0. k \in 1 .. l - 1
    BY <1>2 DEF EntriesOK
  <2>1. LastPage(l) < entries[k].vstart
    BY <1>2, <2>0 DEF PlaceInv
  <2>2. v <= LastPage(l) /\ LastPage(l) \in Nat /\ entries[k].vstart \in Nat
        /\ v >= entries[k].vstart
    BY <1>1, <1>2
  <2> QED
    BY <2>1, <2>2
<1>3. ASSUME NEW k \in DOMAIN entries, NEW l \in DOMAIN entries, In(k), In(l)
      PROVE  k = l
  BY <1>0, <1>2, <1>3
<1>4. \A r : MapsTo(v, r) => \/ v < KernelPages /\ r = v
                             \/ \E k \in DOMAIN entries : In(k)
                                  /\ r = entries[k].start + (v - entries[k].vstart)
  BY DEF MapsTo
<1> HIDE DEF In
<1>5. ~(v < KernelPages /\ \E k \in DOMAIN entries : In(k))
  BY <1>0, <1>1
<1> QED
  BY <1>3, <1>4, <1>5

(* Entries that are placed say the same of a page after any step.          *)
LEMMA MapsToKept ==
  ASSUME EntriesOK, KnownInv, PlaceInv, [Next]_vars, NEW v, NEW p, MapsTo(v, p)
  PROVE  MapsTo(v, p)'
  BY EntriesKept DEF MapsTo

(* A step leaves the tables as they are, or links a page of the core whose *)
(* tables are being filled to the frame it is to be.                       *)
LEMMA StepLinks ==
  ASSUME EntriesOK, KnownInv, PlaceInv, [Next]_vars
  PROVE  /\ numBlocks' = numBlocks
         /\ \/ UNCHANGED tables
            \/ \E v \in 0 .. Top, p \in Nat :
                 Link(core, v, p) /\ MapsTo(v, p) /\ entries' = entries
<1>0. /\ page \in Nat /\ core \in Cores /\ Top \in Nat /\ KernelPages \in 0 .. Top
      /\ PageBytes \in Nat
  BY UnitAssumption DEF EntriesOK
<1>1. numBlocks' = numBlocks
  BY DEF Next, vars
<1>2. CASE MapKernelPage
  <2>1. page \in 0 .. Top /\ page < KernelPages
    BY <1>0, <1>2 DEF MapKernelPage
  <2>2. MapsTo(page, page)
    BY <2>1 DEF MapsTo
  <2> QED
    BY <1>0, <1>1, <1>2, <2>1, <2>2 DEF MapKernelPage, LinkFaults
<1>3. CASE MapReservedPage
  <2> DEFINE v == entries[i].vstart + page
             p == entries[i].start + page
  <2>1. i \in DOMAIN entries /\ Reserved(i) /\ page * PageBytes < entries[i].size
    BY <1>3 DEF MapReservedPage, PlaceInv
  <2>2. entries[i].vstart # None
    BY <1>3, <2>1 DEF MapReservedPage, PlaceInv
  <2>3. /\ entries[i].vstart \in Nat /\ entries[i].start \in Nat
        /\ v \in 0 .. Top
    BY <1>0, <2>1, <2>2, AreaInside
  <2>4. v - entries[i].vstart = page /\ v >= entries[i].vstart /\ p \in Nat
    BY <1>0, <2>3
  <2>5. MapsTo(v, p)
    BY <2>1, <2>2, <2>4 DEF MapsTo
  <2>6. UNCHANGED tables \/ (Link(core, v, p) /\ entries' = entries)
    BY <1>3 DEF MapReservedPage, LinkFaults
  <2> QED
    BY <1>1, <2>3, <2>4, <2>5, <2>6
<1>4. MapKernelPage \/ MapReservedPage \/ UNCHANGED tables
  BY DEF Next, Step, vars, bootvars, MapKernelEnds, Place, PlaceIdentity,
         MapReservedEnds, InitEnds, PassEnds, ParseAPIC, BeginBuild, BuildNext,
         PassesEnd, E1000Init, RefreshNext
<1> QED
  BY <1>1, <1>2, <1>3, <1>4

(* A page that a core reaches is not linked to another frame.              *)
LEMMA LookupKept ==
  ASSUME EntriesOK, KnownInv, PlaceInv, TablesOK, BlocksOwned, TableInv,
         [Next]_vars, NEW c \in Cores, NEW w \in 0 .. Top, Lookup(c, w) # None
  PROVE  Lookup(c, w)' = Lookup(c, w)
<1>1. CASE UNCHANGED tables
  BY <1>1 DEF tables, Lookup
<1>2. ASSUME NEW v \in 0 .. Top, NEW p \in Nat, Link(core, v, p), MapsTo(v, p),
             numBlocks' = numBlocks
      PROVE  Lookup(c, w)' = Lookup(c, w)
  <2>0. PICK d \in Cores : d = core
    BY DEF EntriesOK
  <2>1. /\ Lookup(d, v)' = p
        /\ c # d \/ w # v => Lookup(c, w)' = Lookup(c, w)
    BY <1>2, <2>0, Linked DEF TableInv
  <2>2. MapsTo(w, Lookup(c, w))
    BY DEF TableInv
  <2>3. CASE c = d /\ w = v
    BY <1>2, <2>1, <2>2, <2>3, MapsToOne
  <2> QED
    BY <2>1, <2>3
<1> QED
  BY <1>1, <1>2, StepLinks
(* What a core finds in its tables is the kernel or a reserved entry, and  *)
(* the tables of the pool are handed out once: whichever core they are     *)
(* filled for, and however often the passes are repeated while the other   *)
(* cores run.                                                              *)
THEOREM TablesCorrect == Spec => [](TablesOK /\ BlocksOwned /\ TableInv)
<1>0. None \notin Nat /\ ByteBits \in Nat \ {0} /\ TableSize \in Nat
  BY UnitAssumption
<1>1. Init => TablesOK /\ BlocksOwned /\ TableInv
  <2> SUFFICES ASSUME Init PROVE TablesOK /\ BlocksOwned /\ TableInv
    OBVIOUS
  <2>0. \A v \in 0 .. Top : Slot(v) \in Slots
    BY SlotAndIndex
  <2>1. numBlocks \in Nat
    BY UnitAssumption DEF Init
  <2>2. pmd \in [Cores -> [Slots -> Nat \cup {None}]]
        /\ pte \in [Blocks -> [0 .. TableSize - 1 -> Nat \cup {None}]]
    BY DEF Init
  <2>3. \A c \in Cores : \A s \in Slots : pmd[c][s] = None
    BY DEF Init
  <2>4. blocks \subseteq Blocks
    <3> DEFINE q == numBlocks \div ByteBits
               r == numBlocks % ByteBits
    <3>1. q \in Nat /\ r \in 0 .. ByteBits - 1 /\ numBlocks = ByteBits * q + r
      BY <1>0, <2>1, Division
    <3>2. blocks = 0 .. ByteBits * q - 1
      BY DEF Init, Bitmap
    <3> HIDE DEF q, r
    <3>3. ByteBits * q \in Nat /\ ByteBits * q <= numBlocks
      BY <1>0, <2>1, <3>1
    <3> QED
      BY <2>1, <3>2, <3>3 DEF Blocks
  <2>5. FreeEmpty
    BY <2>4 DEF Init, FreeEmpty
  <2>6. \A c \in Cores : \A v \in 0 .. Top : Lookup(c, v) = None
    BY <2>0, <2>3 DEF Lookup
  <2> QED
    BY <2>1, <2>2, <2>3, <2>4, <2>5, <2>6 DEF TablesOK, BlocksOwned, TableInv
<1>2. EntriesOK /\ KnownInv /\ PlaceInv /\ [Next]_vars /\
      TablesOK /\ BlocksOwned /\ TableInv
        => (TablesOK /\ BlocksOwned /\ TableInv)'
  <2> SUFFICES ASSUME EntriesOK, KnownInv, PlaceInv, [Next]_vars,
                      TablesOK, BlocksOwned, TableInv
               PROVE  TablesOK' /\ BlocksOwned' /\ TableInv'
    OBVIOUS
  <2>1. \A c \in Cores : \A w \in 0 .. Top :
          Lookup(c, w) # None => /\ Lookup(c, w)' = Lookup(c, w)
                                 /\ MapsTo(w, Lookup(c, w))'
    <3> SUFFICES ASSUME NEW c \in Cores, NEW w \in 0 .. Top, Lookup(c, w) # None
                 PROVE  /\ Lookup(c, w)' = Lookup(c, w)
                        /\ MapsTo(w, Lookup(c, w))'
      OBVIOUS
    <3>1. PICK p : p = Lookup(c, w)
      OBVIOUS
    <3>2. MapsTo(w, p)
      BY <3>1 DEF TableInv
    <3>3. MapsTo(w, p)'
      BY <3>2, MapsToKept
    <3>4. Lookup(c, w)' = p
      BY <3>1, LookupKept
    <3>5. MapsTo(w, Lookup(c, w))'
      BY <3>3, <3>4 DEF MapsTo
    <3> QED
      BY <3>1, <3>4, <3>5
  <2>2. CASE numBlocks' = numBlocks /\ UNCHANGED tables
    <3>1. TablesOK' /\ BlocksOwned' /\ FreeEmpty'
      BY <2>2 DEF tables, TablesOK, BlocksOwned, TableInv, FreeEmpty, Blocks
    <3>2. \A c \in Cores : \A w \in 0 .. Top : Lookup(c, w)' = Lookup(c, w)
      BY <2>2 DEF tables, Lookup
    <3> QED
      BY <2>1, <3>1, <3>2 DEF TableInv
  <2>3. ASSUME NEW v \in 0 .. Top, NEW p \in Nat, Link(core, v, p), MapsTo(v, p),
               numBlocks' = numBlocks
        PROVE  TablesOK' /\ BlocksOwned' /\ TableInv'
    <3>0. PICK d \in Cores : d = core
      BY DEF EntriesOK
    <3>1. /\ TablesOK' /\ BlocksOwned' /\ FreeEmpty' /\ Lookup(d, v)' = p
          /\ \A c \in Cores : \A w \in 0 .. Top :
               c # d \/ w # v => Lookup(c, w)' = Lookup(c, w)
      BY <2>3, <3>0, Linked DEF TableInv
    <3>2. MapsTo(v, p)'
      BY <2>3, MapsToKept
    <3>3. MapsTo(v, Lookup(d, v))'
      BY <3>1, <3>2 DEF MapsTo
    <3>4. ASSUME NEW c \in Cores, NEW w \in 0 .. Top, Lookup(c, w)' # None
          PROVE  MapsTo(w, Lookup(c, w))'
      <4>1. CASE c = d /\ w = v
        BY <3>3, <4>1
      <4>2. CASE c # d \/ w # v
        BY <2>1, <3>1, <3>4, <4>2
      <4> QED
        BY <4>1, <4>2
    <3> QED
      BY <3>1, <3>4 DEF TableInv
  <2> QED
    BY <2>2, <2>3, StepLinks
<1> QED
  BY <1>1, <1>2, Placement, PTL DEF Spec

(* What a core can reach stays where it is, in every step of every pass:   *)
(* rewriting the tables of a core that runs, without telling it to forget  *)
(* what it has cached, is harmless.                                        *)
THEOREM TablesStable == Spec => MappingsStable
<1>1. EntriesOK /\ KnownInv /\ PlaceInv /\ TablesOK /\ BlocksOwned /\ TableInv
      /\ [Next]_vars
        => [\A c \in Cores : \A v \in 0 .. Top :
              Lookup(c, v) # None => Lookup(c, v)' = Lookup(c, v)]_vars
  BY LookupKept
<1> QED
  BY <1>1, Placement, TablesCorrect, PTL DEF Spec, MappingsStable

-----------------------------------------------------------------------------
(* What is mapped.                                                         *)

(* What has been mapped of the kernel, and of an entry, stays mapped.      *)
LEMMA KernelKept ==
  ASSUME EntriesOK, KnownInv, PlaceInv, TablesOK, BlocksOwned, TableInv,
         [Next]_vars, NEW c \in Cores, NEW n \in 0 .. KernelPages,
         KernelMapped(c, n)
  PROVE  KernelMapped(c, n)'
<1>1. None \notin Nat /\ Top \in Nat /\ KernelPages \in 0 .. Top
  BY UnitAssumption
<1>2. ASSUME NEW p \in 0 .. n - 1 PROVE Lookup(c, p)' = p
  <2>1. Lookup(c, p) = p /\ p \in 0 .. Top /\ p # None
    BY <1>1 DEF KernelMapped
  <2> QED
    BY <2>1, LookupKept
<1> QED
  BY <1>2 DEF KernelMapped

\* An area a core has mapped stays mapped there.
LEMMA AreaKept ==
  ASSUME EntriesOK, KnownInv, PlaceInv, TablesOK, BlocksOwned, TableInv,
         [Next]_vars, NEW c \in Cores, NEW k \in DOMAIN entries, Reserved(k),
         AreaMapped(c, k)
  PROVE  AreaMapped(c, k)'
<1>1. None \notin Nat
  BY UnitAssumption
<1>2. entries[k].vstart # None /\ entries'[k] = entries[k]
  BY EntriesKept DEF AreaMapped
<1>3. /\ entries[k].start \in Nat
      /\ \A p \in Nat : p * PageBytes < entries[k].size =>
           entries[k].vstart + p \in 0 .. Top
  BY <1>2, AreaInside
<1>4. ASSUME NEW p \in 0 .. entries[k].size, p * PageBytes < entries[k].size
      PROVE  Lookup(c, entries[k].vstart + p)' = entries[k].start + p
  <2>1. PICK w \in 0 .. Top : w = entries[k].vstart + p
    BY <1>3, <1>4
  <2>2. Lookup(c, w) = entries[k].start + p /\ entries[k].start + p # None
    BY <1>1, <1>3, <1>4, <2>1 DEF AreaMapped
  <2>3. Lookup(c, w)' = entries[k].start + p
    BY <2>2, LookupKept
  <2> QED
    BY <1>2, <2>1, <2>3 DEF Lookup
<1> QED
  BY <1>2, <1>4 DEF AreaMapped
(* A pass that is over has mapped every reserved entry there was for the   *)
(* core it was for, and no core is started before it has had one.          *)
THEOREM PassesCover == Spec => []CoverInv
<1>0. /\ None \notin Nat /\ KernelPages \in Nat /\ KernelPages \in 0 .. Top
      /\ PageBytes \in Nat \ {0} /\ CoreCount \in Nat \ {0}
      /\ Cores = 0 .. CoreCount - 1 /\ 0 \in Cores /\ Top \in Nat
  BY UnitAssumption DEF Cores
<1>1. Init => CoverInv
  BY <1>0 DEF Init, CoverInv, KernelMapped
<1>2. EntriesOK /\ KnownInv /\ PlaceInv /\ TablesOK /\ BlocksOwned /\ TableInv
      /\ EntriesOK' /\ CoverInv /\ [Next]_vars => CoverInv'
  <2> SUFFICES ASSUME EntriesOK, KnownInv, PlaceInv, TablesOK, BlocksOwned,
                      TableInv, EntriesOK', CoverInv, [Next]_vars
               PROVE  CoverInv'
    OBVIOUS
  <2>0. /\ DOMAIN entries = 1 .. Len(entries) /\ Len(entries) \in Nat
        /\ Len(entries) >= 1 /\ i \in 1 .. Len(entries) + 1 /\ page \in Nat
        /\ core \in Cores /\ core' \in Cores
        /\ covered \in [Cores -> 0 .. Len(entries)]
        /\ job \in {"kernel", "place", "map", "idle", "fault"}
    BY DEF EntriesOK
  <2>1. PICK d \in Cores : d = core
    BY <2>0
  <2>2. \A c \in Cores : KernelMapped(c, KernelPages) => KernelMapped(c, KernelPages)'
    BY <1>0, KernelKept
  <2>3. \A k \in DOMAIN entries : Reserved(k)' <=> Reserved(k)
    BY EntriesKept
  <2>4. \A c \in Cores : \A k \in DOMAIN entries :
          Reserved(k)' /\ (Reserved(k) => AreaMapped(c, k)) => AreaMapped(c, k)'
    BY <2>3, AreaKept
  <2> DEFINE Hist == /\ \A c \in Cores : covered[c] > 0 => KernelMapped(c, KernelPages)
                     /\ \A c \in Cores : \A k \in 1 .. covered[c] :
                          Reserved(k) => AreaMapped(c, k)
             Order == /\ stage = "init" => core = 0
                      /\ stage \in {"acpi", "build"} => covered[0] > 0
                      /\ stage = "build" => \A c \in 0 .. core - 1 : covered[c] > 0
                      /\ stage \in {"up", "refresh"} => \A c \in Cores : covered[c] > 0
  <2>5. Hist /\ Order
    BY DEF CoverInv
  <2>6. ASSUME covered' = covered PROVE Hist'
    <3>1. \A c \in Cores : \A k \in 1 .. covered[c] : k \in DOMAIN entries
      BY <2>0
    <3>2. \A c \in Cores : covered'[c] > 0 => KernelMapped(c, KernelPages)'
      BY <2>2, <2>5, <2>6
    <3>3. \A c \in Cores : \A k \in 1 .. covered'[c] : Reserved(k)' => AreaMapped(c, k)'
      BY <2>4, <2>5, <2>6, <3>1
    <3> QED
      BY <3>2, <3>3
  <2>7. ASSUME PassEnds
        PROVE  /\ Hist' /\ covered'[d] > 0
               /\ \A c \in Cores : covered[c] > 0 => covered'[c] > 0
    <3>1. /\ job = "place" /\ i = Len(entries) + 1
          /\ covered' = [covered EXCEPT ![d] = Len(entries)]
      BY <2>0, <2>1, <2>7 DEF PassEnds
    <3>2. \A c \in Cores : covered'[c] = IF c = d THEN Len(entries) ELSE covered[c]
      BY <2>0, <3>1
    <3>3. KernelMapped(d, KernelPages)
          /\ \A k \in 1 .. Len(entries) : Reserved(k) => AreaMapped(d, k)
      BY <2>0, <2>1, <3>1 DEF CoverInv
    <3>4. \A c \in Cores : covered'[c] > 0 => KernelMapped(c, KernelPages)'
      BY <2>2, <2>5, <3>2, <3>3
    <3>5. ASSUME NEW c \in Cores, NEW k \in 1 .. covered'[c], Reserved(k)'
          PROVE  AreaMapped(c, k)'
      <4>1. k \in DOMAIN entries /\ (Reserved(k) => AreaMapped(c, k))
        BY <2>0, <2>5, <3>2, <3>3
      <4> QED
        BY <2>4, <3>5, <4>1
    <3>6. Hist'
      BY <3>4, <3>5
    <3> QED
      BY <2>0, <3>2, <3>6
  <2> HIDE DEF Hist
  <2>8. Order'
    <3>0. Order
      BY <2>5
    <3>1. CASE InitEnds
      BY <2>1, <2>7, <3>0, <3>1 DEF InitEnds
    <3>2. CASE BuildNext
      <4>1. /\ stage = "build" /\ stage' = "build" /\ core' = d + 1 /\ covered'[d] > 0
            /\ \A c \in Cores : covered[c] > 0 => covered'[c] > 0
        BY <2>1, <2>7, <3>2 DEF BuildNext
      <4>2. \A c \in 0 .. d - 1 : c \in Cores /\ covered[c] > 0
        BY <1>0, <2>1, <3>0, <4>1
      <4>3. \A c \in 0 .. d : c \in 0 .. d - 1 \/ c = d
        BY <1>0
      <4>4. \A c \in 0 .. core' - 1 : covered'[c] > 0
        BY <1>0, <4>1, <4>2, <4>3
      <4> QED
        BY <1>0, <3>0, <4>1, <4>4
    <3>3. CASE PassesEnd
      <4>1. /\ stage \in {"build", "refresh"} /\ stage' = "up" /\ d + 1 \notin Cores
            /\ covered'[d] > 0
            /\ \A c \in Cores : covered[c] > 0 => covered'[c] > 0
        BY <2>1, <2>7, <3>3 DEF PassesEnd
      <4>2. \A c \in Cores : c \in 0 .. d - 1 \/ c = d
        BY <1>0, <4>1
      <4>3. \A c \in Cores : covered'[c] > 0
        BY <2>1, <3>0, <4>1, <4>2
      <4> QED
        BY <4>1, <4>3
    <3>4. CASE RefreshNext
      <4>1. /\ stage = "refresh" /\ stage' = "refresh"
            /\ \A c \in Cores : covered[c] > 0 => covered'[c] > 0
        BY <2>7, <3>4 DEF RefreshNext
      <4> QED
        BY <3>0, <4>1
    <3>5. CASE BeginBuild
      BY <3>0, <3>5 DEF BeginBuild
    <3>6. CASE E1000Init
      BY <3>0, <3>6 DEF E1000Init
    <3>7. CASE UNCHANGED <<stage, core, covered>>
      BY <3>0, <3>7
    <3>8. \/ InitEnds \/ BuildNext \/ PassesEnd \/ RefreshNext \/ BeginBuild
          \/ E1000Init \/ UNCHANGED <<stage, core, covered>>
      BY DEF Next, Step, vars, bootvars, MapKernelPage, MapKernelEnds, Place,
             PlaceIdentity, MapReservedPage, MapReservedEnds, ParseAPIC
    <3> QED
      BY <3>1, <3>2, <3>3, <3>4, <3>5, <3>6, <3>7, <3>8
  <2>9. Hist'
    <3>1. PassEnds \/ covered' = covered
      BY DEF Next, Step, vars, bootvars, MapKernelPage, MapKernelEnds, Place,
             PlaceIdentity, MapReservedPage, MapReservedEnds, InitEnds, ParseAPIC,
             BeginBuild, BuildNext, PassesEnd, E1000Init, RefreshNext
    <3> QED
      BY <2>6, <2>7, <3>1
  <2> DEFINE Pass == /\ KernelMapped(core, KernelPages)
                     /\ \A k \in 1 .. i - 1 : Reserved(k) => AreaMapped(core, k)
             Kernel == page <= KernelPages /\ KernelMapped(core, page)
             Pages == \A p \in 0 .. page - 1 :
                        Lookup(core, entries[i].vstart + p) = entries[i].start + p
             Run == /\ job = "kernel" => Kernel
                    /\ job \in {"place", "map"} => Pass
                    /\ job = "map" => Pages
  <2>10. Run /\ (Order' /\ Hist' /\ Run' => CoverInv')
    BY DEF CoverInv, Hist
  <2> SUFFICES Run'
    BY <2>8, <2>9, <2>10
  <2> HIDE DEF Order
  <2>11. ASSUME job' \notin {"kernel", "place", "map"} PROVE Run'
    BY <2>11
  <2>12. ASSUME job' = "place", i' = 1, covered[core'] > 0 PROVE Run'
    <3>1. PICK c \in Cores : c = core'
      BY <2>0
    <3>2. KernelMapped(c, KernelPages)'
      BY <2>2, <2>5, <2>12, <3>1 DEF Hist
    <3>3. KernelMapped(core, KernelPages)'
      BY <3>1, <3>2 DEF KernelMapped, Lookup
    <3> QED
      BY <2>12, <3>3
  <2>13. ASSUME job \in {"place", "map"}, job' \in {"place", "map"}, core' = core,
                \/ i' = i
                \/ /\ i' = i + 1 /\ i \in DOMAIN entries
                   /\ Reserved(i) => AreaMapped(core, i)
         PROVE  Pass'
    <3>1. PICK n \in 1 .. Len(entries) + 1 : n = i'
      BY <2>0, <2>13
    <3>2. /\ KernelMapped(d, KernelPages)
          /\ \A k \in 1 .. n - 1 : Reserved(k) => AreaMapped(d, k)
      <4>1. Pass
        BY <2>10, <2>13
      <4>2. \A k \in 1 .. i - 1 : Reserved(k) => AreaMapped(d, k)
        BY <2>1, <4>1
      <4>3. CASE i' = i
        BY <2>1, <3>1, <4>1, <4>2, <4>3
      <4>4. CASE i' = i + 1 /\ (Reserved(i) => AreaMapped(core, i))
        <5>1. \A k \in 1 .. n - 1 : k \in 1 .. i - 1 \/ k = i
          BY <2>0, <3>1, <4>4
        <5> QED
          BY <2>1, <4>1, <4>2, <4>4, <5>1
      <4> QED
        BY <2>13, <4>3, <4>4
    <3>3. KernelMapped(d, KernelPages)'
      BY <2>2, <3>2
    <3>4. \A k \in 1 .. n - 1 : Reserved(k)' => AreaMapped(d, k)'
      BY <2>0, <2>4, <3>2
    <3> QED
      BY <2>1, <2>13, <3>1, <3>3, <3>4 DEF KernelMapped, AreaMapped, Lookup
  <2>14. ASSUME job = "kernel", page < KernelPages, Link(core, page, page),
                page' = page + 1, core' = core
         PROVE  Kernel'
    <3>1. PICK n \in 0 .. KernelPages : n = page /\ n < KernelPages
      BY <1>0, <2>0, <2>14
    <3>2. KernelMapped(d, n)
      BY <2>1, <2>10, <2>14, <3>1
    <3>3. KernelMapped(d, n)'
      BY <3>1, <3>2, KernelKept
    <3>4. n \in 0 .. Top /\ n \in Nat /\ Link(d, n, n)
      BY <1>0, <2>1, <2>14, <3>1
    <3>5. Lookup(d, n)' = n
      <4>1. numBlocks' = numBlocks
        BY DEF Next, vars
      <4> QED
        BY <3>4, <4>1, Linked DEF TableInv
    <3>6. \A p \in 0 .. page' - 1 : Lookup(d, p)' = p
      BY <2>14, <3>1, <3>3, <3>5 DEF KernelMapped
    <3>7. KernelMapped(core, page)'
      BY <2>1, <2>14, <3>6 DEF KernelMapped, Lookup
    <3> QED
      BY <1>0, <2>14, <3>1, <3>7
  <2>15. CASE MapKernelPage
    BY <2>11, <2>14, <2>15 DEF MapKernelPage
  <2>16. CASE MapKernelEnds
    <3>1. KernelMapped(d, KernelPages)
      BY <2>1, <2>10, <2>16 DEF MapKernelEnds
    <3>2. KernelMapped(d, KernelPages)'
      BY <2>2, <3>1
    <3>3. job' = "place" /\ i' = 1 /\ core' = d
      BY <2>1, <2>16 DEF MapKernelEnds, BeginPass
    <3>4. KernelMapped(core, KernelPages)'
      BY <3>2, <3>3 DEF KernelMapped, Lookup
    <3> QED
      BY <3>3, <3>4
  <2>17. CASE Place
    <3>1. /\ job = "place" /\ job' = "map" /\ i' = i /\ core' = core /\ page' = 0
      BY <2>17 DEF Place
    <3>2. Pass'
      BY <2>13, <3>1
    <3> QED
      BY <3>1, <3>2
  <2>18. CASE PlaceIdentity
    <3>1. /\ job = "place" /\ job' = "place" /\ i' = i + 1 /\ core' = core
          /\ i \in DOMAIN entries /\ ~Reserved(i)
      BY <2>0, <2>18 DEF PlaceIdentity, Reserved
    <3>2. Pass'
      BY <2>13, <3>1
    <3> QED
      BY <3>1, <3>2
  <2>19. ASSUME job = "map"
         PROVE  /\ i \in DOMAIN entries /\ Reserved(i) /\ entries[i].vstart # None
                /\ entries[i].start \in Nat /\ entries[i].size \in Nat
                /\ \A p \in Nat : p * PageBytes < entries[i].size =>
                     entries[i].vstart + p \in 0 .. Top
    <3>1. i \in DOMAIN entries /\ Reserved(i) /\ entries[i].vstart # None
      BY <2>0, <2>19 DEF PlaceInv
    <3> QED
      BY <3>1, AreaInside
  <2>20. CASE MapReservedEnds
    <3>1. /\ job = "map" /\ job' = "place" /\ i' = i + 1 /\ core' = core
          /\ page * PageBytes >= entries[i].size
      BY <2>20 DEF MapReservedEnds
    <3>2. ASSUME NEW p \in 0 .. entries[i].size, p * PageBytes < entries[i].size
          PROVE  Lookup(core, entries[i].vstart + p) = entries[i].start + p
      <4>1. p \in 0 .. page - 1
        <5>0. p \in Nat
          BY <2>19, <3>1
        <5> SUFFICES ASSUME page <= p PROVE FALSE
          BY <2>0, <5>0
        <5>1. page * PageBytes <= p * PageBytes /\ p * PageBytes \in Nat
              /\ page * PageBytes \in Nat
          BY <1>0, <2>0, <5>0
        <5> QED
          BY <2>19, <3>1, <3>2, <5>1
      <4> QED
        BY <2>10, <3>1, <4>1
    <3>3. AreaMapped(core, i)
      BY <2>19, <3>1, <3>2 DEF AreaMapped
    <3>4. Pass'
      BY <2>13, <2>19, <3>1, <3>3
    <3> QED
      BY <3>1, <3>4
  <2>21. ASSUME job = "map", page * PageBytes < entries[i].size, page' = page + 1,
                Link(core, entries[i].vstart + page, entries[i].start + page),
                UNCHANGED <<entries, core, i>>
         PROVE  Pages'
    <3>0. PICK k \in DOMAIN entries : k = i
      BY <2>19, <2>21
    <3>1. PICK n \in Nat : n = page
      BY <2>0
    <3>2. ASSUME NEW p \in 0 .. n
          PROVE  Lookup(d, entries[k].vstart + p)' = entries[k].start + p
      <4>1. p * PageBytes < entries[k].size
        <5>1. p * PageBytes <= n * PageBytes /\ p * PageBytes \in Nat
              /\ n * PageBytes \in Nat
          BY <1>0
        <5> QED
          BY <2>19, <2>21, <3>0, <3>1, <5>1
      <4>2. PICK w \in 0 .. Top : w = entries[k].vstart + p
        BY <2>19, <2>21, <3>0, <4>1
      <4>3. PICK f \in Nat : f = entries[k].start + p
        BY <2>19, <2>21, <3>0
      <4>4. CASE p = n
        <5>1. Link(d, w, f)
          BY <2>1, <2>21, <3>0, <3>1, <4>2, <4>3, <4>4
        <5>2. numBlocks' = numBlocks
          BY DEF Next, vars
        <5>3. Lookup(d, w)' = f
          BY <5>1, <5>2, Linked DEF TableInv
        <5> QED
          BY <2>21, <4>2, <4>3, <5>3 DEF Lookup
      <4>5. CASE p < n
        <5>1. Lookup(d, w) = f /\ f # None
          BY <1>0, <2>1, <2>10, <2>21, <3>0, <3>1, <4>2, <4>3, <4>5
        <5>2. Lookup(d, w)' = f
          BY <5>1, LookupKept
        <5> QED
          BY <2>21, <4>2, <4>3, <5>2 DEF Lookup
      <4> QED
        BY <4>4, <4>5
    <3> QED
      BY <2>1, <2>21, <3>0, <3>1, <3>2 DEF Lookup
  <2>22. CASE MapReservedPage
    <3>1. CASE job' = "fault"
      BY <2>11, <3>1
    <3>2. CASE job' # "fault"
      <4>1. /\ job = "map" /\ job' = "map" /\ i' = i /\ core' = core
            /\ page * PageBytes < entries[i].size /\ page' = page + 1
            /\ Link(core, entries[i].vstart + page, entries[i].start + page)
            /\ UNCHANGED <<entries, core, i>>
        BY <2>22, <3>2 DEF MapReservedPage
      <4>2. Pass'
        BY <2>13, <4>1
      <4>3. Pages'
        BY <2>21, <4>1
      <4> QED
        BY <4>1, <4>2, <4>3
    <3> QED
      BY <3>1, <3>2
  <2>23. CASE BeginBuild
    <3>1. job' = "place" /\ i' = 1 /\ core' = 0 /\ covered[0] > 0
      BY <2>5, <2>23 DEF BeginBuild, BeginPass, Order
    <3> QED
      BY <2>12, <3>1
  <2>24. CASE E1000Init
    <3>1. job' = "place" /\ i' = 1 /\ core' = 0 /\ covered[0] > 0
      BY <1>0, <2>5, <2>24 DEF E1000Init, BeginPass, Order
    <3> QED
      BY <2>12, <3>1
  <2>25. CASE RefreshNext
    <3>1. job' = "place" /\ i' = 1 /\ covered[core'] > 0
      BY <2>0, <2>5, <2>25 DEF RefreshNext, BeginPass, Order
    <3> QED
      BY <2>12, <3>1
  <2>26. CASE BuildNext
    BY <1>0, <2>26 DEF BuildNext, KernelMapped
  <2>27. CASE InitEnds \/ PassesEnd \/ ParseAPIC
    BY <2>11, <2>27 DEF InitEnds, PassesEnd, ParseAPIC
  <2>28. CASE UNCHANGED vars
    BY <2>10, <2>28 DEF vars, bootvars, tables, KernelMapped, AreaMapped, Lookup, Reserved
  <2> QED
    BY <2>15, <2>16, <2>17, <2>18, <2>20, <2>22, <2>23, <2>24, <2>25, <2>26, <2>27,
       <2>28 DEF Next, Step
<1> QED
  BY <1>1, <1>2, Placement, TablesCorrect, PTL DEF Spec
(* A set of natural numbers that is not empty has a least element.         *)
LEMMA LeastOf ==
  ASSUME NEW S \in SUBSET Nat, S # {}
  PROVE  \E k \in S : \A l \in S : k <= l
<1> DEFINE R == OpToRel(<, Nat)
<1>1. IsWellFoundedOn(R, Nat)
  BY NatLessThanWellFounded, Zenon
<1>2. \A k, l \in Nat : <<k, l>> \in R <=> k < l
  BY DEF OpToRel
<1> HIDE DEF R
<1>3. PICK k \in S : \A l \in S : ~(<<l, k>> \in R)
  BY <1>1, WFMin
<1>4. ASSUME NEW l \in S PROVE k <= l
  <2>1. k \in Nat /\ l \in Nat
    OBVIOUS
  <2>2. ~(l < k)
    BY <1>2, <1>3, <2>1, Zenon
  <2> QED
    BY <2>1, <2>2
<1> QED
  BY <1>4

(* The address that GetVirtualAddress gives to a byte of a reserved entry  *)
(* is in an entry that is reserved too and not behind it: the first entry  *)
(* that has the byte decides, and memory of another kind does not lie in a *)
(* reserved entry.                                                         *)
LEMMA FirstEntry ==
  ASSUME EntriesOK, KnownInv, NEW k \in DOMAIN entries, Reserved(k),
         NEW a \in Nat, Contains(entries[k], a)
  PROVE  \E l \in 1 .. k :
           /\ Reserved(l) /\ Contains(entries[l], a)
           /\ GetVirtualAddress(a)
                = entries[l].vstart * PageBytes + (a - entries[l].start * PageBytes)
<1> DEFINE found == {l \in DOMAIN entries : Contains(entries[l], a)}
           First1 == CHOOSE l \in found : \A m \in found : l <= m
<1>0. DOMAIN entries = 1 .. Len(entries) /\ Len(entries) \in Nat
      /\ PageBytes \in Nat \ {0}
      /\ \A l \in DOMAIN entries : entries[l] \in Area
  BY UnitAssumption DEF EntriesOK
<1>1. k \in found /\ found \in SUBSET Nat
  BY <1>0
<1>2. \E l \in found : \A m \in found : l <= m
  BY <1>1, LeastOf
<1>3. First1 \in found /\ First1 <= k
  BY <1>1, <1>2
<1>4. GetVirtualAddress(a) = entries[First1].vstart * PageBytes
                               + (a - entries[First1].start * PageBytes)
  BY <1>1 DEF GetVirtualAddress
<1> HIDE DEF First1
<1>5. PICK l \in DOMAIN entries : l = First1 /\ Contains(entries[l], a) /\ l \in 1 .. k
  BY <1>0, <1>3
<1>6. Overlap(entries[k], entries[l])
  <2>1. /\ entries[k].start \in Nat /\ entries[k].size \in Nat
        /\ entries[l].start \in Nat /\ entries[l].size \in Nat
    BY <1>0 DEF Area
  <2>2. entries[k].start * PageBytes \in Nat /\ entries[l].start * PageBytes \in Nat
    BY <1>0, <2>1
  <2> QED
    BY <1>5, <2>1, <2>2 DEF Overlap, Contains
<1>7. Reserved(l)
  BY <1>5, <1>6, AreaFits
<1> QED
  BY <1>4, <1>5, <1>7

(* Every core that has had a pass reaches every byte of the memory that    *)
(* was reserved by then, at the address a driver is given for it, and the  *)
(* kernel one to one.                                                      *)
THEOREM MemoryReachable == Spec => []Reachable
<1>0. PageBytes \in Nat \ {0}
  BY UnitAssumption
<1>1. EntriesOK /\ KnownInv /\ PlaceInv /\ CoverInv => Reachable
  <2> SUFFICES ASSUME EntriesOK, KnownInv, PlaceInv, CoverInv,
                      NEW c \in Cores, covered[c] > 0
               PROVE  /\ \A p \in 0 .. KernelPages - 1 : Lookup(c, p) = p
                      /\ \A k \in 1 .. covered[c] : isReservedMemory(entries[k]) =>
                           \A x \in 0 .. entries[k].size - 1 :
                             LET a == entries[k].start * PageBytes + x
                                 v == GetVirtualAddress(a)
                             IN Lookup(c, v \div PageBytes) = a \div PageBytes
    BY DEF Reachable
  <2>1. \A p \in 0 .. KernelPages - 1 : Lookup(c, p) = p
    BY DEF CoverInv, KernelMapped
  <2>2. ASSUME NEW k \in 1 .. covered[c], Reserved(k), NEW x \in 0 .. entries[k].size - 1
        PROVE  Lookup(c, GetVirtualAddress(entries[k].start * PageBytes + x) \div PageBytes)
                 = (entries[k].start * PageBytes + x) \div PageBytes
    <3> DEFINE a == entries[k].start * PageBytes + x
    <3>1. k \in DOMAIN entries /\ \A l \in DOMAIN entries : entries[l] \in Area
      BY DEF EntriesOK
    <3>2. entries[k].start \in Nat /\ entries[k].size \in Nat
      BY <3>1 DEF Area
    <3>3. entries[k].start * PageBytes \in Nat /\ a \in Nat
      BY <1>0, <3>2
    <3>4. Contains(entries[k], a)
      BY <3>2, <3>3 DEF Contains
    <3> HIDE DEF a
    <3>5. PICK l \in 1 .. k :
            /\ Reserved(l) /\ Contains(entries[l], a)
            /\ GetVirtualAddress(a)
                 = entries[l].vstart * PageBytes + (a - entries[l].start * PageBytes)
      BY <2>2, <3>1, <3>3, <3>4, FirstEntry
    <3>6. l \in DOMAIN entries /\ l \in 1 .. covered[c]
      BY <3>1 DEF EntriesOK
    <3>7. AreaMapped(c, l)
      BY <3>5, <3>6 DEF CoverInv
    <3>8. /\ entries[l].vstart \in Nat /\ entries[l].start \in Nat
          /\ entries[l].size \in Nat
      BY <3>5, <3>6, <3>7, AreaInside DEF AreaMapped
    <3> DEFINE y == a - entries[l].start * PageBytes
               p == y \div PageBytes
               r == y % PageBytes
    <3>9. /\ y \in Nat /\ y < entries[l].size
          /\ a = entries[l].start * PageBytes + y
      <4>1. entries[l].start * PageBytes \in Nat
        BY <1>0, <3>8
      <4> QED
        BY <3>3, <3>5, <3>8, <4>1 DEF Contains
    <3> HIDE DEF y
    <3>10. p \in Nat /\ r \in 0 .. PageBytes - 1 /\ y = PageBytes * p + r
      BY <1>0, <3>9, Division
    <3>11. /\ (entries[l].vstart * PageBytes + y) \div PageBytes = entries[l].vstart + p
           /\ a \div PageBytes = entries[l].start + p
      BY <3>8, <3>9, WholePages
    <3> HIDE DEF p, r
    <3>12. p * PageBytes < entries[l].size /\ p \in 0 .. entries[l].size
      <4>1. p * PageBytes = PageBytes * p /\ p * PageBytes \in Nat
        BY <1>0, <3>10
      <4>2. p * PageBytes < entries[l].size
        BY <1>0, <3>8, <3>9, <3>10, <4>1
      <4> QED
        BY <3>8, <3>10, <4>2, PageOfArea
    <3>13. Lookup(c, entries[l].vstart + p) = entries[l].start + p
      BY <3>7, <3>12 DEF AreaMapped
    <3> QED
      BY <3>5, <3>11, <3>13 DEF a, y
  <2> QED
    BY <2>1, <2>2 DEF Reserved
<1> QED
  BY <1>1, Placement, PassesCover, PTL
=============================================================================
