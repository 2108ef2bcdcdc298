---------------------------- MODULE ServiceProofs ----------------------------
(***************************************************************************)
(* Proofs about three services of the kernel, which share no variable: the *)
(* shared memory service, for any number of cores, any size of the bitmap  *)
(* and of the pages, and any sizes asked for; the console, for any number  *)
(* of printing cores, any texts and any size of the terminals; the block   *)
(* service, for any sizes of its buffers and any sequence of reads.        *)
(***************************************************************************)
EXTENDS SharedMemory, Console, BlockService, WellFoundedInduction, TLAPS

(***************************************************************************)
(* Shared memory.                                                          *)
(***************************************************************************)
(* A request covers at least the whole pages in it, so the loop of         *)
(* AllocateSharedMemoryTwoMb goes at most one page beyond the pages that   *)
(* were reserved.                                                          *)
LEMMA WholePages ==
  ASSUME NEW n \in Nat
  PROVE  /\ n \div PageBytes \in Nat /\ PageCount(n) \in Nat
         /\ n \div PageBytes <= PageCount(n)
<1> DEFINE q == n \div PageBytes
           m == n + PageBytes - 1
           u == m \div PageBytes
<1>0. PageBytes \in Nat \ {0} /\ m \in Nat /\ m >= n
  BY SharedAssumption
<1> HIDE DEF m
<1>1. q \in Nat /\ PageBytes * q <= n
  BY <1>0
<1>2. u \in Nat /\ PageBytes * u > m - PageBytes
  BY <1>0
<1> HIDE DEF q, u
<1>3. q <= u
  <2> SUFFICES ASSUME u + 1 <= q PROVE FALSE
    BY <1>1, <1>2
  <2>1. PageBytes * (u + 1) <= PageBytes * q
    BY <1>0, <1>1, <1>2
  <2>2. PageBytes * (u + 1) = PageBytes * u + PageBytes
    BY <1>0, <1>2
  <2> QED
    BY <1>0, <1>1, <1>2, <2>1, <2>2
<1> QED
  BY <1>1, <1>2, <1>3 DEF q, u, m, PageCount

(* The bitmap has Bytes * ByteBits bits, and one page lies behind them.    *)
LEMMA BitsAndPages ==
  /\ Bytes * ByteBits \in Nat /\ 0 \in Pages /\ Bits \subseteq Pages
  /\ \A b \in Bits : b + 1 \in Pages /\ \A x \in 0 .. b + 1 : x \in Pages
<1>1. Bytes * ByteBits \in Nat
  BY SharedAssumption
<1> QED
  BY <1>1 DEF Pages, Bits
(* A request that is under way has a page and a size.                      *)
Asked == [op : {"alloc", "free"}, page : Pages, bytes : Sizes]

\* What a call that asks for something is made of.
LEMMA AskedCalls ==
  /\ Calls = Asked \cup {NoCall} /\ NoCall.op = "none"
  /\ \A x \in Calls : x.op # "none" => x \in Asked
  /\ \A x \in Asked : x.page \in Nat /\ x.bytes \in Nat /\ x.page \in Pages
                      /\ x.bytes \in Sizes
  /\ \A g \in Grant : g.page \in Nat /\ g.bytes \in Nat
<1>1. Pages \subseteq Nat /\ Sizes \subseteq Nat
  BY SharedAssumption DEF Pages
<1>2. Calls = Asked \cup {NoCall} /\ NoCall.op = "none"
  BY DEF Calls, Asked, NoCall
<1>3. \A x \in Asked : /\ x.page \in Nat /\ x.bytes \in Nat /\ x.page \in Pages
                       /\ x.bytes \in Sizes
  BY <1>1 DEF Asked
<1>4. \A g \in Grant : g.page \in Nat /\ g.bytes \in Nat
  BY <1>1 DEF Grant
<1> QED
  BY <1>2, <1>3, <1>4

(* Where AllocateConsecutivePages finds a run: the first page and the one  *)
(* behind the last exist, and the bits that are set are the bits found.    *)
LEMMA RunFound ==
  ASSUME NEW n \in Nat, NEW b \in Bits, b \in RunEnds(n)
  PROVE  /\ b + 1 - n \in Pages /\ b + 1 - n \in Nat /\ b + 1 \in Pages
         /\ Visited(b + 1 - n, n) = b + 1 - n .. b
         /\ (b + 1 - n .. b) \cap used = {}
<1>1. b + 1 - n \in Nat /\ (b + 1 - n .. b) \cap used = {}
  BY DEF RunEnds, Bits
<1>2. b + 1 - n \in 0 .. b + 1
  BY <1>1 DEF Bits
<1>3. Visited(b + 1 - n, n) = b + 1 - n .. b
  BY <1>1, BitsAndPages DEF Visited, Bits
<1> QED
  BY <1>1, <1>2, <1>3, BitsAndPages

-----------------------------------------------------------------------------
(* Whoever is between acquiring and releasing the lock is its holder, and  *)
(* AllocateSharedMemoryTwoMb, although it maps a page beyond the request,  *)
(* stays inside the tables.                                                *)
THEOREM OneAtATime == Spec => [](TypeOK /\ LockInv)
<1>0. /\ NoCore \notin Cores /\ 0 \in Cores /\ CoreCount - 1 \in Cores
      /\ Cores \subseteq Nat
  BY SharedAssumption DEF Cores
<1>1. Init => TypeOK /\ LockInv
  <2> SUFFICES ASSUME Init PROVE TypeOK /\ LockInv
    OBVIOUS
  <2>1. /\ table \in [Cores -> [Pages -> Phys \cup {None}]]
        /\ call \in [Cores -> Calls] /\ at \in [Cores -> Nat]
        /\ owner \in Cores \cup {NoCore}
    BY DEF Init, Calls, Lock!Init
  <2> QED
    BY <2>1, AskedCalls DEF Init, TypeOK, LockInv, Reserved
<1>2. TypeOK /\ LockInv /\ [Next]_vars => (TypeOK /\ LockInv)'
  <2> SUFFICES ASSUME TypeOK, LockInv, [Next]_vars PROVE TypeOK' /\ LockInv'
    OBVIOUS
  <2> USE <1>0 DEF Goto, Return, Reserved
  <2>0. /\ call \in [Cores -> Calls] /\ at \in [Cores -> Nat]
        /\ used \subseteq Bits /\ free \subseteq Phys /\ grants \subseteq Grant
        /\ table \in [Cores -> [Pages -> Phys \cup {None}]]
        /\ pc \in [Cores -> {"idle", "lock", "alloc", "free", "map", "unmap",
                             "unlock"}]
    BY DEF TypeOK
  <2>a. ASSUME NEW c \in Cores, call[c].op # "none"
        PROVE  call[c] \in Asked
    BY <2>0, <2>a, AskedCalls
  <2>1. ASSUME NEW c \in Cores, CallAllocate(c) PROVE TypeOK' /\ LockInv'
    <3>1. PICK b \in Sizes :
            call' = [call EXCEPT ![c] = [op |-> "alloc", page |-> 0, bytes |-> b]]
      BY <2>1 DEF CallAllocate
    <3>2. [op |-> "alloc", page |-> 0, bytes |-> b] \in Asked
      BY BitsAndPages DEF Asked
    <3>3. call' \in [Cores -> Calls] /\ call'[c].op = "alloc"
      BY <2>0, <3>1, <3>2, AskedCalls
    <3>4. TypeOK'
      BY <2>1, <3>3 DEF CallAllocate, TypeOK
    <3>5. LockInv'
      BY <2>0, <2>1, <3>1, <3>3 DEF CallAllocate, LockInv
    <3> QED
      BY <3>4, <3>5
  <2>2. ASSUME NEW c \in Cores, CallDeallocate(c) PROVE TypeOK' /\ LockInv'
    <3>1. PICK g \in grants :
            call' = [call EXCEPT ![c] = [op |-> "free", page |-> g.page,
                                         bytes |-> g.bytes]]
      BY <2>2 DEF CallDeallocate
    <3>2. [op |-> "free", page |-> g.page, bytes |-> g.bytes] \in Asked
      BY <2>0 DEF Asked, Grant
    <3>3. call' \in [Cores -> Calls] /\ call'[c].op = "free"
      BY <2>0, <3>1, <3>2, AskedCalls
    <3>4. TypeOK'
      BY <2>2, <3>3 DEF CallDeallocate, TypeOK
    <3>5. /\ LastMapped(call[c])' \in Pages /\ grants' \subseteq grants
          /\ pc'[c] = "lock" /\ owner' = owner /\ at' = at
          /\ \A d \in Cores \ {c} : call'[d] = call[d] /\ pc'[d] = pc[d]
      BY <2>0, <2>2, <3>1 DEF CallDeallocate, LockInv, LastMapped
    <3>6. LockInv'
      BY <3>3, <3>5 DEF LockInv, LastMapped
    <3> QED
      BY <3>4, <3>6
  <2>3. ASSUME NEW c \in Cores, Acquire(c) PROVE TypeOK' /\ LockInv'
    <3>1. call[c] \in Asked /\ call[c].op \in {"alloc", "free"}
      BY <2>3, <2>a DEF Acquire, LockInv, Asked
    <3> QED
      BY <2>0, <2>3, <3>1 DEF Acquire, Lock!Acquire, TypeOK, LockInv
  <2>4. ASSUME NEW c \in Cores, Reserve(c) PROVE TypeOK' /\ LockInv'
    <3> DEFINE n == PageCount(call[c].bytes)
    <3>1. /\ call[c] \in Asked /\ call[c].op = "alloc" /\ owner = c
          /\ pc[c] = "alloc"
      BY <2>4, <2>a DEF Reserve, LockInv
    <3>2. n \in Nat /\ call[c].bytes \div PageBytes \in Nat
          /\ call[c].bytes \div PageBytes <= n
      BY <3>1, WholePages, AskedCalls
    <3>3. ASSUME NEW b \in Bits, First(b, RunEnds(n)),
                 used' = used \cup Visited(b + 1 - n, n)
          PROVE  /\ used' \subseteq Bits /\ b + 1 - n \in Pages
                 /\ b + 1 - n \in Nat
                 /\ b + 1 - n + call[c].bytes \div PageBytes \in Pages
      <4>1. b \in RunEnds(n)
        BY <3>3 DEF First
      <4>2. b + 1 - n \in Pages /\ b + 1 - n \in Nat /\ b + 1 \in Pages
        BY <3>2, <4>1, RunFound
      <4>3. b + 1 - n + call[c].bytes \div PageBytes \in 0 .. b + 1
        BY <3>2, <4>2 DEF Bits
      <4> QED
        BY <2>0, <3>3, <4>2, <4>3, BitsAndPages DEF Visited
    <3> HIDE DEF n
    <3>4. ASSUME NEW b \in Bits, First(b, RunEnds(n)),
                 used' = used \cup Visited(b + 1 - n, n),
                 call' = [call EXCEPT ![c].page = b + 1 - n],
                 at' = [at EXCEPT ![c] = b + 1 - n],
                 pc' = [pc EXCEPT ![c] = "map"]
          PROVE  TypeOK' /\ LockInv'
      <4>1. /\ used' \subseteq Bits /\ b + 1 - n \in Pages
            /\ b + 1 - n \in Nat
            /\ b + 1 - n + call[c].bytes \div PageBytes \in Pages
        BY <3>3, <3>4
      <4>2. /\ call'[c] = [call[c] EXCEPT !.page = b + 1 - n]
            /\ call'[c] \in Asked /\ call'[c].op = "alloc"
            /\ call'[c].page = b + 1 - n /\ call'[c].bytes = call[c].bytes
            /\ call' \in [Cores -> Calls]
        BY <2>0, <3>1, <3>4, <4>1, AskedCalls DEF Asked
      <4>3. TypeOK'
        BY <2>4, <3>4, <4>1, <4>2 DEF Reserve, TypeOK
      <4>4. /\ LastMapped(call[c])' \in Pages
            /\ at'[c] \in call'[c].page .. LastMapped(call[c])'
        BY <2>0, <3>2, <3>4, <4>1, <4>2 DEF LastMapped
      <4>5. \A d \in Cores \ {c} : /\ call'[d] = call[d] /\ at'[d] = at[d]
                                   /\ pc'[d] = pc[d]
        BY <2>0, <3>4
      <4>6. owner' = owner /\ pc'[c] = "map" /\ grants' = grants
        BY <2>0, <2>4, <3>4 DEF Reserve
      <4>7. LockInv'
        BY <3>1, <4>2, <4>4, <4>5, <4>6 DEF LockInv, LastMapped
      <4> QED
        BY <4>3, <4>7
    <3>5. ASSUME used' \subseteq Bits, call' = [call EXCEPT ![c] = NoCall],
                 at' = at, pc' \in {[pc EXCEPT ![c] = "idle"],
                                    [pc EXCEPT ![c] = "unlock"]}
          PROVE  TypeOK' /\ LockInv'
      <4>1. TypeOK'
        BY <2>4, <3>5, AskedCalls DEF Reserve, TypeOK
      <4>2. LockInv'
        BY <2>0, <2>4, <3>1, <3>5, AskedCalls DEF Reserve, LockInv, LastMapped
      <4> QED
        BY <4>1, <4>2
    <3> QED
      BY <2>0, <2>4, <3>3, <3>4, <3>5 DEF Reserve, n
  <2>5. ASSUME NEW c \in Cores, Map(c) PROVE TypeOK' /\ LockInv'
    <3>1. /\ owner = c /\ at[c] \in call[c].page .. LastMapped(call[c])
          /\ call[c] \in Asked /\ at[c] \in Nat /\ call[c].op = "alloc"
          /\ LastMapped(call[c]) \in Pages /\ pc[c] = "map"
      BY <2>0, <2>5, <2>a DEF Map, LockInv
    <3>2. at[c] \in Pages
      BY <3>1, AskedCalls, BitsAndPages DEF Pages
    <3>3. table' \in [Cores -> [Pages -> Phys \cup {None}]] /\ free' \subseteq Phys
      BY <2>0, <2>5, <3>2 DEF Map
    <3>4. TypeOK'
      BY <2>5, <3>3 DEF Map, TypeOK
    <3>5. /\ at'[c] = at[c] + 1 /\ UNCHANGED <<owner, call, grants>>
          /\ \A d \in Cores \ {c} : at'[d] = at[d] /\ pc'[d] = pc[d]
          /\ pc'[c] = IF at[c] = LastMapped(call[c]) THEN "unlock" ELSE "map"
      <4> HIDE DEF LastMapped
      <4> QED
        BY <2>0, <2>5 DEF Map
    <3>6. /\ LastMapped(call[c]) \in Nat /\ call[c].page \in Nat
      BY <3>1, AskedCalls, BitsAndPages DEF Pages
    <3>7. LockInv'
      <4> HIDE DEF LastMapped
      <4>1. pc'[c] = "map" => at'[c] \in call[c].page .. LastMapped(call[c])
        BY <3>1, <3>5, <3>6
      <4>2. pc'[c] \in {"map", "unlock"} /\ owner' = c
        BY <3>1, <3>5
      <4>3. \A g \in grants' : LastMapped(g)' \in Pages
        BY <3>5 DEF LockInv, LastMapped
      <4>4. \A d \in Cores : LastMapped(call[d])' = LastMapped(call[d])
        BY <3>5 DEF LastMapped
      <4>5. \A d \in Cores \ {c} :
              /\ pc'[d] \in {"idle", "lock"}
              /\ pc'[d] = "lock" => call'[d].op # "none"
              /\ call'[d].op = "free" => LastMapped(call[d])' \in Pages
        BY <3>1, <3>5, <4>4 DEF LockInv
      <4>6. /\ call'[c].op = "alloc" /\ call'[c].page = call[c].page
            /\ LastMapped(call[c])' \in Pages
        BY <3>1, <3>5, <4>4
      <4> QED
        BY <4>1, <4>2, <4>3, <4>4, <4>5, <4>6 DEF LockInv
    <3> QED
      BY <3>4, <3>7
  <2>6. ASSUME NEW c \in Cores, Unreserve(c) PROVE TypeOK' /\ LockInv'
    <3>1. owner = c /\ call[c].op = "free" /\ pc[c] = "free"
      BY <2>6 DEF Unreserve, LockInv
    <3>2. TypeOK'
      BY <2>6, AskedCalls DEF Unreserve, TypeOK
    <3>3. /\ at'[c] = 0 /\ owner' = owner /\ grants' = grants
          /\ \A d \in Cores \ {c} : /\ call'[d] = call[d] /\ at'[d] = at[d]
                                    /\ pc'[d] = pc[d]
          /\ \/ pc'[c] = "unmap" /\ call'[c] = call[c]
             \/ pc'[c] = "unlock" /\ call'[c] = NoCall
      BY <2>0, <2>6 DEF Unreserve
    <3>4. LockInv'
      BY <3>1, <3>3, AskedCalls DEF LockInv, LastMapped
    <3> QED
      BY <3>2, <3>4
  <2>7. ASSUME NEW c \in Cores, Unmap(c) PROVE TypeOK' /\ LockInv'
    <3>1. /\ owner = c /\ call[c].op = "free" /\ at[c] \in Cores
          /\ pc[c] = "unmap"
      BY <2>7 DEF Unmap, LockInv
    <3>2. Mapped(at[c], c) \subseteq Phys
      <4>1. /\ call[c].page \in Nat /\ LastMapped(call[c]) \in Pages
        BY <2>a, <3>1, AskedCalls DEF LockInv
      <4>2. call[c].page .. LastMapped(call[c]) \subseteq Pages
        BY <4>1, BitsAndPages DEF Pages
      <4> QED
        BY <2>0, <3>1, <4>2 DEF Mapped
    <3>3. table' \in [Cores -> [Pages -> Phys \cup {None}]]
      BY <2>0, <2>7, <3>1 DEF Unmap
    <3>a. alarm' \in BOOLEAN
      BY <2>7, Zenon DEF Unmap
    <3>4. TypeOK'
      BY <2>7, <3>2, <3>3, <3>a DEF Unmap, TypeOK
    <3>5. /\ at'[c] = at[c] + 1 /\ UNCHANGED <<owner, call, grants>>
          /\ \A d \in Cores \ {c} : at'[d] = at[d] /\ pc'[d] = pc[d]
          /\ pc'[c] = IF at[c] = CoreCount - 1 THEN "unlock" ELSE "unmap"
      BY <2>0, <2>7 DEF Unmap
    <3>6. /\ pc'[c] \in {"unlock", "unmap"}
          /\ pc'[c] = "unmap" => at'[c] \in Cores
      BY <3>1, <3>5, SharedAssumption DEF Cores
    <3>b. LastMapped(call[c]) \in Pages
      BY <3>1 DEF LockInv
    <3> HIDE DEF LastMapped
    <3>c. \A d \in Cores : LastMapped(call[d])' = LastMapped(call[d])
      BY <3>5 DEF LastMapped
    <3>7. LockInv'
      BY <3>1, <3>5, <3>6, <3>b, <3>c DEF LockInv
    <3> QED
      BY <3>4, <3>7
  <2>8. ASSUME NEW c \in Cores, Release(c) PROVE TypeOK' /\ LockInv'
    <3>1. owner = c /\ pc[c] = "unlock" /\ owner' = NoCore
      BY <2>8 DEF Release, LockInv, Lock!Release
    <3>2. grants' \subseteq Grant
      BY <2>0, <2>8, <2>a, AskedCalls DEF Release, Grant
    <3>3. TypeOK'
      BY <2>8, <3>1, <3>2, AskedCalls DEF Release, TypeOK
    <3>4. /\ pc'[c] = "idle" /\ call'[c] = NoCall
          /\ \A d \in Cores \ {c} : /\ call'[d] = call[d] /\ at'[d] = at[d]
                                    /\ pc'[d] = pc[d]
      BY <2>0, <2>8 DEF Release
    <3>5. ASSUME NEW g \in grants' PROVE LastMapped(g) \in Pages
      BY <2>8, <3>1, <3>5 DEF Release, LockInv, LastMapped
    <3>6. LockInv'
      BY <3>1, <3>4, <3>5, AskedCalls DEF LockInv, LastMapped
    <3> QED
      BY <3>3, <3>6
  <2>9. CASE UNCHANGED vars
    BY <2>9 DEF vars, TypeOK, LockInv, LastMapped
  <2> QED
    BY <2>1, <2>2, <2>3, <2>4, <2>5, <2>6, <2>7, <2>8, <2>9 DEF Next
<1> QED
  BY <1>1, <1>2, PTL DEF Spec
-----------------------------------------------------------------------------
(* Page tables.                                                            *)

(* Only the holder of the lock can be unmapping.                           *)
LEMMA DueBy ==
  ASSUME LockInv, NEW c \in Cores, owner = c, NEW k, NEW p
  PROVE  Due(k, p) <=> /\ pc[c] = "unmap" /\ at[c] <= k
                       /\ p \in call[c].page .. LastMapped(call[c])
  BY DEF LockInv, Due

(* The tables of all cores agree on every page that is not being unmapped; *)
(* a collection is mapped once, and not while it is free, unless its page  *)
(* is being unmapped.                                                      *)
THEOREM TablesCorrect == Spec => [](AgreeInv /\ OwnedInv)
<1>0. /\ CoreCount - 1 \in Cores /\ Cores \subseteq Nat /\ 0 \in Cores
      /\ \A k \in Cores : k <= CoreCount - 1
      /\ None \notin Phys
  BY SharedAssumption DEF Cores, None
<1>1. Init => AgreeInv /\ OwnedInv
  BY DEF Init, AgreeInv, OwnedInv, Due
<1>2. TypeOK /\ LockInv /\ LockInv' /\ AgreeInv /\ OwnedInv /\ [Next]_vars
        => AgreeInv' /\ OwnedInv'
  <2> SUFFICES ASSUME TypeOK, LockInv, LockInv', AgreeInv, OwnedInv, [Next]_vars
               PROVE  AgreeInv' /\ OwnedInv'
    OBVIOUS
  <2>0. /\ pc \in [Cores -> {"idle", "lock", "alloc", "free", "map", "unmap",
                             "unlock"}]
        /\ at \in [Cores -> Nat] /\ call \in [Cores -> Calls]
        /\ table \in [Cores -> [Pages -> Phys \cup {None}]] /\ free \subseteq Phys
    BY DEF TypeOK
  <2>1. ASSUME UNCHANGED <<table, free>>, NEW c \in Cores,
               pc[c] # "unmap", pc'[c] # "unmap",
               \A d \in Cores \ {c} : /\ pc'[d] = pc[d] /\ at'[d] = at[d]
                                      /\ call'[d] = call[d]
        PROVE  AgreeInv' /\ OwnedInv'
    <3>1. \A k, p : Due(k, p)' <=> Due(k, p)
      BY <2>1 DEF Due, LastMapped
    <3>2. AgreeInv'
      BY <2>1, <3>1 DEF AgreeInv, LastMapped
    <3>3. OwnedInv'
      BY <2>1, <3>1 DEF OwnedInv
    <3> QED
      BY <3>2, <3>3
  <2>2. ASSUME NEW c \in Cores,
               CallAllocate(c) \/ CallDeallocate(c) \/ Acquire(c) \/ Release(c)
        PROVE  AgreeInv' /\ OwnedInv'
    <3>1. pc[c] = "lock" => call[c].op \in {"alloc", "free"}
      BY <2>0, AskedCalls DEF LockInv, Asked
    <3> QED
      BY <2>0, <2>1, <2>2, <3>1 DEF CallAllocate, CallDeallocate, Acquire,
                                    Release, Goto, Return
  <2>3. ASSUME NEW c \in Cores, Reserve(c) PROVE AgreeInv' /\ OwnedInv'
    <3>1. /\ pc[c] = "alloc" /\ pc'[c] # "unmap" /\ UNCHANGED <<table, free>>
          /\ \A d \in Cores \ {c} : pc'[d] = pc[d]
      BY <2>0, <2>3 DEF Reserve, Goto
    <3>2. \A d \in Cores \ {c} : at'[d] = at[d] /\ call'[d] = call[d]
      BY <2>0, <2>3 DEF Reserve, Return
    <3> QED
      BY <2>1, <3>1, <3>2
  <2>4. ASSUME NEW c \in Cores, Map(c) PROVE AgreeInv' /\ OwnedInv'
    <3>1. /\ owner = c /\ owner' = c /\ pc[c] = "map" /\ pc'[c] # "unmap"
      BY <2>0, <2>4 DEF Map, LockInv, Goto
    <3>2. \A k, p : ~Due(k, p) /\ ~Due(k, p)'
      <4>1. \A k, p : ~Due(k, p)
        BY <3>1, DueBy
      <4>2. \A d \in Cores : pc'[d] = "unmap" => FALSE
        BY <3>1 DEF LockInv
      <4> QED
        BY <4>1, <4>2 DEF Due
    <3>3. PICK m \in free \cup {None} :
            /\ free' = free \ {m}
            /\ table' = [k \in Cores |-> [table[k] EXCEPT ![at[c]] = m]]
      BY <2>4 DEF Map
    <3>a. \A k \in Cores : \A p \in Pages :
            table'[k][p] = IF p = at[c] THEN m ELSE table[k][p]
      BY <2>0, <3>3
    <3>4. AgreeInv'
      <4>1. \A k, l \in Cores : \A p \in Pages : table'[k][p] = table'[l][p]
        BY <3>2, <3>a DEF AgreeInv
      <4>2. \A d \in Cores : pc'[d] # "unmap"
        BY <3>1 DEF LockInv
      <4> QED
        BY <4>1, <4>2 DEF AgreeInv
    <3>5. OwnedInv'
      <4> SUFFICES ASSUME NEW k \in Cores, NEW p \in Pages, table'[k][p] # None
                   PROVE  /\ table'[k][p] \notin free'
                          /\ \A q \in Pages : p # q => table'[k][p] # table'[k][q]
        BY DEF OwnedInv
      <4>1. m # None => \A q \in Pages : table[k][q] # m
        BY <3>2, <3>3 DEF OwnedInv
      <4>2. table[k][p] # None => /\ table[k][p] \notin free
                                  /\ \A q \in Pages : p # q => table[k][p] # table[k][q]
        BY <3>2 DEF OwnedInv
      <4> QED
        BY <3>3, <3>a, <4>1, <4>2
    <3> QED
      BY <3>4, <3>5
  <2>5. ASSUME NEW c \in Cores, Unreserve(c) PROVE AgreeInv' /\ OwnedInv'
    <3>1. /\ owner = c /\ owner' = c /\ pc[c] = "free"
          /\ UNCHANGED <<table, free>> /\ at'[c] = 0
      BY <2>0, <2>5 DEF Unreserve, LockInv
    <3>2. \A k, p : ~Due(k, p)
      BY <3>1, DueBy
    <3>3. \A k \in Cores : \A p : Due(k, p)' <=> /\ pc'[c] = "unmap"
                              /\ p \in (call[c].page .. LastMapped(call[c]))'
      <4>1. \A d \in Cores \ {c} : pc'[d] # "unmap"
        BY <3>1 DEF LockInv
      <4> QED
        BY <1>0, <3>1, <4>1 DEF Due
    <3>4. \A k, l \in Cores : \A p \in Pages : table'[k][p] = table'[l][p]
      BY <3>1, <3>2 DEF AgreeInv
    <3>5. \A d, k \in Cores : pc'[d] = "unmap" => ~(k < at'[d])
      BY <1>0, <3>1 DEF LockInv
    <3>6. OwnedInv'
      BY <3>1, <3>2, <3>3 DEF OwnedInv
    <3> QED
      BY <3>4, <3>5, <3>6 DEF AgreeInv
  <2>6. ASSUME NEW c \in Cores, Unmap(c) PROVE AgreeInv' /\ OwnedInv'
    <3> DEFINE R == call[c].page .. LastMapped(call[c])
               j == at[c]
    <3>1. /\ owner = c /\ owner' = c /\ pc[c] = "unmap" /\ j \in Cores
          /\ call' = call
      BY <2>6 DEF Unmap, LockInv
    <3>2. /\ at'[c] = j + 1
          /\ pc'[c] = IF j = CoreCount - 1 THEN "unlock" ELSE "unmap"
          /\ free' = free \cup ({table[j][p] : p \in R} \ {None})
      BY <2>0, <2>6 DEF Unmap, Goto, Mapped
    <3>3. \A k \in Cores : \A p \in Pages :
            table'[k][p] = IF k = j /\ p \in R THEN None ELSE table[k][p]
      BY <2>0, <2>6, <3>1 DEF Unmap
    <3>a. R \subseteq Pages
      <4>1. LastMapped(call[c]) \in Pages /\ call[c].op = "free"
        BY <3>1 DEF LockInv
      <4>2. call[c].page \in Nat
        BY <2>0, <4>1, AskedCalls
      <4> QED
        BY <4>1, <4>2, BitsAndPages DEF Pages
    <3> HIDE DEF R, j
    <3>4. \A k, p : Due(k, p) <=> j <= k /\ p \in R
      BY <3>1, DueBy DEF R, j
    <3>5. \A k \in Cores : \A p : Due(k, p)' <=> j + 1 <= k /\ p \in R
      <4>1. \A d \in Cores \ {c} : pc'[d] # "unmap"
        BY <3>1 DEF LockInv
      <4>2. \A k, p : Due(k, p)' <=> /\ pc'[c] = "unmap" /\ j + 1 <= k
                                     /\ p \in R
        BY <3>1, <3>2, <4>1 DEF Due, R, LastMapped
      <4>3. \A k \in Cores : j + 1 <= k => pc'[c] = "unmap"
        BY <1>0, <3>1, <3>2
      <4> QED
        BY <4>2, <4>3
    <3>6. \A k \in Cores : \A p \in Pages : k < j /\ p \in R => table[k][p] = None
      BY <3>1 DEF AgreeInv, R, j
    <3>7. \A k \in Cores : \A p \in Pages : p \notin R => table[k][p] = table[j][p]
      BY <3>1, <3>4 DEF AgreeInv
    <3>8. AgreeInv'
      <4>1. ASSUME NEW k \in Cores, NEW l \in Cores, NEW p \in Pages,
                   Due(k, p)' <=> Due(l, p)'
            PROVE  table'[k][p] = table'[l][p]
        <5>1. CASE p \notin R
          BY <3>3, <3>7, <5>1
        <5>2. CASE p \in R
          <6>1. j + 1 <= k <=> j + 1 <= l
            BY <3>5, <4>1, <5>2
          <6>2. CASE j + 1 <= k
            <7>0. Due(k, p) /\ Due(l, p)
              BY <1>0, <3>1, <3>4, <5>2, <6>1, <6>2
            <7>1. table[k][p] = table[l][p]
              BY <7>0 DEF AgreeInv
            <7>2. k # j /\ l # j
              BY <1>0, <3>1, <6>1, <6>2
            <7> QED
              BY <3>3, <7>1, <7>2
          <6>3. CASE ~(j + 1 <= k)
            BY <1>0, <3>1, <3>3, <3>6, <5>2, <6>1, <6>3
          <6> QED
            BY <6>2, <6>3
        <5> QED
          BY <5>1, <5>2
      <4>2. ASSUME NEW d \in Cores, NEW k \in Cores, pc'[d] = "unmap", k < at'[d],
                   NEW p \in Pages,
                   p \in (call[d].page .. LastMapped(call[d]))'
            PROVE  table'[k][p] = None
        <5>1. d = c
          BY <3>1, <4>2 DEF LockInv
        <5>2. p \in R /\ k < j + 1
          BY <3>1, <3>2, <4>2, <5>1 DEF R, LastMapped
        <5>3. k < j \/ k = j
          BY <1>0, <3>1, <5>2
        <5>4. CASE k < j
          <6>1. table[k][p] = None
            BY <3>6, <5>2, <5>4
          <6> QED
            BY <3>3, <6>1
        <5>5. CASE k = j
          BY <3>3, <5>2, <5>5
        <5> QED
          BY <5>3, <5>4, <5>5
      <4> QED
        BY <4>1, <4>2 DEF AgreeInv
    <3>9. OwnedInv'
      <4> SUFFICES ASSUME NEW k \in Cores, NEW p \in Pages, table'[k][p] # None
                   PROVE  /\ ~Due(k, p)' => table'[k][p] \notin free'
                          /\ \A q \in Pages : p # q => table'[k][p] # table'[k][q]
        BY DEF OwnedInv
      <4>1. table[k][p] = table'[k][p] /\ ~(k = j /\ p \in R)
        BY <3>3
      <4>2. \A q \in Pages : p # q => table'[k][p] # table'[k][q]
        BY <3>3, <4>1 DEF OwnedInv
      <4>3. ASSUME ~Due(k, p)' PROVE table[k][p] \notin free'
        <5>1. p \notin R
          BY <1>0, <3>1, <3>5, <3>6, <4>1, <4>3
        <5>2. table[k][p] \notin free
          BY <3>4, <4>1, <5>1 DEF OwnedInv
        <5>3. \A q \in R : table[j][q] # table[k][p]
          BY <3>1, <3>7, <3>a, <4>1, <5>1 DEF OwnedInv
        <5> QED
          BY <3>2, <5>2, <5>3
      <4> QED
        BY <4>1, <4>2, <4>3
    <3> QED
      BY <3>8, <3>9
  <2>7. CASE UNCHANGED vars
    BY <2>7 DEF vars, AgreeInv, OwnedInv, Due, LastMapped
  <2> QED
    BY <2>2, <2>3, <2>4, <2>5, <2>6, <2>7 DEF Next
<1> QED
  BY <1>1, <1>2, OneAtATime, PTL DEF Spec

(* Between calls every core sees the shared memory in the same place.      *)
THEOREM SameTables == Spec => []TablesAgree
<1>1. TypeOK /\ AgreeInv => TablesAgree
  <2> SUFFICES ASSUME TypeOK, AgreeInv, Quiet, NEW k \in Cores, NEW l \in Cores
               PROVE  table[k] = table[l]
    BY DEF TablesAgree
  <2>1. \A p \in Pages : table[k][p] = table[l][p]
    BY DEF AgreeInv, Due, Quiet
  <2>2. table[k] \in [Pages -> Phys \cup {None}] /\ table[l] \in [Pages -> Phys \cup {None}]
    BY DEF TypeOK
  <2> QED
    BY <2>1, <2>2
<1> QED
  BY <1>1, OneAtATime, TablesCorrect, PTL

(* Between calls no table points to memory that is free, or twice to the   *)
(* same memory: although DeallocateSharedMemoryTwoMb frees the frames once *)
(* per core, and an entry that is mapped over is never freed.              *)
THEOREM MemoryOwned == Spec => []MappingsOwned
<1>1. OwnedInv => MappingsOwned
  BY DEF OwnedInv, MappingsOwned, Quiet, Due
<1> QED
  BY <1>1, TablesCorrect, PTL

-----------------------------------------------------------------------------
(* Until something is deallocated no page is granted twice: the run that   *)
(* AllocateConsecutivePages finds is clear of every grant and of every     *)
(* request that has reserved its pages, and the lock keeps others out      *)
(* until they are marked.                                                  *)
THEOREM NoPageTwice == Spec => [](GrantInv /\ GrantsDisjoint)
<1>1. Init => GrantInv
  BY DEF Init, GrantInv, GrantsDisjoint, Reserved
<1>2. TypeOK /\ LockInv /\ LockInv' /\ GrantInv /\ [Next]_vars => GrantInv'
  <2> SUFFICES ASSUME TypeOK, LockInv, LockInv', GrantInv, [Next]_vars, ~freed'
               PROVE  /\ GrantsDisjoint'
                      /\ \A c \in Cores : Reserved(c)' =>
                           /\ PagesOf(call[c])' \subseteq used'
                           /\ \A g \in grants' : PagesOf(call[c])' \cap PagesOf(g) = {}
    BY DEF GrantInv, PagesOf
  <2> DEFINE P == /\ GrantsDisjoint'
                  /\ \A c \in Cores : Reserved(c)' =>
                       /\ PagesOf(call[c])' \subseteq used'
                       /\ \A g \in grants' : PagesOf(call[c])' \cap PagesOf(g) = {}
  <2>0. /\ pc \in [Cores -> {"idle", "lock", "alloc", "free", "map", "unmap",
                             "unlock"}]
        /\ at \in [Cores -> Nat] /\ call \in [Cores -> Calls]
        /\ used \subseteq Bits /\ grants \subseteq Grant
    BY DEF TypeOK
  <2>a. ~freed
    BY DEF Next, CallAllocate, CallDeallocate, Acquire, Reserve, Map,
           Unreserve, Unmap, Release, vars
  <2>b. /\ \A g, h \in grants : /\ PagesOf(g) \subseteq used
                                /\ g # h => PagesOf(g) \cap PagesOf(h) = {}
        /\ \A c \in Cores : Reserved(c) =>
             /\ PagesOf(call[c]) \subseteq used
             /\ \A g \in grants : PagesOf(call[c]) \cap PagesOf(g) = {}
    BY <2>a DEF GrantInv, GrantsDisjoint
  <2> HIDE DEF P
  <2>1. ASSUME NEW c \in Cores, used' = used, grants' \subseteq grants,
               Reserved(c)' => Reserved(c) /\ call'[c] = call[c],
               \A d \in Cores \ {c} : pc'[d] = pc[d] /\ call'[d] = call[d]
        PROVE  P
    BY <2>1, <2>b DEF P, GrantsDisjoint, Reserved, PagesOf
  <2>2. ASSUME NEW c \in Cores, CallAllocate(c) \/ CallDeallocate(c) \/ Acquire(c)
        PROVE  P
    <3>1. pc[c] = "lock" => call[c].op \in {"alloc", "free"}
      BY <2>0, AskedCalls DEF LockInv, Asked
    <3> QED
      BY <2>0, <2>1, <2>2, <3>1 DEF CallAllocate, CallDeallocate, Acquire,
                                    Goto, Reserved
  <2>3. ASSUME NEW c \in Cores, Map(c) \/ Unmap(c) PROVE P
    <3>1. /\ UNCHANGED <<used, grants, call>>
          /\ \A d \in Cores \ {c} : pc'[d] = pc[d]
          /\ pc'[c] \in {"map", "unmap", "unlock"}
          /\ pc[c] = "map" \/ (pc[c] = "unmap" /\ pc'[c] # "map")
      BY <2>0, <2>3 DEF Map, Unmap, Goto
    <3>2. pc[c] = "unmap" => call[c].op = "free"
      BY DEF LockInv
    <3> QED
      BY <2>1, <3>1, <3>2 DEF Reserved
  <2>4. ASSUME NEW c \in Cores, Reserve(c) PROVE P
    <3> DEFINE n == PageCount(call[c].bytes)
    <3>0. /\ call[c] \in Asked /\ n \in Nat /\ pc[c] = "alloc" /\ grants' = grants
          /\ owner = c
      BY <2>0, <2>4, AskedCalls, WholePages DEF LockInv, Reserve
    <3>a. \A d \in Cores \ {c} : pc'[d] = pc[d] /\ call'[d] = call[d]
      BY <2>0, <2>4 DEF Reserve, Return, Goto
    <3>1. ASSUME NEW b \in Bits, b \in RunEnds(n),
                 used' = used \cup Visited(b + 1 - n, n),
                 call'[c].page = b + 1 - n, call'[c].bytes = call[c].bytes
          PROVE  P
      <4>1. /\ Visited(b + 1 - n, n) = b + 1 - n .. b
            /\ (b + 1 - n .. b) \cap used = {}
        BY <3>0, <3>1, RunFound
      <4>2. PagesOf(call[c])' = b + 1 - n .. b
        BY <3>0, <3>1 DEF PagesOf, Bits
      <4>3. \A d \in Cores \ {c} : ~Reserved(d)'
        BY <3>0, <3>a DEF LockInv, Reserved
      <4>4. \A g \in grants' : /\ PagesOf(g) \subseteq used'
                               /\ PagesOf(call[c])' \cap PagesOf(g) = {}
        BY <2>b, <3>0, <3>1, <4>1, <4>2
      <4>5. GrantsDisjoint'
        BY <2>b, <3>0, <4>4 DEF GrantsDisjoint, PagesOf
      <4>6. PagesOf(call[c])' \subseteq used'
        BY <3>1, <4>1, <4>2
      <4> QED
        BY <4>3, <4>4, <4>5, <4>6 DEF P
    <3>2. ASSUME call'[c] = NoCall, pc'[c] \in {"idle", "unlock"},
                 used \subseteq used'
          PROVE  P
      <4>1. ~Reserved(c)' /\ \A d \in Cores \ {c} : ~Reserved(d)'
        BY <3>0, <3>2, <3>a, AskedCalls DEF Reserved, LockInv
      <4>2. GrantsDisjoint'
        BY <2>b, <3>0, <3>2 DEF GrantsDisjoint, PagesOf
      <4> QED
        BY <4>1, <4>2 DEF P
    <3> HIDE DEF n
    <3>3. CASE RunEnds(n) = {} /\ Return(c) /\ Goto(c, "unlock") /\ used' = used
      BY <2>0, <3>2, <3>3 DEF Return, Goto
    <3>4. ASSUME NEW b \in Bits, First(b, RunEnds(n)),
                 used' = used \cup Visited(b + 1 - n, n),
                 \/ call' = [call EXCEPT ![c].page = b + 1 - n]
                 \/ Return(c) /\ Goto(c, "idle")
          PROVE  P
      <4>1. CASE call' = [call EXCEPT ![c].page = b + 1 - n]
        <5>1. call'[c].page = b + 1 - n /\ call'[c].bytes = call[c].bytes
          BY <2>0, <3>0, <4>1 DEF Asked
        <5> QED
          BY <3>1, <3>4, <5>1 DEF First
      <4>2. CASE Return(c) /\ Goto(c, "idle")
        BY <2>0, <3>2, <3>4, <4>2 DEF Return, Goto
      <4> QED
        BY <3>4, <4>1, <4>2
    <3> QED
      BY <2>4, <3>3, <3>4 DEF Reserve, n
  <2>5. ASSUME NEW c \in Cores, Release(c) PROVE P
    <3>1. /\ used' = used /\ pc[c] = "unlock" /\ pc'[c] = "idle" /\ owner = c
          /\ \A d \in Cores \ {c} : pc'[d] = pc[d] /\ call'[d] = call[d]
      BY <2>0, <2>5 DEF Release, Goto, Return, LockInv
    <3>2. \A d \in Cores : ~Reserved(d)'
      BY <3>1 DEF LockInv, Reserved
    <3>3. CASE call[c].op = "alloc"
      <4> DEFINE g == [page |-> call[c].page, bytes |-> call[c].bytes]
      <4>1. grants' = grants \cup {g} /\ PagesOf(g) = PagesOf(call[c])
        BY <2>5, <3>3 DEF Release, PagesOf
      <4>2. /\ PagesOf(g) \subseteq used
            /\ \A h \in grants : PagesOf(g) \cap PagesOf(h) = {}
        BY <2>b, <3>1, <3>3, <4>1 DEF Reserved
      <4> HIDE DEF g
      <4>3. GrantsDisjoint'
        BY <2>b, <3>1, <4>1, <4>2 DEF GrantsDisjoint, PagesOf
      <4> QED
        BY <3>2, <4>3 DEF P
    <3>4. CASE call[c].op # "alloc"
      <4>1. grants' = grants
        BY <2>5, <3>4 DEF Release
      <4> QED
        BY <2>b, <3>1, <3>2, <4>1 DEF P, GrantsDisjoint, PagesOf
    <3> QED
      BY <3>3, <3>4
  <2>6. ASSUME NEW c \in Cores, Unreserve(c) PROVE P
    BY <2>6 DEF Unreserve
  <2>7. CASE UNCHANGED vars
    BY <2>7, <2>b DEF vars, P, GrantsDisjoint, Reserved, PagesOf
  <2> QED
    BY <2>2, <2>3, <2>4, <2>5, <2>6, <2>7 DEF Next, P
<1>3. GrantInv => GrantsDisjoint
  BY DEF GrantInv, GrantsDisjoint
<1> QED
  BY <1>1, <1>2, <1>3, OneAtATime, PTL DEF Spec

-----------------------------------------------------------------------------
(***************************************************************************)
(* The console.                                                            *)
(***************************************************************************)
\* Where a terminal may be after some characters, and the cells it has written.
Positions == [x : 0..X, y : 0..(Rows - 1), cells : SUBSET (0..(Rows * X))]

Printing == {"set", "add_string", "add_to_terminal", "adding", "writing"}

ConsoleTypes ==
    /\ params \in [string : Seq({"char", "newline"}), newIndex : Terminals]
    /\ current_terminal_index \in Terminals
    /\ terminals \in [Terminals -> [x : 0..X, y : 0..(Rows - 1), texts : Nat]]
    /\ actor \in [Actors -> [at : Printing \cup {"idle", "chosen"}, index : Terminals]]
    /\ raced \in BOOLEAN /\ clashed \in BOOLEAN
    /\ damage \subseteq Terminals \X Terminals

\* Unless params or the index were changed under somebody, one prints at a time,
\* params are what it has set, and its test of the index is still right.
OnePrints ==
    ~raced => \A a \in Actors : actor[a].at \in Printing =>
        /\ params.newIndex = actor[a].index /\ actor[a].index \in Printed
        /\ actor[a].at \in {"add_string", "adding"} => actor[a].index = current_terminal_index
        /\ actor[a].at \in {"add_to_terminal", "writing"} =>
             actor[a].index # current_terminal_index
        /\ \A b \in Actors \ {a} : actor[b].at = "idle"

ScreenRight ==
    ~raced => video = Shown(current_terminal_index, terminals[current_terminal_index])

\* Until two put texts to one terminal at once, terminal 0 overwrites no blocks but
\* those of terminal 1, which is never shown.
Neighbour == /\ ~clashed => /\ current_terminal_index # 1
                            /\ \A d \in damage : d[1] = 0 => d[2] = 1
             /\ OverrunHarmless

ConsoleInv == ConsoleTypes /\ OnePrints /\ ScreenRight /\ Neighbour

--------------------------------------------------------------------------------
\* A set of numbers that is not empty has a least one.
LEMMA LeastOf ==
  ASSUME NEW S \in SUBSET Nat, S # {}
  PROVE  \E k \in S : \A l \in S : k <= l
<1> DEFINE R == OpToRel(<, Nat)
<1>1. IsWellFoundedOn(R, Nat)
  BY NatLessThanWellFounded, Zenon
<1>2. \A k, l \in Nat : <<k, l>> \in R <=> k < l
  BY DEF OpToRel
<1> HIDE DEF R
<1>3. PICK k \in S : \A l \in S : ~(<<l, k>> \in R)
  BY <1>1, WFMin
<1>4. ASSUME NEW l \in S PROVE k <= l
  <2>1. k \in Nat /\ l \in Nat
    OBVIOUS
  <2>2. ~(l < k)
    BY <1>2, <1>3, <2>1, Zenon
  <2> QED
    BY <2>1, <2>2
<1> QED
  BY <1>4

\* A character more stays within Rows rows of X + 1 cells.
LEMMA PutOne ==
  ASSUME NEW p \in Positions, NEW c
  PROVE  terminal_putCharacterAndAdvanceString(p, c) \in Positions
  <1>1. /\ X \in Nat /\ 0 < X /\ Rows \in Nat /\ 0 < Rows
        /\ p.x \in 0..X /\ p.y \in 0..(Rows - 1) /\ p.cells \subseteq 0..(Rows * X)
    BY ConsoleAssumption DEF Positions
  <1>2. /\ Rows * X \in Nat /\ p.y * X \in Nat /\ (Rows - 1) * X = Rows * X - X
        /\ p.y * X <= (Rows - 1) * X
    BY <1>1, SMT
  <1>3. p.y * X + p.x \in 0..(Rows * X) /\ 0..(Rows * X - 1) \subseteq 0..(Rows * X)
    BY <1>1, <1>2
  <1>4. ASSUME NEW r \in Positions PROVE NextRow(r) \in Positions
    <2>1. r.y \in 0..(Rows - 1) /\ r.cells \cup 0..(Rows * X - 1) \in SUBSET (0..(Rows * X))
      BY <1>3 DEF Positions
    <2>2. 0 \in 0..X /\ (r.y < Rows - 1 => r.y + 1 \in 0..(Rows - 1))
      BY <1>1, <2>1
    <2>3. r.y < Rows - 1 => [r EXCEPT !.x = 0, !.y = r.y + 1] \in Positions
      BY <2>2 DEF Positions
    <2>4. [r EXCEPT !.x = 0, !.cells = r.cells \cup 0..(Rows * X - 1)] \in Positions
      BY <2>1, <2>2 DEF Positions
    <2>. QED
      BY <2>3, <2>4 DEF NextRow
  <1> DEFINE q == [p EXCEPT !.cells = p.cells \cup {p.y * X + p.x}]
  <1>5. q \in Positions /\ q.x = p.x
    BY <1>1, <1>3 DEF Positions
  <1>6. p.x < X => p.x + 1 \in 0..X
    BY <1>1
  <1>7. p.x < X => [q EXCEPT !.x = p.x + 1] \in Positions
    <2> HIDE DEF q
    <2>. QED
      BY <1>5, <1>6 DEF Positions
  <1>. QED
    BY <1>4, <1>5, <1>7 DEF terminal_putCharacterAndAdvanceString

\* g holds the positions after each of the first m characters of s, from p.
PutRun(g, p, s, m) ==
  g = [n \in 0..m |->
         IF n = 0 THEN p ELSE terminal_putCharacterAndAdvanceString(g[n - 1], s[n])]

\* The recursion of terminal_putString is well defined: the positions after the
\* first m characters, one from the other, for every m up to the length.
LEMMA PutDefined ==
  ASSUME NEW s \in Seq({"char", "newline"}), NEW p
  PROVE  \E g : PutRun(g, p, s, Len(s))
  <1> DEFINE put(q, c) == terminal_putCharacterAndAdvanceString(q, c)
             D(m, g) == PutRun(g, p, s, m)
             Bad == {m \in 0..Len(s) : ~ \E g : D(m, g)}
  <1>1. Len(s) \in Nat
    OBVIOUS
  <1>2. SUFFICES Bad = {}
    BY <1>1
  <1>3. SUFFICES ASSUME Bad # {} PROVE FALSE
    OBVIOUS
  <1>4. PICK m \in Bad : \A l \in Bad : m <= l
    <2>1. Bad \in SUBSET Nat
      BY <1>1
    <2>. QED
      BY <1>3, <2>1, LeastOf
  <1>5. m \in 0..Len(s) /\ ~ \E g : D(m, g)
    BY <1>4
  <1>6. CASE m = 0
    <2> DEFINE g == [n \in 0..0 |-> p]
    <2>1. D(0, g)
      BY DEF PutRun
    <2>. QED
      BY <2>1, <1>5, <1>6
  <1>7. CASE m > 0
    <2>1. m - 1 \in 0..Len(s) /\ ~(m <= m - 1)
      BY <1>1, <1>5, <1>7
    <2>2. PICK g : D(m - 1, g)
      BY <2>1, <1>4
    <2> DEFINE h == [n \in 0..m |-> IF n = m THEN put(g[m - 1], s[m]) ELSE g[n]]
    <2> HIDE DEF put
    <2>3. ASSUME NEW n \in 0..m
          PROVE  h[n] = IF n = 0 THEN p ELSE put(h[n - 1], s[n])
      <3>1. n \in Nat /\ m \in Nat
        BY <1>1, <1>5
      <3>2. CASE n = m
        BY <3>1, <3>2, <1>7
      <3>3. CASE n # m
        <4>1. n \in 0..(m - 1) /\ (n # 0 => n - 1 \in 0..m /\ n - 1 # m)
          BY <3>1, <3>3
        <4>2. g[n] = IF n = 0 THEN p ELSE put(g[n - 1], s[n])
          BY <2>2, <4>1 DEF PutRun, put
        <4>3. h[n] = g[n] /\ (n # 0 => h[n - 1] = g[n - 1])
          BY <3>3, <4>1
        <4>. QED
          BY <4>2, <4>3
      <3>. QED
        BY <3>2, <3>3
    <2>4. D(m, h)
      BY <2>3 DEF PutRun, put
    <2>. QED
      BY <2>4, <1>5
  <1>. QED
    BY <1>1, <1>5, <1>6, <1>7

\* What terminal_putString writes, from any position and for any text.
LEMMA PutInside ==
  ASSUME NEW t \in Terminals, NEW s \in Seq({"char", "newline"}), ConsoleTypes
  PROVE  terminal_putString(t, s) \in Positions
  <1> DEFINE put(q, c) == terminal_putCharacterAndAdvanceString(q, c)
             p == [x |-> terminals[t].x, y |-> terminals[t].y, cells |-> {}]
             f == CHOOSE g : PutRun(g, p, s, Len(s))
             Bad == {m \in 0..Len(s) : f[m] \notin Positions}
  <1>1. Len(s) \in Nat
    OBVIOUS
  <1>2. p \in Positions
    BY DEF ConsoleTypes, Positions
  <1>3. terminal_putString(t, s) = f[Len(s)]
    BY Zenon DEF terminal_putString, PutRun
  <1>4. f = [n \in 0..Len(s) |-> IF n = 0 THEN p ELSE put(f[n - 1], s[n])]
    <2>1. \E g : PutRun(g, p, s, Len(s))
      BY PutDefined
    <2>2. PutRun(f, p, s, Len(s))
      BY <2>1, Zenon
    <2>. QED
      BY <2>2, Zenon DEF PutRun
  <1> HIDE DEF f, p, put
  <1>5. Bad = {}
    <2> SUFFICES ASSUME Bad # {} PROVE FALSE
      OBVIOUS
    <2>1. Bad \in SUBSET Nat
      BY <1>1
    <2>2. PICK m \in Bad : \A l \in Bad : m <= l
      BY <2>1, LeastOf
    <2>3. m \in 0..Len(s) /\ m \in Nat /\ f[m] \notin Positions
      BY <1>1
    <2>4. m # 0
      BY <2>3, <1>2, <1>4
    <2>5. m - 1 \in 0..Len(s) /\ ~(m <= m - 1)
      BY <2>3, <2>4, <1>1
    <2>6. f[m - 1] \in Positions
      BY <2>2, <2>5
    <2>7. f[m] = put(f[m - 1], s[m])
      BY <2>3, <2>4, <1>4
    <2>. QED
      BY <2>3, <2>6, <2>7, PutOne DEF put
  <1>. QED
    BY <1>1, <1>3, <1>5
\* The cells that terminal 0 can write lie in its own blocks and those of the
\* next terminal: it has twice the rows its buffer has room for, and no more.
LEMMA VictimOfZero ==
  ASSUME NEW cells \in SUBSET (0..(Rows * X)), NEW v \in Victims(0, cells)
  PROVE  v = 1
  <1>1. /\ X \in Nat /\ Y \in Nat /\ Rows \in Nat /\ Struct \in Nat /\ 0 < Struct
        /\ Rows <= 2 * Y
    BY ConsoleAssumption
  <1>2. X * Y \in Nat /\ Rows * X \in Nat /\ Rows * X <= (2 * Y) * X
    BY <1>1, SMT
  <1>3. (2 * Y) * X = X * Y + X * Y
    BY <1>1, SMT
  <1> DEFINE K == Struct + X * Y
  <1>4. PICK c \in cells : Buffer(0) + c \in Block(v)
    BY DEF Victims
  <1>5. v \in {1, 2, 3, 4}
    BY DEF Victims, Terminals, Count
  <1>6. Buffer(0) = Struct
    BY <1>1, <1>2 DEF Buffer
  <1>7. c \in Nat /\ Struct + c < K + K
    BY <1>1, <1>2, <1>3
  <1>8. v * K <= Struct + c
    <2>1. Struct + c \in (v * K)..(v * K + Struct + X * Y - 1)
      BY <1>4, <1>6 DEF Block
    <2>2. v * K \in Nat
      BY <1>1, <1>2, <1>5
    <2>. QED
      BY <2>1, <2>2, <1>1, <1>2, <1>7
  <1>9. K \in Nat
    BY <1>1, <1>2
  <1> HIDE DEF K
  <1>. QED
    BY <1>1, <1>5, <1>7, <1>8, <1>9

\* Putting a text to a terminal changes that terminal only.
LEMMA PutToKeeps ==
  ASSUME ConsoleInv, ~clashed, NEW t \in Terminals, PutTo(t)
  PROVE  /\ terminals' \in [Terminals -> [x : 0..X, y : 0..(Rows - 1), texts : Nat]]
         /\ \A u \in Terminals \ {t} : terminals'[u] = terminals[u]
         /\ damage' \subseteq Terminals \X Terminals
         /\ \A d \in damage' : d[1] = 0 => d[2] = 1
         /\ \A e \in struck' : e \in struck \/ (e.how = "written" /\ (e.writer = 0 => t = 1))
  <1>0. ConsoleTypes /\ Neighbour
    BY DEF ConsoleInv
  <1>a. PICK s \in IF raced THEN Texts ELSE {params.string} :
          LET p == terminal_putString(t, s)
          IN  /\ terminals' = [terminals EXCEPT ![t] =
                                  [x |-> p.x, y |-> p.y, texts |-> @.texts + 1]]
              /\ damage' = damage \cup {<<t, v>> : v \in Victims(t, p.cells)}
              /\ Use(t, "written")
    BY DEF PutTo
  <1>b. s \in Seq({"char", "newline"})
    BY <1>0, ConsoleAssumption DEF ConsoleTypes
  <1> DEFINE p == terminal_putString(t, s)
  <1>1. p \in Positions
    BY <1>0, <1>b, PutInside DEF ConsoleTypes
  <1>2. /\ terminals' = [terminals EXCEPT ![t] =
                            [x |-> p.x, y |-> p.y, texts |-> @.texts + 1]]
        /\ damage' = damage \cup {<<t, v>> : v \in Victims(t, p.cells)}
        /\ struck' = struck \cup {[how |-> "written", writer |-> d[1]] :
                                      d \in {e \in damage : e[2] = t}}
    BY <1>a DEF Use
  <1> HIDE DEF p
  <1>3. p.x \in 0..X /\ p.y \in 0..(Rows - 1) /\ p.cells \in SUBSET (0..(Rows * X))
    BY <1>1 DEF Positions
  <1>4. /\ terminals' \in [Terminals -> [x : 0..X, y : 0..(Rows - 1), texts : Nat]]
        /\ \A u \in Terminals \ {t} : terminals'[u] = terminals[u]
    BY <1>0, <1>2, <1>3 DEF ConsoleTypes
  <1>5. damage' \subseteq Terminals \X Terminals
    BY <1>0, <1>2 DEF ConsoleTypes, Victims
  <1>6. ASSUME NEW d \in damage', d[1] = 0 PROVE d[2] = 1
    <2>1. CASE d \in damage
      BY <2>1, <1>0, <1>6 DEF Neighbour
    <2>2. CASE d \notin damage
      <3>1. PICK v \in Victims(t, p.cells) : d = <<t, v>>
        BY <2>2, <1>2
      <3>2. t = 0
        BY <3>1, <1>6
      <3>. QED
        BY <3>1, <3>2, <1>3, VictimOfZero
    <2>. QED
      BY <2>1, <2>2
  <1>7. ASSUME NEW e \in struck', e \notin struck
        PROVE  e.how = "written" /\ (e.writer = 0 => t = 1)
    <2>1. PICK d \in damage : d[2] = t /\ e = [how |-> "written", writer |-> d[1]]
      BY <1>2, <1>7
    <2>. QED
      BY <2>1, <1>0 DEF Neighbour
  <1>. QED
    BY <1>4, <1>5, <1>6, <1>7

\* The invariant holds when the console has been set up, ...
LEMMA ConsoleInvInit == console_preInialize => ConsoleInv
  <1> SUFFICES ASSUME console_preInialize PROVE ConsoleInv
    OBVIOUS
  <1>1. 0 \in Terminals /\ 0 # 1 /\ <<>> \in Seq({"char", "newline"})
    BY DEF Terminals, Count
  <1>2. 0 \in 0..X /\ 0 \in 0..(Rows - 1)
    BY ConsoleAssumption
  <1>3. ConsoleTypes
    BY <1>1, <1>2 DEF console_preInialize, ConsoleTypes, terminal_initialize,
                      Idle, Printing
  <1>4. OnePrints /\ ScreenRight
    BY <1>1 DEF console_preInialize, OnePrints, ScreenRight, Idle, Printing
  <1>5. Neighbour
    BY DEF console_preInialize, Neighbour, OverrunHarmless
  <1>. QED
    BY <1>3, <1>4, <1>5 DEF ConsoleInv

\* ... printk's first step, by a core or the keyboard's handler, preserves it, ...
LEMMA FillKeeps ==
  ASSUME ConsoleInv, NEW a \in Actors, NEW t \in Printed, Fill(a, t)
  PROVE  ConsoleInv'
  <1>0. ConsoleTypes /\ OnePrints /\ ScreenRight /\ Neighbour /\ t \in Terminals
    BY DEF ConsoleInv, Printed, Terminals, Count
  <1>1. PICK s \in Texts : /\ params' = [string |-> s, newIndex |-> t]
                           /\ actor' = [actor EXCEPT ![a] = [at |-> "set", index |-> t]]
    BY DEF Fill
  <1>2. /\ raced' = (raced \/ \E b \in Actors \ {a} : actor[b].at # "idle")
        /\ UNCHANGED <<current_terminal_index, terminals, video, damage, struck, clashed>>
    BY DEF Fill, Disturbs
  <1>3. s \in Seq({"char", "newline"})
    BY ConsoleAssumption
  <1>4. ConsoleTypes'
    BY <1>0, <1>1, <1>2, <1>3 DEF ConsoleTypes, Printing
  <1>5. OnePrints'
    <2> SUFFICES ASSUME ~raced'
                 PROVE  /\ params'.newIndex = t /\ actor'[a] = [at |-> "set", index |-> t]
                        /\ \A b \in Actors \ {a} : actor'[b].at = "idle"
      BY DEF OnePrints, Printing
    <2>1. \A b \in Actors \ {a} : actor[b].at = "idle"
      BY <1>2, Zenon
    <2>2. params'.newIndex = t /\ actor'[a] = [at |-> "set", index |-> t]
      BY <1>0, <1>1 DEF ConsoleTypes
    <2>3. \A b \in Actors \ {a} : actor'[b] = actor[b]
      BY <1>0, <1>1 DEF ConsoleTypes
    <2>. QED
      BY <2>1, <2>2, <2>3
  <1>6. ScreenRight' /\ Neighbour'
    BY <1>0, <1>2 DEF ScreenRight, Neighbour, OverrunHarmless, Shown,
                      terminal_getViewPort
  <1>. QED
    BY <1>4, <1>5, <1>6 DEF ConsoleInv
\* ... so does its test of the index, ...
LEMMA TestKeeps ==
  ASSUME ConsoleInv, NEW a \in Actors, Test(a)
  PROVE  ConsoleInv'
  <1>0. ConsoleTypes /\ OnePrints /\ ScreenRight /\ Neighbour
    BY DEF ConsoleInv
  <1>1. PICK i \in {params.newIndex, actor[a].index} :
          actor' = [actor EXCEPT ![a].at = IF i = current_terminal_index
                                           THEN "add_string" ELSE "add_to_terminal"]
    BY DEF Test
  <1>2. /\ UNCHANGED <<params, current_terminal_index, terminals, video, damage, struck,
                        raced, clashed>>
        /\ actor[a].at = "set"
    BY DEF Test, Runs, histories
  <1>3. ConsoleTypes'
    BY <1>0, <1>1, <1>2 DEF ConsoleTypes, Printing
  <1>4. OnePrints'
    <2>0. SUFFICES ASSUME ~raced PROVE OnePrints'
      BY <1>2 DEF OnePrints
    <2>1. /\ i = actor[a].index /\ params.newIndex = actor[a].index
          /\ actor[a].index \in Printed /\ \A b \in Actors \ {a} : actor[b].at = "idle"
      BY <1>0, <1>2, <2>0 DEF OnePrints, Printing
    <2>2. \A b \in Actors \ {a} : actor'[b].at = "idle"
      BY <2>1, <1>0, <1>1 DEF ConsoleTypes
    <2>3. /\ actor'[a].index = actor[a].index
          /\ \/ actor'[a].at = "add_string" /\ actor[a].index = current_terminal_index
             \/ actor'[a].at = "add_to_terminal" /\ actor[a].index # current_terminal_index
      BY <2>1, <1>0, <1>1 DEF ConsoleTypes
    <2>. QED
      BY <2>1, <2>2, <2>3, <1>2 DEF OnePrints, Printing
  <1>5. ScreenRight' /\ Neighbour'
    BY <1>0, <1>2 DEF ScreenRight, Neighbour, OverrunHarmless, Shown,
                      terminal_getViewPort
  <1>. QED
    BY <1>3, <1>4, <1>5 DEF ConsoleInv

\* ... the terminal it finds, ...
LEMMA FindKeeps ==
  ASSUME ConsoleInv, NEW a \in Actors, NEW from, NEW to, NEW t,
         \/ from = "add_string" /\ to = "adding" /\ t = current_terminal_index
         \/ from = "add_to_terminal" /\ to = "writing" /\ t = params.newIndex,
         Find(a, from, to, t)
  PROVE  ConsoleInv'
  <1>0. ConsoleTypes /\ OnePrints /\ ScreenRight /\ Neighbour
    BY DEF ConsoleInv
  <1>1. /\ actor' = [actor EXCEPT ![a] = [at |-> to, index |-> t]]
        /\ UNCHANGED <<params, current_terminal_index, terminals, video, damage, struck, raced>>
        /\ actor[a].at = from /\ struck = {} /\ ~clashed
    BY DEF Find, Runs, Sound
  <1>2. clashed' \in BOOLEAN
    <2>1. clashed' = \E b \in Actors \ {a} : actor[b].at \in Putting /\ actor[b].index = t
      BY DEF Find
    <2>. QED
      BY <2>1, Zenon
  <1>3. t \in Terminals /\ from \in Printing /\ to \in Printing
    BY <1>0 DEF ConsoleTypes, Printing
  <1>4. ConsoleTypes'
    BY <1>0, <1>1, <1>2, <1>3 DEF ConsoleTypes
  <1>5. OnePrints'
    <2>0. SUFFICES ASSUME ~raced PROVE OnePrints'
      BY <1>1 DEF OnePrints
    <2>1. /\ params.newIndex = actor[a].index /\ actor[a].index \in Printed
          /\ from = "add_string" => actor[a].index = current_terminal_index
          /\ from = "add_to_terminal" => actor[a].index # current_terminal_index
          /\ \A b \in Actors \ {a} : actor[b].at = "idle"
      BY <1>0, <1>1, <1>3, <2>0 DEF OnePrints
    <2>2. \A b \in Actors \ {a} : actor'[b].at = "idle"
      BY <2>1, <1>0, <1>1 DEF ConsoleTypes
    <2>3. actor'[a].index = actor[a].index /\ actor'[a].at = to
      BY <2>1, <1>0, <1>1 DEF ConsoleTypes
    <2>. QED
      BY <2>1, <2>2, <2>3, <1>1 DEF OnePrints, Printing
  <1>6. ScreenRight'
    BY <1>0, <1>1 DEF ScreenRight, Shown, terminal_getViewPort
  <1>7. Neighbour'
    BY <1>0, <1>1 DEF Neighbour, OverrunHarmless
  <1>. QED
    BY <1>4, <1>5, <1>6, <1>7 DEF ConsoleInv

\* ... the text it puts there, ...
LEMMA PutKeeps ==
  ASSUME ConsoleInv, NEW a \in Actors, Put(a)
  PROVE  ConsoleInv'
  <1>0. ConsoleTypes /\ OnePrints /\ ScreenRight /\ Neighbour
    BY DEF ConsoleInv
  <1> DEFINE shown == actor[a].at = "adding"
             t == actor[a].index
  <1>1. /\ PutTo(t) /\ struck = {} /\ actor[a].at \in {"adding", "writing"}
        /\ shown => video' = Shown(t, terminals'[t])
        /\ ~shown => video' = video
        /\ ~clashed
    BY DEF Put, Runs, Sound, console_addStringToCurrentTerminal,
           console_writeToTerminal
  <1>2. /\ actor' = [actor EXCEPT ![a] = Idle]
        /\ params' = params /\ raced' = raced /\ clashed' = clashed
        /\ current_terminal_index' = current_terminal_index
    BY DEF Put
  <1>3. t \in Terminals
    BY <1>0 DEF ConsoleTypes
  <1>4. /\ terminals' \in [Terminals -> [x : 0..X, y : 0..(Rows - 1), texts : Nat]]
        /\ \A u \in Terminals \ {t} : terminals'[u] = terminals[u]
        /\ damage' \subseteq Terminals \X Terminals
        /\ \A d \in damage' : d[1] = 0 => d[2] = 1
        /\ \A e \in struck' : e.how = "written" /\ (e.writer = 0 => t = 1)
    BY <1>1, <1>3, PutToKeeps
  <1>5. Idle.at = "idle" /\ Idle.index = 0 /\ Idle = [at |-> "idle", index |-> 0]
    BY DEF Idle
  <1>6. ~raced => /\ shown => t = current_terminal_index
                  /\ ~shown => t # current_terminal_index
                  /\ t # 1
                  /\ \A b \in Actors : actor'[b].at = "idle"
    <2> SUFFICES ASSUME ~raced
                 PROVE  /\ shown => t = current_terminal_index
                        /\ ~shown => t # current_terminal_index
                        /\ t # 1
                        /\ \A b \in Actors : actor'[b].at = "idle"
      OBVIOUS
    <2>1. /\ actor[a].index \in Printed
          /\ actor[a].at = "adding" => actor[a].index = current_terminal_index
          /\ actor[a].at = "writing" => actor[a].index # current_terminal_index
          /\ \A b \in Actors \ {a} : actor[b].at = "idle"
      BY <1>0, <1>1 DEF OnePrints, Printing
    <2>2. /\ shown => t = current_terminal_index
          /\ ~shown => t # current_terminal_index
      BY <2>1, <1>1
    <2>3. t # 1
      BY <2>1 DEF Printed
    <2>4. \A b \in Actors : actor'[b].at = "idle"
      BY <2>1, <1>0, <1>2, <1>5 DEF ConsoleTypes
    <2>. QED
      BY <2>2, <2>3, <2>4
  <1> HIDE DEF shown, t
  <1>7. ConsoleTypes'
    <2>1. 0 \in Terminals
      BY DEF Terminals, Count
    <2>. QED
      BY <2>1, <1>0, <1>2, <1>4, <1>5 DEF ConsoleTypes
  <1>8. OnePrints'
    BY <1>2, <1>6 DEF OnePrints, Printing
  <1>9. ScreenRight'
    <2>0. SUFFICES ASSUME ~raced
                   PROVE  video' = Shown(current_terminal_index,
                                         terminals'[current_terminal_index])
      BY <1>2 DEF ScreenRight, Shown, terminal_getViewPort
    <2>1. CASE shown
      BY <2>0, <2>1, <1>1, <1>6
    <2>2. CASE ~shown
      <3>1. terminals'[current_terminal_index] = terminals[current_terminal_index]
        BY <2>0, <2>2, <1>0, <1>4, <1>6 DEF ConsoleTypes
      <3>2. video = Shown(current_terminal_index, terminals[current_terminal_index])
        BY <2>0, <1>0 DEF ScreenRight
      <3>. QED
        BY <3>1, <3>2, <2>2, <1>1
    <2>. QED
      BY <2>1, <2>2
  <1>10. Neighbour'
    BY <1>0, <1>1, <1>2, <1>4, <1>6 DEF Neighbour, OverrunHarmless
  <1>. QED
    BY <1>7, <1>8, <1>9, <1>10 DEF ConsoleInv

\* ... the choice of another terminal ...
LEMMA ChooseKeeps ==
  ASSUME ConsoleInv, NEW i \in Terminals, Choose(i)
  PROVE  ConsoleInv'
  <1>0. ConsoleTypes /\ OnePrints /\ ScreenRight /\ Neighbour /\ Keyboard \in Actors
    BY DEF ConsoleInv, Actors
  <1>1. /\ params' = [params EXCEPT !.newIndex = i]
        /\ actor' = [actor EXCEPT ![Keyboard].at = "chosen"]
        /\ raced' = (raced \/ \E b \in Actors \ {Keyboard} : actor[b].at # "idle")
        /\ UNCHANGED <<current_terminal_index, terminals, video, damage, struck, clashed>>
    BY DEF Choose, Disturbs
  <1>2. ConsoleTypes'
    BY <1>0, <1>1 DEF ConsoleTypes
  <1>3. OnePrints'
    <2> SUFFICES ASSUME ~raced', NEW a \in Actors PROVE actor'[a].at \notin Printing
      BY DEF OnePrints
    <2>1. CASE a = Keyboard
      BY <2>1, <1>0, <1>1 DEF ConsoleTypes, Printing
    <2>2. CASE a # Keyboard
      <3>1. actor[a].at = "idle"
        BY <2>2, <1>1, Zenon
      <3>2. actor'[a] = actor[a]
        BY <2>2, <1>0, <1>1 DEF ConsoleTypes
      <3>. QED
        BY <3>1, <3>2 DEF Printing
    <2>. QED
      BY <2>1, <2>2
  <1>4. ScreenRight' /\ Neighbour'
    BY <1>0, <1>1 DEF ScreenRight, Neighbour, OverrunHarmless, Shown,
                      terminal_getViewPort
  <1>. QED
    BY <1>2, <1>3, <1>4 DEF ConsoleInv

\* ... and the switch to it.
LEMMA SwitchKeeps ==
  ASSUME ConsoleInv, Switch
  PROVE  ConsoleInv'
  <1>0. ConsoleTypes /\ OnePrints /\ ScreenRight /\ Neighbour /\ Keyboard \in Actors
    BY DEF ConsoleInv, Actors
  <1> DEFINE t == IF params.newIndex = 1 THEN 2 ELSE params.newIndex
  <1>1. /\ current_terminal_index' = t /\ video' = Shown(t, terminals[t])
        /\ struck = {} /\ ~clashed
        /\ struck' = struck \cup {[how |-> "shown", writer |-> d[1]] :
                                      d \in {e \in damage : e[2] = t}}
        /\ actor' = [actor EXCEPT ![Keyboard] = Idle]
        /\ raced' = (raced \/ \E b \in Actors \ {Keyboard} : actor[b].at # "idle")
        /\ UNCHANGED <<params, terminals, damage, clashed>>
    BY DEF Switch, Runs, Sound, console_switchTerminal, Disturbs, Use
  <1>2. t \in Terminals /\ t # 1
    BY <1>0 DEF ConsoleTypes, Terminals, Count
  <1>3. Idle = [at |-> "idle", index |-> 0] /\ 0 \in Terminals
    BY DEF Idle, Terminals, Count
  <1> HIDE DEF t
  <1>4. ConsoleTypes'
    BY <1>0, <1>1, <1>2, <1>3 DEF ConsoleTypes
  <1>5. OnePrints'
    <2> SUFFICES ASSUME ~raced', NEW a \in Actors PROVE actor'[a].at \notin Printing
      BY DEF OnePrints
    <2>1. CASE a = Keyboard
      BY <2>1, <1>0, <1>1, <1>3 DEF ConsoleTypes, Printing
    <2>2. CASE a # Keyboard
      <3>1. actor[a].at = "idle"
        BY <2>2, <1>1, Zenon
      <3>2. actor'[a] = actor[a]
        BY <2>2, <1>0, <1>1 DEF ConsoleTypes
      <3>. QED
        BY <3>1, <3>2 DEF Printing
    <2>. QED
      BY <2>1, <2>2
  <1>6. ScreenRight'
    BY <1>1 DEF ScreenRight, Shown, terminal_getViewPort
  <1>7. ASSUME NEW e \in struck' PROVE e.writer # 0
    <2>1. PICK d \in damage : d[2] = t /\ e = [how |-> "shown", writer |-> d[1]]
      BY <1>1
    <2>. QED
      BY <2>1, <1>0, <1>1, <1>2 DEF Neighbour
  <1>8. Neighbour'
    BY <1>0, <1>1, <1>2, <1>7 DEF Neighbour, OverrunHarmless
  <1>. QED
    BY <1>4, <1>5, <1>6, <1>8 DEF ConsoleInv

(* Every reachable state of the console satisfies the invariant.           *)
THEOREM ConsoleInvariant ==
  console_preInialize /\ [][ConsoleNext]_consoleVars => []ConsoleInv
  <1>1. ConsoleInv /\ [ConsoleNext]_consoleVars => ConsoleInv'
    <2> SUFFICES ASSUME ConsoleInv, [ConsoleNext]_consoleVars PROVE ConsoleInv'
      OBVIOUS
    <2>1. ASSUME NEW p \in Printers, printk(p) PROVE ConsoleInv'
      BY <2>1, FillKeeps DEF printk, Actors
    <2>2. ASSUME NEW a \in Actors, Test(a) \/ Put(a) PROVE ConsoleInv'
      BY <2>2, TestKeeps, PutKeeps
    <2>9. ASSUME NEW a \in Actors,
                 \/ Find(a, "add_string", "adding", current_terminal_index)
                 \/ Find(a, "add_to_terminal", "writing", params.newIndex)
          PROVE  ConsoleInv'
      BY <2>9, FindKeeps
    <2>3. CASE DownArrow
      BY <2>3, FillKeeps DEF DownArrow, Actors, Printed
    <2>4. /\ (current_terminal_index + Count - 1) % Count \in Terminals
          /\ (current_terminal_index + 1) % Count \in Terminals
          /\ 0 \in Terminals
      <3>1. current_terminal_index \in 0..4
        BY DEF ConsoleInv, ConsoleTypes, Terminals, Count
      <3>2. \A k \in 0..9 : (k % 5) \in 0..4
        OBVIOUS
      <3>3. current_terminal_index + 5 - 1 \in 0..9 /\ current_terminal_index + 1 \in 0..9
        BY <3>1
      <3>. QED
        BY <3>2, <3>3 DEF Terminals, Count
    <2>5. CASE LeftArrow
      BY <2>4, <2>5, ChooseKeeps DEF LeftArrow
    <2>6. CASE RightArrow
      BY <2>4, <2>6, ChooseKeeps DEF RightArrow
    <2>7. CASE Switch
      BY <2>7, SwitchKeeps
    <2>8. CASE UNCHANGED consoleVars
      BY <2>8 DEF consoleVars, histories, ConsoleInv, ConsoleTypes, OnePrints,
                  ScreenRight, Neighbour, OverrunHarmless, Shown,
                  terminal_getViewPort
    <2>. QED
      BY <2>1, <2>2, <2>3, <2>5, <2>6, <2>7, <2>8, <2>9 DEF ConsoleNext
  <1>. QED
    BY <1>1, ConsoleInvInit, PTL

(* What is written past the end of the buffer of terminal 0 does no harm,  *)
(* for any size of the screen, any texts and any number of cores, as long  *)
(* as a terminal has at most twice the rows of the screen and no two have  *)
(* put texts to one terminal at once.                                      *)
THEOREM OverrunDoesNoHarm ==
  console_preInialize /\ [][ConsoleNext]_consoleVars => []OverrunHarmless
  <1>1. ConsoleInv => OverrunHarmless
    BY DEF ConsoleInv, Neighbour
  <1>. QED
    BY <1>1, ConsoleInvariant, PTL

(* When nobody prints or switches, the screen shows the current terminal   *)
(* where its last text left it, unless params or the index were changed    *)
(* under somebody.                                                         *)
THEOREM ScreenIsCurrent ==
  console_preInialize /\ [][ConsoleNext]_consoleVars => []ScreenCurrent
  <1>1. ConsoleInv => ScreenCurrent
    BY DEF ConsoleInv, ScreenRight, ScreenCurrent
  <1>. QED
    BY <1>1, ConsoleInvariant, PTL

-----------------------------------------------------------------------------
(***************************************************************************)
(* The block service.                                                      *)
(***************************************************************************)
\* The n sectors from first on lie in the heap from a place on.
Holds(place, first, n) == \A k \in 0 .. n - 1 : heap[place + k] = first + k

\* What the cache remembers after a first read of one piece.
OnePiece == [i \in {0, 1} |-> IF i = 0 THEN 0 ELSE Minus1]

BlockTypes == /\ reads \in Seq(Ranged) /\ returned \in Seq(Ranged)
              /\ user_room \in Nat /\ user_room + Room + chunck <= Heap
              /\ DOMAIN heap = 0 .. Heap - 1
              /\ primaryBuffer \in {0, 1}
              /\ reader # "idle" => reads # <<>>

\* The first read, when d of its sectors are done.
FirstAt(d) ==
  /\ total_read = d * Sector /\ d <= length /\ (reader = "copy" => d < length)
  /\ d = 0 => primaryBuffer = 0 /\ current_cache_index = Unset
  /\ Fits(reads[1]) => Holds(0, start_sector, d)
  /\ reader = "copy" => Holds(buffer(primaryBuffer), start_sector + d, chunck)
  /\ length <= chunck /\ d > 0 =>
       /\ d = length /\ current_cache_index = OnePiece
       /\ Holds(0, start_sector, length)
       /\ Fits(reads[1]) => Holds(user_room, start_sector, chunck)

FirstInv ==
  returned = <<>> =>
    /\ skip_start = Unset /\ skip_end = Unset
    /\ reader \in {"idle", "enter", "loop", "copy"}
    /\ reader \in {"idle", "enter"} => current_cache_index = Unset /\ primaryBuffer = 0
    /\ reader \in {"loop", "copy"} => \E d \in Nat : FirstAt(d)

\* The first read leaves its piece in buffer[0], and the cache right about it.
Cached(r) == r[1] = 0 /\ r[2] <= Pieces /\ Fits(r)

Within(r) == r[1] + r[2] * Unit <= chunck /\ Fits(r)

SecondInv ==
  Len(returned) = 1 =>
    /\ reader = "idle" /\ FirstRead =>
         Holds(0, returned[1][1], returned[1][2] * Unit)
    /\ Cached(returned[1]) =>
         /\ reader \in {"idle", "cache0"} =>
              /\ current_cache_index = OnePiece /\ skip_start = Unset /\ skip_end = Unset
              /\ Holds(user_room, 0, chunck)
         /\ reader # "idle" /\ Within(reads[1]) =>
              /\ reader \in {"cache0", "cache1", "enter", "loop"}
              /\ reader # "cache0" => Holds(0, start_sector, length)
              /\ reader \in {"cache1", "enter"} =>
                   /\ current_cache_index = OnePiece
                   /\ skip_start = [Unset EXCEPT ![0] = start_sector]
                   /\ skip_end = [Unset EXCEPT ![0] = end_sector]
              /\ reader = "loop" => total_read = target_read

ThirdInv == reader = "idle" /\ CacheRead =>
              Holds(0, returned[2][1], returned[2][2] * Unit)

BlockInv == BlockTypes /\ FirstInv /\ SecondInv /\ ThirdInv
-----------------------------------------------------------------------------
\* Sectors and bytes.
LEMMA ByteOrder ==
  ASSUME NEW m \in Nat, NEW n \in Nat
  PROVE  /\ m * Sector \in Nat /\ m <= m * Sector
         /\ (m * Sector < n * Sector) = (m < n)
         /\ (m * Sector = n * Sector) = (m = n)
         /\ m * Sector + n * Sector = (m + n) * Sector
  <1>1. Sector \in Nat /\ 1 <= Sector
    BY BlockAssumption
  <1>2. m * Sector \in Nat /\ n * Sector \in Nat /\ m <= m * Sector
    BY <1>1, SMT
  <1>3. m < n => m * Sector < n * Sector
    BY <1>1, SMT
  <1>4. n < m => n * Sector < m * Sector
    BY <1>1, SMT
  <1>5. m * Sector + n * Sector = (m + n) * Sector
    BY <1>1, SMT
  <1>. QED
    BY <1>2, <1>3, <1>4, <1>5

\* The length in bytes of some sectors is that many sectors.
LEMMA BytesToSectors == \A m \in Nat : (m * Sector) \div Sector = m
  BY BlockAssumption, SMT

\* The sizes are numbers, and a piece is not empty.
LEMMA BlockSizes ==
  /\ chunck \in Nat /\ 1 <= chunck /\ Unit \in Nat /\ Minus1 \in Nat
  /\ Sector \in Nat /\ 1 <= Sector /\ Room \in Nat
  <1>1. /\ Unit \in Nat /\ 1 <= Unit /\ Pieces \in Nat /\ 1 <= Pieces
        /\ Sector \in Nat /\ 1 <= Sector /\ Heap \in Nat /\ Room \in Nat
    BY BlockAssumption
  <1>2. Pieces * Unit \in Nat /\ 1 <= Pieces * Unit
    BY <1>1, SMT
  <1>3. Sector * (Heap + chunck) \in Nat
    BY <1>1, <1>2, SMT DEF chunck
  <1>4. Sector * (Heap + chunck) * 1000 \in Nat
    BY <1>3, SMT
  <1>. QED
    BY <1>1, <1>2, <1>4 DEF chunck, Minus1

\* The numbers of a read.
LEMMA RangeOf ==
  ASSUME NEW r \in Ranged
  PROVE  /\ r[1] \in Nat /\ r[2] \in Nat /\ r[2] * Unit \in Nat /\ 1 <= r[2] * Unit
         /\ (r[2] * Unit) * Sector \in Nat /\ r[2] * Unit <= (r[2] * Unit) * Sector
         /\ r[1] + (r[2] * Unit) * Sector < Minus1
         /\ r[1] + (r[1] + r[2] * Unit) < Minus1
         /\ r[2] <= Pieces => r[2] * Unit <= chunck
  <1>1. /\ r[1] \in Nat /\ r[2] \in Nat /\ 1 <= r[2]
        /\ 2 * (r[1] + r[2] * Unit * Sector) < Minus1
    BY DEF Ranged
  <1>2. Unit \in Nat /\ 1 <= Unit /\ Pieces \in Nat
    BY BlockAssumption
  <1>3. r[2] * Unit \in Nat /\ 1 <= r[2] * Unit
    BY <1>1, <1>2, SMT
  <1>4. r[2] <= Pieces => r[2] * Unit <= Pieces * Unit
    BY <1>1, <1>2, SMT
  <1>5. (r[2] * Unit) * Sector \in Nat /\ r[2] * Unit <= (r[2] * Unit) * Sector
    BY <1>3, ByteOrder
  <1>. QED
    BY <1>1, <1>3, <1>4, <1>5, BlockSizes DEF chunck

\* h is the heap after n sectors were moved from src to dest, all of them.
Moved(h, dest, src, n) ==
  /\ \A k \in 0 .. n - 1 : h[dest + k] = heap[src + k]
  /\ \A p \in 0 .. Heap - 1 : p \notin dest .. dest + n - 1 => h[p] = heap[p]

\* A copy to a place in front of its source moves all of it, and nothing else.
LEMMA CopyForward ==
  ASSUME NEW dest \in Nat, NEW src \in Nat, NEW n \in Nat, NEW h,
         dest <= src, src + n <= Heap, DOMAIN heap = 0 .. Heap - 1,
         h = fast_memcpy(dest, src, n)
  PROVE  Moved(h, dest, src, n)
  <1>0. Heap \in Nat /\ ~(dest > src)
    BY BlockAssumption
  <1>1. h = [p \in 0 .. Heap - 1 |->
               IF p \notin dest .. dest + n - 1 THEN heap[p]
               ELSE LET k == p - dest
                        q == src + k
                    IN IF q \in 0 .. Heap - 1 THEN heap[q] ELSE -1]
    BY <1>0 DEF fast_memcpy
  <1>2. ASSUME NEW k \in 0 .. n - 1 PROVE h[dest + k] = heap[src + k]
    <2>1. /\ dest + k \in 0 .. Heap - 1 /\ dest + k \in dest .. dest + n - 1
          /\ (dest + k) - dest = k /\ src + k \in 0 .. Heap - 1
      BY <1>0
    <2>. QED
      BY <2>1, <1>1
  <1>. QED
    BY <1>1, <1>2 DEF Moved

\* The types are preserved.
LEMMA BlockTypesKept ==
  ASSUME BlockTypes, BlocksNext
  PROVE  BlockTypes'
  <1> USE DEF BlockTypes
  <1>0. ASSUME NEW dest, NEW src, NEW n
        PROVE  DOMAIN fast_memcpy(dest, src, n) = DOMAIN heap
    BY DEF fast_memcpy
  <1>1. CASE read_blocks \/ read_nBlocks
    BY <1>1 DEF read_blocks, read_nBlocks
  <1>2. CASE readCached
    <2>1. ASSUME NEW i \in {0, 1}, TakeFrom(i) PROVE DOMAIN heap' = DOMAIN heap
      BY <2>1, <1>0 DEF TakeFrom
    <2>2. UNCHANGED <<reads, returned, user_room, primaryBuffer>>
      BY <1>2 DEF readCached
    <2>. QED
      BY <2>1, <2>2, <1>2 DEF readCached
  <1>3. CASE readPiece
    BY <1>3 DEF readPiece
  <1>4. CASE copyPiece
    BY <1>0, <1>4 DEF copyPiece
  <1>5. CASE readEnds
    <2>1. reads # <<>>
      BY <1>5 DEF readEnds
    <2>. QED
      BY <2>1, <1>5 DEF readEnds
  <1>. QED
    BY <1>1, <1>2, <1>3, <1>4, <1>5 DEF BlocksNext

\* A read begins: the first one past the cache, a second one through it.
LEMMA ReadBegins ==
  ASSUME BlockInv, read_blocks
  PROVE  FirstInv' /\ SecondInv' /\ ThirdInv'
  <1>0. BlockTypes /\ FirstInv /\ SecondInv
    BY DEF BlockInv
  <1>1. /\ reader = "idle" /\ reads # <<>>
        /\ reader' = IF current_cache_index = Unset THEN "enter" ELSE "cache0"
        /\ UNCHANGED <<heap, user_room, current_cache_index, primaryBuffer, skip_start,
                       skip_end, reads, returned>>
    BY DEF read_blocks
  <1>2. OnePiece # Unset
    <2>1. reads[1] \in Ranged
      BY <1>0, <1>1 DEF BlockTypes
    <2>2. Minus1 # 0
      BY <2>1, RangeOf, BlockSizes
    <2>3. OnePiece[0] # Unset[0]
      BY <2>2 DEF OnePiece, Unset
    <2>. QED
      BY <2>3
  <1>3. FirstInv'
    BY <1>0, <1>1 DEF FirstInv, Unset
  <1>4. ThirdInv'
    BY <1>1 DEF ThirdInv
  <1>5. SecondInv'
    <2>1. SUFFICES ASSUME Len(returned) = 1, Cached(returned[1]) PROVE SecondInv'
      BY <1>1 DEF SecondInv, Cached, Fits
    <2>2. /\ current_cache_index = OnePiece /\ skip_start = Unset /\ skip_end = Unset
          /\ Holds(user_room, 0, chunck)
      BY <2>1, <1>0, <1>1 DEF SecondInv
    <2>3. reader' = "cache0"
      BY <2>2, <1>1, <1>2
    <2>4. Holds(user_room, 0, chunck)'
      BY <2>2, <1>1 DEF Holds
    <2>. QED
      BY <2>1, <2>2, <2>3, <2>4, <1>1 DEF SecondInv, Unset
  <1>. QED
    BY <1>3, <1>4, <1>5

\* A second read that lies in the piece remembered takes all of it from buffer[0],
\* and nothing from buffer[1].
LEMMA CacheServes ==
  ASSUME BlockInv, readCached
  PROVE  FirstInv' /\ SecondInv' /\ ThirdInv'
  <1>0. BlockTypes /\ FirstInv /\ SecondInv
    BY DEF BlockInv
  <1>1. /\ \/ reader = "cache0" /\ TakeFrom(0) /\ reader' = "cache1"
           \/ reader = "cache1" /\ TakeFrom(1) /\ reader' = "enter"
        /\ UNCHANGED <<user_room, current_cache_index, primaryBuffer, total_read,
                       reads, returned>>
    BY DEF readCached
  <1>2. FirstInv' /\ ThirdInv'
    BY <1>0, <1>1 DEF FirstInv, ThirdInv
  <1>3. SecondInv'
    <2>1. SUFFICES ASSUME Len(returned) = 1, Cached(returned[1])
                   PROVE  SecondInv'
      BY <1>1 DEF SecondInv, Cached, Fits
    <2>2. reads # <<>>
      BY <1>0, <1>1 DEF BlockTypes
    <2>3. SUFFICES ASSUME Within(reads[1])
                   PROVE  /\ Holds(0, start_sector, length)'
                          /\ current_cache_index = OnePiece
                          /\ skip_start' = [Unset EXCEPT ![0] = start_sector]
                          /\ skip_end' = [Unset EXCEPT ![0] = end_sector]
      BY <2>1, <2>2, <1>1 DEF SecondInv, Within, Fits, start_sector, length,
                              end_sector, Unset, OnePiece
    <2>4. reads[1] \in Ranged
      BY <2>2, <1>0 DEF BlockTypes
    <2>5. /\ start_sector \in Nat /\ length \in Nat /\ 1 <= length
          /\ start_sector + end_sector < Minus1 /\ end_sector <= chunck
          /\ length <= user_room /\ end_sector = start_sector + length
      BY <2>3, <2>4, RangeOf DEF start_sector, length, end_sector, Within, Fits
    <2>6. current_cache_index = OnePiece
      BY <2>1, <2>3, <1>0, <1>1 DEF SecondInv
    <2>7. CASE reader = "cache0"
      <3>1. TakeFrom(0) /\ reader' = "cache1"
        BY <2>7, <1>1
      <3>2. skip_start = Unset /\ skip_end = Unset /\ Holds(user_room, 0, chunck)
        BY <2>1, <2>7, <1>0 DEF SecondInv
      <3>3. current_cache_index[0] = 0
        BY <2>6 DEF OnePiece
      <3>4. Before(0)
        BY <3>3, <2>5, BlockSizes DEF Before
      <3>5. start_sector - current_cache_index[0] = start_sector
        BY <3>3, <2>5
      <3>6. Part(start_sector) = length
        BY <2>5, BlockSizes DEF Part
      <3>7. buffer(0) = user_room
        BY <1>0, BlockSizes DEF buffer, BlockTypes
      <3>8. /\ heap' = fast_memcpy(0, user_room + start_sector, length)
            /\ skip_start' = [skip_start EXCEPT ![0] = start_sector]
            /\ skip_end' = [skip_end EXCEPT ![0] = start_sector + length]
        BY <3>1, <3>4, <3>5, <3>6, <3>7 DEF TakeFrom
      <3>9. \A k \in 0 .. length - 1 : heap'[0 + k] = heap[user_room + start_sector + k]
        <4>1. /\ user_room + start_sector \in Nat /\ 0 <= user_room + start_sector
              /\ user_room + start_sector + length <= Heap
          BY <1>0, <2>5, BlockSizes, BlockAssumption DEF BlockTypes
        <4>2. PICK z : z = user_room + start_sector
          OBVIOUS
        <4>3. PICK n : n = length
          OBVIOUS
        <4>4. DOMAIN heap = 0 .. Heap - 1
          BY <1>0 DEF BlockTypes
        <4>5. z \in Nat /\ n \in Nat /\ 0 \in Nat /\ 0 <= z /\ z + n <= Heap
          BY <4>1, <4>2, <4>3, <2>5
        <4>6. heap' = fast_memcpy(0, z, n)
          BY <4>2, <4>3, <3>8
        <4>7. Moved(heap', 0, z, n)
          BY <4>4, <4>5, <4>6, CopyForward
        <4>. QED
          BY <4>2, <4>3, <4>7 DEF Moved
      <3>10. ASSUME NEW k \in 0 .. length - 1 PROVE heap'[0 + k] = start_sector + k
        <4>1. start_sector + k \in 0 .. chunck - 1
          BY <2>5, BlockSizes
        <4>2. heap[user_room + (start_sector + k)] = 0 + (start_sector + k)
          BY <4>1, <3>2 DEF Holds
        <4>3. user_room + (start_sector + k) = user_room + start_sector + k
              /\ 0 + (start_sector + k) = start_sector + k
          BY <2>5, <1>0 DEF BlockTypes
        <4>. QED
          BY <4>2, <4>3, <3>9
      <3>11. Holds(0, start_sector, length)'
        BY <3>10, <1>1 DEF Holds, start_sector, length
      <3>. QED
        BY <3>2, <3>8, <3>11, <2>5, <2>6
    <2>8. CASE reader = "cache1"
      <3>1. /\ Holds(0, start_sector, length)
            /\ skip_start = [Unset EXCEPT ![0] = start_sector]
            /\ skip_end = [Unset EXCEPT ![0] = end_sector]
        BY <2>1, <2>3, <2>8, <1>0 DEF SecondInv
      <3>2. current_cache_index[1] = Minus1
        BY <2>6 DEF OnePiece
      <3>3. ~Before(1) /\ ~Inside(1)
        BY <3>2, <2>5, BlockSizes DEF Before, Inside
      <3>4. UNCHANGED <<heap, skip_start, skip_end>>
        BY <3>3, <2>8, <1>1 DEF TakeFrom
      <3>5. Holds(0, start_sector, length)'
        BY <3>1, <3>4, <1>1 DEF Holds, start_sector, length
      <3>. QED
        BY <3>1, <3>4, <3>5, <2>6
    <2>. QED
      BY <2>7, <2>8, <1>1
  <1>. QED
    BY <1>2, <1>3

\* Nothing is skipped by a test whose bounds are not set.
LEMMA NoSkipUnset ==
  ASSUME NEW i \in {0, 1}, NEW t \in Nat, start_sector \in Nat,
         skip_start = Unset, t + start_sector < Minus1
  PROVE  SkipFirst(i, t) = t /\ SkipOn(i, t) = t
  <1>1. skip_start[i] = Minus1
    BY DEF Unset
  <1>2. ~(t + start_sector >= skip_start[i])
    BY <1>1, BlockSizes
  <1>3. (t + start_sector) * Sector < Minus1 * Sector
    BY ByteOrder, BlockSizes
  <1>4. ~((t + start_sector) * Sector >= skip_start[i] * Sector)
    <2>1. (t + start_sector) * Sector \in Nat /\ Minus1 * Sector \in Nat
      BY ByteOrder, BlockSizes
    <2>. QED
      BY <2>1, <1>1, <1>3
  <1>. QED
    BY <1>2, <1>4 DEF SkipFirst, SkipOn

\* The tests on entry: a first read skips nothing, a second one that the cache
\* has served skips to its end.
LEMMA EnterLoop ==
  ASSUME BlockInv, read_nBlocks
  PROVE  FirstInv' /\ SecondInv' /\ ThirdInv'
  <1>0. BlockTypes /\ FirstInv /\ SecondInv
    BY DEF BlockInv
  <1>1. /\ reader = "enter" /\ reader' = "loop"
        /\ total_read' = SkipFirst(1, SkipFirst(0, 0))
        /\ UNCHANGED <<heap, user_room, current_cache_index, primaryBuffer, skip_start,
                       skip_end, reads, returned>>
    BY DEF read_nBlocks
  <1>2. reads[1] \in Ranged
    BY <1>0, <1>1 DEF BlockTypes
  <1>3. /\ start_sector \in Nat /\ length \in Nat /\ 1 <= length
        /\ length * Sector \in Nat /\ start_sector + length * Sector < Minus1
        /\ start_sector < Minus1 /\ end_sector = start_sector + length
    BY <1>2, RangeOf, BlockSizes DEF start_sector, length, end_sector
  <1>4. FirstInv'
    <2>1. SUFFICES ASSUME returned = <<>> PROVE FirstInv'
      BY <1>1 DEF FirstInv
    <2>2. /\ skip_start = Unset /\ skip_end = Unset /\ current_cache_index = Unset
          /\ primaryBuffer = 0
      BY <2>1, <1>0, <1>1 DEF FirstInv
    <2>3. SkipFirst(0, 0) = 0 /\ SkipFirst(1, 0) = 0
      BY <2>2, <1>3, NoSkipUnset
    <2>4. total_read' = 0 /\ 0 * Sector = 0
      BY <2>3, <1>1, BlockSizes
    <2>5. Holds(0, start_sector, 0)'
      BY DEF Holds
    <2>6. FirstAt(0)'
      <3>1. length' = length /\ start_sector' = start_sector
        BY <1>1 DEF length, start_sector
      <3>2. (current_cache_index = Unset)'
        BY <2>2, <1>1 DEF Unset
      <3>. QED
        BY <3>1, <3>2, <2>2, <2>4, <2>5, <1>1, <1>3 DEF FirstAt
    <2>. QED
      BY <2>2, <2>6, <1>1 DEF FirstInv, Unset
  <1>5. ThirdInv'
    BY <1>1 DEF ThirdInv
  <1>6. SecondInv'
    <2>1. SUFFICES ASSUME Len(returned) = 1, Cached(returned[1]), Within(reads[1])
                   PROVE  Holds(0, start_sector, length)' /\ total_read' = target_read
      BY <1>1 DEF SecondInv, Cached, Fits, Within, target_read, length
    <2>2. /\ Holds(0, start_sector, length)
          /\ skip_start = [Unset EXCEPT ![0] = start_sector]
          /\ skip_end = [Unset EXCEPT ![0] = end_sector]
      BY <2>1, <1>0, <1>1 DEF SecondInv
    <2>3. skip_start[0] = start_sector /\ skip_end[0] = end_sector /\ skip_start[1] = Minus1
      BY <2>2 DEF Unset
    <2>4. SkipFirst(0, 0) = length * Sector
      <3>1. skip_end[0] - start_sector = length
        BY <2>3, <1>3
      <3>2. 0 + start_sector >= skip_start[0] /\ 0 < skip_end[0]
        BY <2>3, <1>3
      <3>3. SkipFirst(0, 0) = 0 + length * Sector
        BY <3>1, <3>2 DEF SkipFirst
      <3>. QED
        BY <3>3, <1>3
    <2>5. SkipFirst(1, length * Sector) = length * Sector
      <3>1. ~(length * Sector + start_sector >= skip_start[1])
        BY <2>3, <1>3, BlockSizes
      <3>. QED
        BY <3>1 DEF SkipFirst
    <2>6. Holds(0, start_sector, length)'
      BY <2>2, <1>1 DEF Holds, start_sector, length
    <2>. QED
      BY <2>4, <2>5, <2>6, <1>1 DEF target_read
  <1>. QED
    BY <1>4, <1>5, <1>6

\* Where the buffers lie.
LEMMA BufferPlaces ==
  ASSUME BlockTypes, NEW i \in {0, 1}
  PROVE  /\ buffer(i) \in Nat /\ user_room \in Nat /\ user_room <= buffer(i)
         /\ buffer(i) + chunck <= Heap
  <1>1. /\ user_room \in Nat /\ Room \in Nat /\ chunck \in Nat /\ Heap \in Nat
        /\ user_room + Room + chunck <= Heap
    BY BlockSizes, BlockAssumption DEF BlockTypes
  <1>2. i = 0 => buffer(i) = user_room
    BY <1>1 DEF buffer
  <1>3. i = 1 => buffer(i) = user_room + Room
    BY <1>1 DEF buffer
  <1>. QED
    BY <1>1, <1>2, <1>3

\* A transfer of the first read fills its buffer behind what is delivered.
LEMMA PieceArrives ==
  ASSUME BlockInv, readPiece
  PROVE  FirstInv' /\ SecondInv' /\ ThirdInv'
  <1>0. BlockTypes /\ FirstInv /\ SecondInv
    BY DEF BlockInv
  <1> DEFINE t == SkipOn(1, SkipOn(0, SkipOn(1, SkipOn(0, total_read))))
             first == start_sector + t \div Sector
  <1>1. /\ reader = "loop" /\ reader' = "copy" /\ total_read # target_read
        /\ total_read' = t
        /\ heap' = [p \in DOMAIN heap |->
                      IF p - buffer(primaryBuffer) \in 0 .. chunck - 1
                      THEN first + (p - buffer(primaryBuffer)) ELSE heap[p]]
        /\ UNCHANGED <<user_room, current_cache_index, primaryBuffer, skip_start,
                       skip_end, reads, returned>>
    BY DEF readPiece
  <1> HIDE DEF t, first
  <1>2. reads[1] \in Ranged
    BY <1>0, <1>1 DEF BlockTypes
  <1>3. /\ start_sector \in Nat /\ length \in Nat /\ 1 <= length
        /\ length * Sector \in Nat /\ start_sector + length * Sector < Minus1
    BY <1>2, RangeOf, BlockSizes DEF start_sector, length
  <1>4. FirstInv'
    <2>1. SUFFICES ASSUME returned = <<>> PROVE FirstInv'
      BY <1>1 DEF FirstInv
    <2>2. skip_start = Unset /\ skip_end = Unset
      BY <2>1, <1>0 DEF FirstInv
    <2>3. PICK d \in Nat : FirstAt(d)
      BY <2>1, <1>0, <1>1 DEF FirstInv
    <2>4. total_read = d * Sector /\ d < length
      <3>1. d * Sector # length * Sector /\ d <= length
        BY <2>3, <1>1 DEF FirstAt, target_read
      <3>. QED
        BY <3>1, <2>3, <1>3 DEF FirstAt
    <2>5. total_read \in Nat /\ total_read + start_sector < Minus1
      <3>1. d * Sector \in Nat /\ d * Sector < length * Sector
        BY <2>4, <1>3, ByteOrder
      <3>. QED
        BY <3>1, <2>4, <1>3, BlockSizes
    <2>6. t = d * Sector
      <3>1. SkipOn(0, total_read) = total_read /\ SkipOn(1, total_read) = total_read
        BY <2>2, <2>5, <1>3, NoSkipUnset
      <3>. QED
        BY <3>1, <2>4 DEF t
    <2>7. first = start_sector + d
      BY <2>6, BytesToSectors DEF first
    <2>8. PICK b : b = buffer(primaryBuffer)
      OBVIOUS
    <2>9. b \in Nat /\ user_room \in Nat /\ user_room <= b /\ b + chunck <= Heap
      BY <2>8, <1>0, BufferPlaces DEF BlockTypes
    <2>10. DOMAIN heap = 0 .. Heap - 1 /\ Heap \in Nat
      BY <1>0, BlockAssumption DEF BlockTypes
    <2>11. ASSUME NEW k \in 0 .. chunck - 1 PROVE heap'[b + k] = (start_sector + d) + k
      <3>1. b + k \in DOMAIN heap /\ (b + k) - b = k
        BY <2>9, <2>10, BlockSizes
      <3>. QED
        BY <3>1, <2>7, <2>8, <1>1
    <2>12. Holds(buffer(primaryBuffer), start_sector + d, chunck)'
      BY <2>11, <2>8, <1>1 DEF Holds, buffer, start_sector
    <2>13. Fits(reads[1]) => Holds(0, start_sector, d)'
      <3>1. SUFFICES ASSUME Fits(reads[1]), NEW k \in 0 .. d - 1
                     PROVE  heap'[0 + k] = start_sector + k
        BY <1>1 DEF Holds, start_sector
      <3>2. heap[0 + k] = start_sector + k
        BY <3>1, <2>3 DEF FirstAt, Holds
      <3>3. length <= user_room
        BY <3>1 DEF Fits, length
      <3>4. 0 + k \in DOMAIN heap /\ (0 + k) - b \notin 0 .. chunck - 1
        BY <3>3, <2>4, <2>9, <2>10, <1>3, BlockSizes
      <3>. QED
        BY <3>2, <3>4, <2>8, <1>1
    <2>14. FirstAt(d)'
      <3>1. length' = length /\ start_sector' = start_sector /\ Fits(reads[1])' = Fits(reads[1])
        BY <1>1 DEF length, start_sector, Fits
      <3>2. d = 0 => primaryBuffer' = 0 /\ (current_cache_index = Unset)'
        BY <2>3, <1>1 DEF FirstAt, Unset
      <3>3. ~(length <= chunck /\ d > 0)
        BY <2>3, <2>4, <1>3 DEF FirstAt
      <3>4. total_read' = d * Sector
        BY <2>6, <1>1
      <3>. QED
        BY <3>1, <3>2, <3>3, <3>4, <2>4, <2>12, <2>13, <1>3 DEF FirstAt
    <2>. QED
      BY <2>2, <2>14, <1>1 DEF FirstInv, Unset
  <1>5. ThirdInv'
    BY <1>1 DEF ThirdInv
  <1>6. SecondInv'
    <2>1. SUFFICES ASSUME Len(returned) = 1, Cached(returned[1]), Within(reads[1])
                   PROVE  FALSE
      BY <1>1 DEF SecondInv, Cached, Fits, Within
    <2>. QED
      BY <2>1, <1>0, <1>1 DEF SecondInv
  <1>. QED
    BY <1>4, <1>5, <1>6

\* The number of sectors the next copy of the first read moves.
Step(d) == IF length - d > chunck THEN chunck ELSE length - d

\* A copy, in sectors.
LEMMA CopyInSectors ==
  ASSUME BlockTypes, reads # <<>>, NEW d \in Nat, total_read = d * Sector, d < length
  PROVE  /\ Step(d) \in Nat /\ 1 <= Step(d) /\ Step(d) <= chunck /\ d + Step(d) <= length
         /\ total_read \div Sector = d /\ current_read \div Sector = Step(d)
         /\ total_read + current_read = (d + Step(d)) * Sector
         /\ length <= chunck /\ d = 0 => Step(d) = length
  <1>1. length \in Nat
    <2>1. reads[1] \in Ranged
      BY DEF BlockTypes
    <2>. QED
      BY <2>1, RangeOf DEF length
  <1>2. /\ Step(d) \in Nat /\ 1 <= Step(d) /\ Step(d) <= chunck /\ d + Step(d) <= length
        /\ length <= chunck /\ d = 0 => Step(d) = length
    BY <1>1, BlockSizes DEF Step
  <1>3. PICK r \in Nat : r = length - d
    BY <1>1
  <1>4. length = d + r
    BY <1>1, <1>3
  <1>5. target_read - total_read = r * Sector /\ ~(total_read > target_read)
    <2>1. d * Sector + r * Sector = length * Sector
      BY <1>4, ByteOrder
    <2>2. d * Sector \in Nat /\ r * Sector \in Nat /\ length * Sector \in Nat
      BY <1>1, ByteOrder
    <2>. QED
      BY <2>1, <2>2 DEF target_read
  <1>6. (r * Sector > chunck * Sector) = (r > chunck)
    <2>1. (chunck * Sector < r * Sector) = (chunck < r)
      BY ByteOrder, BlockSizes
    <2>2. r * Sector \in Nat /\ chunck * Sector \in Nat
      BY ByteOrder, BlockSizes
    <2>. QED
      BY <2>1, <2>2, BlockSizes
  <1>7. current_read = Step(d) * Sector
    BY <1>3, <1>5, <1>6 DEF current_read, Step
  <1>8. total_read + current_read = (d + Step(d)) * Sector
    BY <1>2, <1>7, ByteOrder
  <1>. QED
    BY <1>2, <1>7, <1>8, BytesToSectors

\* A copy of the first read appends its piece to what is delivered.
LEMMA PieceCopied ==
  ASSUME BlockInv, copyPiece
  PROVE  FirstInv' /\ SecondInv' /\ ThirdInv'
  <1>0. BlockTypes /\ FirstInv /\ SecondInv
    BY DEF BlockInv
  <1>1. /\ reader = "copy" /\ reader' = "loop"
        /\ heap' = fast_memcpy(total_read \div Sector, buffer(primaryBuffer),
                               current_read \div Sector)
        /\ current_cache_index' =
             [current_cache_index EXCEPT ![primaryBuffer] = total_read \div Sector]
        /\ total_read' = total_read + current_read
        /\ primaryBuffer' = 1 - primaryBuffer
        /\ UNCHANGED <<user_room, skip_start, skip_end, reads, returned>>
    BY DEF copyPiece
  <1>2. reads # <<>> /\ reads[1] \in Ranged
    BY <1>0, <1>1 DEF BlockTypes
  <1>3. start_sector \in Nat /\ length \in Nat /\ 1 <= length
    BY <1>2, RangeOf DEF start_sector, length
  <1>4. FirstInv'
    <2>1. SUFFICES ASSUME returned = <<>> PROVE FirstInv'
      BY <1>1 DEF FirstInv
    <2>2. skip_start = Unset /\ skip_end = Unset
      BY <2>1, <1>0 DEF FirstInv
    <2>3. PICK d \in Nat : FirstAt(d)
      BY <2>1, <1>0, <1>1 DEF FirstInv
    <2>4. /\ total_read = d * Sector /\ d < length
          /\ Holds(buffer(primaryBuffer), start_sector + d, chunck)
          /\ Fits(reads[1]) => Holds(0, start_sector, d)
      BY <2>3, <1>1 DEF FirstAt
    <2>5. length <= chunck => d = 0 /\ primaryBuffer = 0 /\ current_cache_index = Unset
      BY <2>3, <2>4, <1>3 DEF FirstAt
    <2>6. PICK n : n = Step(d)
      OBVIOUS
    <2>7. /\ n \in Nat /\ 1 <= n /\ n <= chunck /\ d + n <= length
          /\ total_read \div Sector = d /\ current_read \div Sector = n
          /\ total_read + current_read = (d + n) * Sector
          /\ length <= chunck /\ d = 0 => n = length
      BY <2>4, <2>6, <1>0, <1>2, CopyInSectors
    <2>8. PICK b : b = buffer(primaryBuffer)
      OBVIOUS
    <2>9. b \in Nat /\ user_room \in Nat /\ user_room <= b /\ b + chunck <= Heap
      BY <2>8, <1>0, BufferPlaces DEF BlockTypes
    <2>10. heap' = fast_memcpy(d, b, n)
      BY <2>7, <2>8, <1>1
    <2>11. DOMAIN heap = 0 .. Heap - 1 /\ Heap \in Nat
      BY <1>0, BlockAssumption DEF BlockTypes
    <2>12. ASSUME d <= b
           PROVE  /\ \A k \in 0 .. n - 1 : heap'[d + k] = heap[b + k]
                  /\ \A p \in 0 .. Heap - 1 :
                       p \notin d .. d + n - 1 => heap'[p] = heap[p]
      <3>1. b + n <= Heap
        BY <2>7, <2>9, <2>11, BlockSizes
      <3>2. n \in Nat /\ b \in Nat /\ d \in Nat /\ d <= b
        BY <2>7, <2>9, <2>12
      <3>3. Moved(heap', d, b, n)
        BY <3>1, <3>2, <2>10, <2>11, CopyForward
      <3>. QED
        BY <3>3 DEF Moved
    <2>13. ASSUME d <= b, NEW k \in 0 .. n - 1
           PROVE  heap'[d + k] = start_sector + (d + k)
      <3>1. k \in 0 .. chunck - 1
        BY <2>7, BlockSizes
      <3>2. heap[b + k] = (start_sector + d) + k
        BY <3>1, <2>4, <2>8 DEF Holds
      <3>. QED
        BY <3>2, <2>12, <2>13, <1>3
    <2>14. ASSUME Fits(reads[1]) PROVE d <= b /\ Holds(0, start_sector, d + n)'
      <3>1. length <= user_room
        BY <2>14 DEF Fits, length
      <3>2. d <= b /\ d + n <= b
        BY <3>1, <2>7, <2>9, <1>3
      <3>3. ASSUME NEW k \in 0 .. (d + n) - 1 PROVE heap'[0 + k] = start_sector + k
        <4>1. CASE k < d
          <5>1. heap[0 + k] = start_sector + k
            BY <4>1, <2>4, <2>14 DEF Holds
          <5>2. 0 + k \in 0 .. Heap - 1 /\ 0 + k \notin d .. d + n - 1
            BY <4>1, <3>2, <2>7, <2>9, <2>11, BlockSizes
          <5>. QED
            BY <5>1, <5>2, <3>2, <2>12
        <4>2. CASE d <= k
          <5>1. k - d \in 0 .. n - 1 /\ d + (k - d) = 0 + k /\ d + (k - d) = k
            BY <4>2, <2>7
          <5>2. heap'[d + (k - d)] = start_sector + (d + (k - d))
            BY <5>1, <3>2, <2>13
          <5>. QED
            BY <5>1, <5>2
        <4>. QED
          BY <4>1, <4>2, <2>7
      <3>. QED
        BY <3>2, <3>3, <1>1 DEF Holds, start_sector
    <2>15. ASSUME length <= chunck
           PROVE  /\ d + n = length /\ current_cache_index' = OnePiece
                  /\ Holds(0, start_sector, length)'
                  /\ Fits(reads[1]) => Holds(user_room, start_sector, chunck)'
      <3>1. d = 0 /\ primaryBuffer = 0 /\ current_cache_index = Unset /\ n = length
        BY <2>5, <2>7, <2>15
      <3>2. d + n = length /\ d <= b /\ b = user_room
        BY <3>1, <2>7, <2>8, <2>9, BlockSizes DEF buffer
      <3>3. current_cache_index' = OnePiece
        BY <3>1, <2>7, <1>1 DEF OnePiece, Unset
      <3>4. ASSUME NEW k \in 0 .. length - 1 PROVE heap'[0 + k] = start_sector + k
        <4>1. heap'[d + k] = start_sector + (d + k)
          BY <3>1, <3>2, <2>13
        <4>2. d + k = k /\ 0 + k = k
          BY <3>1, <1>3
        <4>. QED
          BY <4>1, <4>2
      <3>5. Holds(0, start_sector, length)'
        BY <3>4, <1>1 DEF Holds, start_sector, length
      <3>6. ASSUME Fits(reads[1]), NEW k \in 0 .. chunck - 1
            PROVE  heap'[user_room + k] = start_sector + k
        <4>1. length <= user_room
          BY <3>6 DEF Fits, length
        <4>2. user_room + k \in 0 .. Heap - 1 /\ user_room + k \notin d .. d + n - 1
          BY <4>1, <3>1, <3>2, <2>9, <2>11, <1>3, BlockSizes
        <4>3. heap[b + k] = (start_sector + d) + k
          BY <2>4, <2>8 DEF Holds
        <4>. QED
          BY <4>2, <4>3, <3>1, <3>2, <2>12, <1>3
      <3>7. Fits(reads[1]) => Holds(user_room, start_sector, chunck)'
        BY <3>6, <1>1 DEF Holds, start_sector
      <3>. QED
        BY <3>2, <3>3, <3>5, <3>7
    <2>16. FirstAt(d + n)'
      <3>1. length' = length /\ start_sector' = start_sector /\ Fits(reads[1])' = Fits(reads[1])
        BY <1>1 DEF length, start_sector, Fits
      <3>2. total_read' = (d + n) * Sector /\ d + n # 0 /\ d + n <= length
        BY <2>7, <1>1
      <3>3. Fits(reads[1])' => Holds(0, start_sector, d + n)'
        BY <3>1, <2>14
      <3>4. length' <= chunck =>
              /\ d + n = length' /\ current_cache_index' = OnePiece
              /\ Holds(0, start_sector, length)'
              /\ Fits(reads[1])' => Holds(user_room, start_sector, chunck)'
        BY <3>1, <2>15
      <3>5. (current_cache_index = OnePiece)' = (current_cache_index' = OnePiece)
        BY DEF OnePiece
      <3>. QED
        BY <3>1, <3>2, <3>3, <3>4, <3>5, <1>1 DEF FirstAt
    <2>17. d + n \in Nat
      BY <2>7
    <2>. QED
      BY <2>2, <2>16, <2>17, <1>1 DEF FirstInv, Unset
  <1>5. ThirdInv'
    BY <1>1 DEF ThirdInv
  <1>6. SecondInv'
    <2>1. SUFFICES ASSUME Len(returned) = 1, Cached(returned[1]), Within(reads[1])
                   PROVE  FALSE
      BY <1>1 DEF SecondInv, Cached, Fits, Within
    <2>. QED
      BY <2>1, <1>0, <1>1 DEF SecondInv
  <1>. QED
    BY <1>4, <1>5, <1>6

\* A read returns.
LEMMA ReadReturns ==
  ASSUME BlockInv, readEnds
  PROVE  FirstInv' /\ SecondInv' /\ ThirdInv'
  <1>0. BlockTypes /\ FirstInv /\ SecondInv
    BY DEF BlockInv
  <1>1. /\ reader = "loop" /\ reader' = "idle" /\ total_read = target_read
        /\ skip_start' = Unset /\ skip_end' = Unset
        /\ returned' = Append(returned, reads[1])
        /\ UNCHANGED <<heap, user_room, current_cache_index, primaryBuffer, total_read>>
    BY DEF readEnds
  <1>2. reads # <<>> /\ reads[1] \in Ranged /\ returned \in Seq(Ranged)
    BY <1>0, <1>1 DEF BlockTypes
  <1>3. start_sector \in Nat /\ length \in Nat /\ 1 <= length
    BY <1>2, RangeOf DEF start_sector, length
  <1>4. /\ Len(returned) \in Nat /\ Len(returned') = Len(returned) + 1
        /\ returned'[Len(returned) + 1] = reads[1]
        /\ \A i \in 1 .. Len(returned) : returned'[i] = returned[i]
    BY <1>1, <1>2
  <1>5. FirstInv'
    BY <1>4 DEF FirstInv
  <1>6. SecondInv'
    <2>1. SUFFICES ASSUME Len(returned') = 1 PROVE SecondInv'
      BY DEF SecondInv
    <2>2. returned = <<>> /\ returned'[1] = reads[1]
      BY <2>1, <1>2, <1>4
    <2>3. PICK d \in Nat : FirstAt(d)
      BY <2>2, <1>0, <1>1 DEF FirstInv
    <2>4. d = length
      <3>1. d * Sector = length * Sector
        BY <2>3, <1>1 DEF FirstAt, target_read
      <3>. QED
        BY <3>1, <1>3, ByteOrder
    <2>5. /\ Fits(reads[1]) => Holds(0, start_sector, length)
          /\ length <= chunck =>
               /\ current_cache_index = OnePiece /\ Holds(0, start_sector, length)
               /\ Fits(reads[1]) => Holds(user_room, start_sector, chunck)
      BY <2>3, <2>4, <1>3 DEF FirstAt
    <2>6. reads[1][2] <= Pieces => length <= chunck
      BY <1>2, RangeOf DEF length
    <2>7. ASSUME FirstRead' PROVE Holds(0, returned[1][1], returned[1][2] * Unit)'
      <3>1. reads[1][2] <= Pieces \/ Fits(reads[1])
        BY <2>2, <2>7, <1>1 DEF FirstRead, Fits
      <3>2. Holds(0, start_sector, length)
        BY <3>1, <2>5, <2>6
      <3>. QED
        BY <3>2, <2>2, <1>1 DEF Holds, start_sector, length
    <2>8. ASSUME Cached(returned[1])'
          PROVE  /\ current_cache_index' = OnePiece /\ (skip_start = Unset)'
                 /\ (skip_end = Unset)' /\ Holds(user_room, 0, chunck)'
      <3>1. start_sector = 0 /\ reads[1][2] <= Pieces /\ Fits(reads[1])
        BY <2>2, <2>8, <1>1 DEF Cached, Fits, start_sector
      <3>2. current_cache_index = OnePiece /\ Holds(user_room, 0, chunck)
        BY <3>1, <2>5, <2>6
      <3>3. Holds(user_room, 0, chunck)'
        BY <3>2, <1>1 DEF Holds
      <3>. QED
        BY <3>2, <3>3, <1>1 DEF Unset
    <2>9. (current_cache_index = OnePiece)' = (current_cache_index' = OnePiece)
      BY DEF OnePiece
    <2>. QED
      BY <2>7, <2>8, <2>9, <1>1 DEF SecondInv
  <1>7. ThirdInv'
    <2>1. SUFFICES ASSUME CacheRead'
                   PROVE  Holds(0, returned[2][1], returned[2][2] * Unit)'
      BY DEF ThirdInv
    <2>2. Len(returned) = 1 /\ returned'[1] = returned[1] /\ returned'[2] = reads[1]
      <3>1. Len(returned') = 2
        BY <2>1 DEF CacheRead
      <3>2. PICK n \in Nat : n = Len(returned)
        BY <1>4
      <3>3. n + 1 = 2
        BY <3>1, <3>2, <1>4
      <3>4. Len(returned) = 1
        BY <3>2, <3>3
      <3>. QED
        BY <3>4, <1>4
    <2>3. Cached(returned[1]) /\ Within(reads[1])
      BY <2>1, <2>2, <1>1 DEF CacheRead, Cached, Within, Fits
    <2>4. Holds(0, start_sector, length)
      BY <2>2, <2>3, <1>0, <1>1 DEF SecondInv
    <2>. QED
      BY <2>2, <2>4, <1>1 DEF Holds, start_sector, length
  <1>. QED
    BY <1>5, <1>6, <1>7

\* init_BlockService: nothing is cached and nothing has been read.
LEMMA BlockInvInit ==
  (\E u \in UserRooms, r \in Reads : init_BlockService(u, r)) => BlockInv
  <1>1. SUFFICES ASSUME NEW u \in UserRooms, NEW r \in Reads, init_BlockService(u, r)
                 PROVE  BlockInv
    OBVIOUS
  <1>2. /\ reads \in Seq(Ranged) /\ user_room \in Nat
        /\ user_room + Room + chunck <= Heap
    BY <1>1, BlockAssumption DEF init_BlockService
  <1>3. BlockTypes
    BY <1>1, <1>2 DEF init_BlockService, BlockTypes
  <1>4. FirstInv
    BY <1>1 DEF init_BlockService, FirstInv
  <1>5. SecondInv /\ ThirdInv
    BY <1>1 DEF init_BlockService, SecondInv, ThirdInv, CacheRead
  <1>. QED
    BY <1>3, <1>4, <1>5 DEF BlockInv

\* The block service, over every sequence of reads: what its inductive invariant
\* says holds after any of its steps.
THEOREM BlockInvariant ==
  (\E u \in UserRooms, r \in Reads : init_BlockService(u, r)) /\ [][BlocksNext]_blockVars
    => []BlockInv
  <1>1. ASSUME BlockInv, BlocksNext PROVE BlockInv'
    <2>1. BlockTypes'
      BY <1>1, BlockTypesKept DEF BlockInv
    <2>2. FirstInv' /\ SecondInv' /\ ThirdInv'
      BY <1>1, ReadBegins, CacheServes, EnterLoop, PieceArrives, PieceCopied,
         ReadReturns
         DEF BlocksNext
    <2>. QED
      BY <2>1, <2>2 DEF BlockInv
  <1>2. ASSUME BlockInv, UNCHANGED blockVars PROVE BlockInv'
    <2>1. BlockTypes'
      BY <1>2 DEF BlockInv, BlockTypes, blockVars
    <2>2. FirstInv'
      BY <1>2 DEF BlockInv, FirstInv, FirstAt, Fits, Holds, Unset, OnePiece,
                  buffer, start_sector, length, blockVars
    <2>3. SecondInv'
      BY <1>2 DEF BlockInv, SecondInv, FirstRead, Cached, Within, Fits, Holds,
                  Unset, OnePiece, start_sector, length, end_sector,
                  target_read, blockVars
    <2>4. ThirdInv'
      BY <1>2 DEF BlockInv, ThirdInv, CacheRead, Fits, Holds, blockVars
    <2>. QED
      BY <2>1, <2>2, <2>3, <2>4 DEF BlockInv
  <1>. QED
    BY <1>1, <1>2, BlockInvInit, PTL

\* read_blocks delivers the sectors asked for, in order: on a first read that is
\* one piece or fits the user's buffer, whatever the allocation of the buffers in
\* bytes makes it overrun, and on a second read that lies in the first one's piece
\* and is served by the cache.
THEOREM BlocksAreDelivered ==
  (\E u \in UserRooms, r \in Reads : init_BlockService(u, r)) /\ [][BlocksNext]_blockVars
    => []BlocksDelivered
  <1>1. ASSUME BlockInv PROVE BlocksDelivered
    <2>1. SUFFICES ASSUME reader = "idle", FirstRead \/ CacheRead PROVE BlocksDelivered
      BY DEF BlocksDelivered
    <2>2. CASE FirstRead
      BY <2>1, <2>2, <1>1 DEF BlockInv, SecondInv, FirstRead, Holds,
                              BlocksDelivered
    <2>3. CASE CacheRead
      BY <2>1, <2>3, <1>1 DEF BlockInv, ThirdInv, CacheRead, Holds,
                              BlocksDelivered
    <2>. QED
      BY <2>1, <2>2, <2>3
  <1>. QED
    BY <1>1, BlockInvariant, PTL

=============================================================================
