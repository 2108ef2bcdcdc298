---------------------------- MODULE MessageProofs ---------------------------
(***************************************************************************)
(* Proofs about messages between cores and machines.                       *)
(*                                                                         *)
(* The inbound queue of a core: its type invariant, for both kinds of      *)
(* owner; for the core that serves requests, that a wait begun with        *)
(* interrupts off loses no wakeup; and for the core that asks, that it     *)
(* dequeues its reply, whole, and that no reply finds the queue full.      *)
(*                                                                         *)
(* What the messages carry: what parse_xml and the queries find in a       *)
(* request and in a reply, that base64 gives back every sequence of bytes, *)
(* and, for any number of machines that call each other and may lose       *)
(* packets, that the number printed is the value of the function.          *)
(***************************************************************************)
EXTENDS IPIoEWorker, RemoteCall, FiniteSetTheorems, SequenceTheorems,
        WellFoundedInduction, TLAPS

(* What % returns: the values the indices and the size can take.           *)
LEMMA ModRange ==
  ASSUME NEW n \in Nat, NEW k \in Nat \ {0}
  PROVE  n % k \in 0 .. k - 1
  OBVIOUS

(* The size and the indices of the queue keep their ranges, whatever the   *)
(* interleaving of processIPIOEPacket and workerDequeue.                   *)
THEOREM TypeCorrect == Spec => []TypeOK
<1>1. Init => TypeOK
  <2> SUFFICES ASSUME Init PROVE TypeOK
    OBVIOUS
  <2>1. fired \in BOOLEAN /\ irr \in BOOLEAN /\ iflag \in BOOLEAN
        /\ masked \in BOOLEAN /\ requester \in BOOLEAN
        /\ own \in BOOLEAN /\ misread \in BOOLEAN
    BY Zenon DEF Init
  <2>2. queue \in [Slots -> Entry] /\ packet \in Part /\ entry \in Entry
    BY DEF Init, Entry, Empty, Part
  <2>3. /\ queue_size \in 0 .. Word - 1 /\ preg \in 0 .. Word - 1
        /\ creg \in 0 .. Word - 1 /\ owed \in 0 .. MaxOwed
        /\ queue_index \in Slots /\ queue_end \in Slots /\ slot \in Slots
    BY SizeAssumption DEF Init, Slots
  <2>4. ppc = "idle" /\ cpc = "top"
    BY DEF Init
  <2> QED
    BY <2>1, <2>2, <2>3, <2>4 DEF TypeOK
<1>2. TypeOK /\ [Next]_vars => TypeOK'
  <2> SUFFICES ASSUME TypeOK, [Next]_vars PROVE TypeOK'
    OBVIOUS
  <2>0. requester' = requester
    BY DEF Next, vars
  <2> USE SizeAssumption, <2>0 DEF TypeOK, size, processor, owner, ids
  <2>1. CASE Drop
    BY <2>1 DEF Drop, Arrives
  <2>2. CASE Claim
    <3>1. queue_end' \in Slots
      BY <2>2, ModRange DEF Claim, Slots
    <3>2. owed' \in 0 .. MaxOwed
      BY <2>2 DEF Claim, Arrives
    <3> QED
      BY <2>2, <3>1, <3>2 DEF Claim, Part
  <2>3. CASE LoadSize
    BY <2>3 DEF LoadSize
  <2>4. CASE StoreSize
    <3>1. queue_size' \in 0 .. Word - 1
      BY <2>4, ModRange DEF StoreSize
    <3> QED
      BY <2>4, <3>1 DEF StoreSize
  <2>5. CASE WriteHead
    <3>1. queue' \in [Slots -> Entry]
      BY <2>5 DEF WriteHead, Entry
    <3> QED
      BY <2>5, <3>1 DEF WriteHead
  <2>6. CASE WriteBody
    <3>1. queue' \in [Slots -> Entry]
      BY <2>6 DEF WriteBody, Entry
    <3> QED
      BY <2>6, <3>1 DEF WriteBody
  <2>7. CASE SendIPI
    BY <2>7 DEF SendIPI, Loads
  <2>8. CASE Test
    BY <2>8 DEF Test, Goto
  <2>9. CASE Ask
    BY <2>9 DEF Ask, Goto
  <2>10. CASE Clear
    BY <2>10 DEF Clear, Goto, Loads
  <2>11. CASE Halt
    BY <2>11 DEF Halt, Goto
  <2>12. CASE Cli
    BY <2>12 DEF Cli, Goto
  <2>13. CASE Leave
    BY <2>13 DEF Leave, Goto
  <2>14. CASE CopyHead
    <3>1. entry' \in Entry
      BY <2>14 DEF CopyHead, Entry
    <3> QED
      BY <2>14, <3>1 DEF CopyHead, Goto
  <2>15. CASE CopyBody
    <3>1. entry' \in Entry
      BY <2>15 DEF CopyBody, Entry
    <3> QED
      BY <2>15, <3>1 DEF CopyBody, Goto
  <2>16. CASE Advance
    <3>1. queue_index' \in Slots
      BY <2>16, ModRange DEF Advance, Slots
    <3> QED
      BY <2>16, <3>1 DEF Advance, Goto
  <2>17. CASE Decrement
    <3>1. queue_size' \in 0 .. Word - 1
      BY <2>17, ModRange DEF Decrement
    <3> QED
      BY <2>17, <3>1 DEF Decrement, Goto
  <2>18. CASE Interrupt
    BY <2>18 DEF Interrupt, Goto, Loads
  <2>19. CASE OtherInterrupt
    BY <2>19 DEF OtherInterrupt, Goto
  <2>20. CASE OtherCore
    BY <2>20 DEF OtherCore, Loads
  <2>21. CASE UNCHANGED vars
    BY <2>21 DEF vars, queuevars
  <2> QED
    BY <2>1, <2>2, <2>3, <2>4, <2>5, <2>6, <2>7, <2>8, <2>9, <2>10, <2>11,
       <2>12, <2>13, <2>14, <2>15, <2>16, <2>17, <2>18, <2>19, <2>20,
       <2>21
       DEF Next, Process, Loop
<1> QED
  BY <1>1, <1>2, PTL DEF Spec

(* The owner of the queue stays the core it is.                            *)
LEMMA RequesterFixed == [Next]_vars => requester' = requester
  BY DEF Next, vars

(* Ids once misread stay misread, and a step in which every id is loaded   *)
(* right keeps the wait on the owner's own flag.                           *)
LEMMA MisreadStays ==
  ASSUME TypeOK, [Next]_vars, ~misread'
  PROVE  ~misread /\ (own => own') /\ ~OtherCore
<1>1. ~OtherCore
  BY Zenon DEF OtherCore, Loads
<1>2. CASE UNCHANGED ids
  BY <1>1, <1>2, Zenon DEF ids
<1>3. CASE SendIPI
  <2>1. own' = own
    BY <1>3 DEF SendIPI
  <2>2. ~misread
    BY <1>3, Zenon DEF SendIPI, Loads
  <2> QED
    BY <1>1, <2>1, <2>2
<1>4. CASE Clear
  BY <1>1, <1>4, Zenon DEF Clear, Loads
<1>5. CASE Interrupt
  <2>1. own' = own
    BY <1>5 DEF Interrupt
  <2>2. ~misread
    BY <1>5, Zenon DEF Interrupt, Loads
  <2> QED
    BY <1>1, <2>1, <2>2
<1>6. CASE UNCHANGED vars
  BY <1>2, <1>6 DEF vars, queuevars, ids
<1>7. Process => (UNCHANGED ids \/ SendIPI)
  BY Zenon DEF Process, Drop, Claim, LoadSize, StoreSize, WriteHead, WriteBody
<1>8. Loop => (UNCHANGED ids \/ Clear)
  BY Zenon DEF Loop, Test, Ask, Halt, Cli, Leave, CopyHead, CopyBody, Advance,
               Decrement
<1>9. OtherInterrupt => UNCHANGED ids
  BY Zenon DEF OtherInterrupt
<1> QED
  BY <1>1, <1>2, <1>3, <1>4, <1>5, <1>6, <1>7, <1>8, <1>9, Zenon DEF Next

(* The three actions that load an id, when they load the right one.        *)
LEMMA LoadedRight ==
  ASSUME TypeOK, ~misread'
  PROVE  /\ SendIPI => irr' = TRUE /\ fired' = fired
         /\ Clear => fired' = FALSE
         /\ Interrupt => fired' = TRUE
<1>0. fired \in BOOLEAN /\ irr \in BOOLEAN
  BY Zenon DEF TypeOK
<1>1. SendIPI => irr' = TRUE /\ fired' = fired
  BY <1>0, Zenon DEF SendIPI, Loads
<1>2. Clear => fired' = FALSE
  BY <1>0, Zenon DEF Clear, Loads
<1>3. Interrupt => fired' = TRUE
  BY <1>0, Zenon DEF Interrupt, Loads
<1> QED
  BY <1>1, <1>2, <1>3

(* Core 2 never sleeps through a request: a wait it begins with interrupts *)
(* off has an empty queue as long as no IPI is pending, no packet is       *)
(* being stored and no core has used another one's id.                     *)
THEOREM NoLostWakeup == Spec => [](~requester => WakeupKept)
<1>1. Init => WakeupInv
  BY Zenon DEF Init, WakeupInv, Waiting
<1>2. TypeOK /\ WakeupInv /\ [Next]_vars => WakeupInv'
  <2> SUFFICES ASSUME TypeOK, WakeupInv, [Next]_vars, ~misread'
               PROVE  WakeupInv'
    BY DEF WakeupInv
  <2>a. requester' = requester
    BY RequesterFixed, Zenon
  <2>b. ~misread /\ own /\ own' /\ ~OtherCore
    BY MisreadStays DEF WakeupInv
  <2>c. /\ SendIPI => irr' = TRUE /\ fired' = fired
        /\ Clear => fired' = FALSE
        /\ Interrupt => fired' = TRUE
    BY LoadedRight, Zenon
  <2> USE <2>a, <2>b DEF WakeupInv, Waiting, size, processor, owner
  <2>0. /\ requester \in BOOLEAN
        /\ iflag \in BOOLEAN /\ masked \in BOOLEAN /\ fired \in BOOLEAN
        /\ irr \in BOOLEAN
        /\ ppc \in {"idle", "load", "store", "head", "body", "ipi"}
        /\ cpc \in {"top", "clear", "while", "halted", "woken", "copy", "data",
                    "advance", "decrement"}
    BY Zenon DEF TypeOK
  <2>1. CASE Drop
    BY <2>1 DEF Drop
  <2>2. CASE Claim
    BY <2>2 DEF Claim
  <2>3. CASE LoadSize
    BY <2>3 DEF LoadSize
  <2>4. CASE StoreSize
    BY <2>4 DEF StoreSize
  <2>5. CASE WriteHead
    BY <2>5 DEF WriteHead
  <2>6. CASE WriteBody
    BY <2>6 DEF WriteBody
  <2>7. CASE SendIPI
    BY <2>0, <2>7, <2>c DEF SendIPI
  <2>8. CASE Test
    BY <2>0, <2>8 DEF Test, Goto
  <2>9. CASE Ask
    BY <2>0, <2>9 DEF Ask, Goto
  <2>10. CASE Clear
    BY <2>0, <2>10, <2>c DEF Clear, Goto
  <2>11. CASE Halt
    BY <2>0, <2>11 DEF Halt, Goto, MustWait
  <2>12. CASE Cli
    BY <2>0, <2>12 DEF Cli, Goto
  <2>13. CASE Leave
    BY <2>0, <2>13 DEF Leave, Goto
  <2>14. CASE CopyHead \/ CopyBody \/ Advance \/ Decrement
    BY <2>0, <2>14 DEF CopyHead, CopyBody, Advance, Decrement, Goto
  <2>15. CASE Interrupt
    BY <2>0, <2>15, <2>c DEF Interrupt, Goto
  <2>16. CASE OtherInterrupt
    BY <2>0, <2>16 DEF OtherInterrupt, Goto
  <2>17. CASE UNCHANGED vars
    BY <2>17 DEF vars, queuevars
  <2> QED
    BY <2>1, <2>2, <2>3, <2>4, <2>5, <2>6, <2>7, <2>8, <2>9, <2>10, <2>11,
       <2>12, <2>13, <2>14, <2>15, <2>16, <2>17
       DEF Next, Process, Loop
<1>3. WakeupInv => (~requester => WakeupKept)
  BY DEF WakeupInv, WakeupKept, Waiting
<1> QED
  BY <1>1, <1>2, <1>3, TypeCorrect, PTL DEF Spec

(* Core 1 has one request under way: its reply is on the network, being    *)
(* stored by processIPIOEPacket, in the queue, or dequeued.                *)
THEOREM OneRequest == Spec => []RequestInv
<1>1. Init => RequestInv
  BY SizeAssumption DEF Init, RequestInv, Quiet, Waiting
<1>2. TypeOK /\ RequestInv /\ [Next]_vars => RequestInv'
  <2> SUFFICES ASSUME TypeOK, RequestInv, [Next]_vars, requester, ~misread'
               PROVE  RequestInv'
    BY RequesterFixed, Zenon DEF RequestInv
  <2>a. requester' = requester
    BY RequesterFixed, Zenon
  <2>b. /\ iflag \in BOOLEAN /\ fired \in BOOLEAN /\ irr \in BOOLEAN
        /\ ppc \in {"idle", "load", "store", "head", "body", "ipi"}
        /\ cpc \in {"top", "clear", "while", "halted", "woken", "copy", "data",
                    "advance", "decrement"}
    BY Zenon DEF TypeOK
  <2>c. /\ queue \in [Slots -> Entry] /\ entry \in Entry
        /\ queue_index \in Slots /\ slot \in Slots /\ queue_end \in Slots
        /\ queue_size \in Nat /\ owed \in Nat /\ packet \in Part
    BY DEF TypeOK
  <2>d. ~misread /\ own /\ own' /\ ~OtherCore
    BY MisreadStays DEF RequestInv
  <2>e. /\ SendIPI => irr' = TRUE /\ fired' = fired
        /\ Clear => fired' = FALSE
        /\ Interrupt => fired' = TRUE
    BY LoadedRight, Zenon
  <2> USE SizeAssumption, <2>a, <2>b, <2>c, <2>d DEF RequestInv, Waiting
  <2>1. CASE Drop
    BY <2>1 DEF Drop, Arrives, Quiet, Storing, Stored
  <2>2. CASE Claim
    <3>1. cpc \in Waiting /\ Quiet /\ owed = 1
      BY <2>2 DEF Claim, Arrives, Storing, Stored, Quiet
    <3>2. Storing'
      BY <2>2, <3>1 DEF Claim, Quiet, Storing, Behind, owner, size
    <3> QED
      BY <2>2, <3>1, <3>2 DEF Claim, Arrives, owner
  <2>3. CASE LoadSize \/ StoreSize \/ WriteHead \/ WriteBody
    <3>1. cpc \in Waiting /\ Storing /\ owed = 0
      BY <2>3 DEF LoadSize, StoreSize, WriteHead, WriteBody, Quiet, Stored
    <3>2. Storing'
      <4>1. CASE LoadSize
        BY <3>1, <4>1 DEF LoadSize, Storing, Behind, owner, size
      <4>2. CASE StoreSize
        <5>1. queue_size' = 1
          BY <3>1, <4>2 DEF StoreSize, Storing
        <5> QED
          BY <3>1, <4>2, <5>1 DEF StoreSize, Storing, Behind, owner
      <4>3. CASE WriteHead
        BY <3>1, <4>3 DEF WriteHead, Storing, Behind, owner, size, Entry
      <4>4. CASE WriteBody
        BY <3>1, <4>4 DEF WriteBody, Storing, Behind, owner, size, Entry
      <4> QED
        BY <2>3, <4>1, <4>2, <4>3, <4>4
    <3>3. cpc' = cpc /\ owed' = owed
      BY <2>3 DEF LoadSize, StoreSize, WriteHead, WriteBody, owner
    <3> QED
      BY <3>1, <3>2, <3>3
  <2>4. CASE SendIPI
    <3>1. cpc \in Waiting /\ Storing /\ owed = 0
      BY <2>4 DEF SendIPI, Quiet, Stored
    <3>2. Stored'
      BY <2>4, <2>e, <3>1 DEF SendIPI, Storing, Stored, Behind, owner, size
    <3> QED
      BY <2>4, <3>1, <3>2 DEF SendIPI, owner
  <2>5. CASE Ask
    BY <2>5 DEF Ask, Goto, Quiet, processor, size
  <2>6. CASE Clear
    BY <2>6, <2>e DEF Clear, Goto, Quiet, Storing, Stored, Behind, processor, size
  <2>7. CASE Halt \/ OtherInterrupt \/ Cli
    BY <2>7 DEF Halt, OtherInterrupt, Cli, Goto, Quiet, Storing, Stored,
                Behind, processor, size
  <2>8. CASE Leave
    <3>1. fired
      BY <2>8 DEF Leave, MustWait
    <3>2. Stored /\ ~irr /\ owed = 0
      BY <2>8, <3>1 DEF Leave, Quiet, Storing, Stored
    <3>3. Stored'
      BY <2>8, <3>2 DEF Leave, Stored, Behind, processor, size
    <3> QED
      BY <2>8, <3>2, <3>3 DEF Leave, Goto
  <2>9. CASE CopyHead
    <3>1. Stored /\ ~irr /\ ~fired /\ owed = 0
      BY <2>9 DEF CopyHead
    <3>2. Stored' /\ entry'.head = queue'[queue_index'].head
      BY <2>9, <3>1 DEF CopyHead, Stored, Behind, processor, size, Entry
    <3> QED
      BY <2>9, <3>1, <3>2 DEF CopyHead, Goto
  <2>10. CASE CopyBody
    <3>1. /\ Stored /\ ~irr /\ ~fired /\ owed = 0
          /\ entry.head = queue[queue_index].head
      BY <2>10 DEF CopyBody
    <3>2. /\ Stored' /\ entry'.head = queue'[queue_index'].head
          /\ entry'.body = queue'[queue_index'].body
      BY <2>10, <3>1 DEF CopyBody, Stored, Behind, processor, size, Entry
    <3> QED
      BY <2>10, <3>1, <3>2 DEF CopyBody, Goto
  <2>11. CASE Advance
    BY <2>11 DEF Advance, Goto, Stored, Behind, processor, size
  <2>12. CASE Decrement
    <3>1. queue_size' = 0
      BY <2>12 DEF Decrement
    <3> QED
      BY <2>12, <3>1 DEF Decrement, Goto, Quiet, processor
  <2>13. CASE Interrupt
    <3>1. cpc \in Waiting /\ Stored /\ owed = 0
      BY <2>13 DEF Interrupt, Quiet, Storing
    <3>2. Stored'
      BY <2>13, <2>e, <3>1 DEF Interrupt, Stored, Behind, processor, size
    <3> QED
      BY <2>13, <3>1, <3>2 DEF Interrupt, Goto
  <2>14. CASE UNCHANGED vars
    BY <2>14 DEF vars, queuevars, Quiet, Storing, Stored, Behind
  <2> QED
    BY <2>1, <2>2, <2>3, <2>4, <2>5, <2>6, <2>7, <2>8, <2>9, <2>10, <2>11,
       <2>12, <2>13, <2>14
       DEF Next, Process, Loop, Test
<1> QED
  BY <1>1, <1>2, TypeCorrect, PTL DEF Spec

(* Core 1 never reaches workerDequeue, which has no test for it, with an   *)
(* empty queue.                                                            *)
THEOREM RequesterNoUnderflow == Spec => []NoUnderflow
<1>1. RequestInv => NoUnderflow
  BY DEF RequestInv, NoUnderflow, Stored
<1> QED
  BY <1>1, OneRequest, PTL

(* The entry core 1 copies out of its queue is one whole message, although *)
(* processIPIOEPacket counts it before it writes it and takes no lock.     *)
THEOREM RequesterUntorn == Spec => []Untorn
<1>1. RequestInv => Untorn
  BY SizeAssumption DEF RequestInv, Untorn, Stored
<1> QED
  BY <1>1, OneRequest, PTL

(* No reply to core 1 is dropped: processIPIOEPacket finds room for it, in *)
(* a queue of any length, the one of length 1 included.                    *)
THEOREM ReplyStored == Spec => [][requester /\ ~misread => ~Drop]_vars
<1>1. TypeOK /\ RequestInv => (requester /\ ~misread => ~Drop)
  BY SizeAssumption DEF TypeOK, RequestInv, Drop, Arrives, Quiet, Storing,
                        Stored, Waiting
<1> QED
  BY <1>1, TypeCorrect, OneRequest, PTL

(***************************************************************************)
(* What parse_xml leaves of the two messages.                              *)
(***************************************************************************)
Node(t, p, c) == [tag |-> t, parent |-> p, content |-> c]

\* A heap of which the parse has not failed.
Parse(nodes, at, open, content) ==
  [nodes |-> nodes, at |-> at, open |-> open, content |-> content, ok |-> TRUE]

\* f holds the heaps after each of the first m tokens of a text.
ParseRun(f, text, m) ==
  f = [n \in 0..m |-> IF n = 0 THEN xml_heap_init ELSE Token(f[n - 1], text[n])]

\* A set of numbers that is not empty has a least one.
LEMMA LeastOf ==
  ASSUME NEW S \in SUBSET Nat, S # {}
  PROVE  \E k \in S : \A l \in S : k <= l
  <1> DEFINE R == OpToRel(<, Nat)
  <1>1. IsWellFoundedOn(R, Nat)
    BY NatLessThanWellFounded, Zenon
  <1>2. \A k, l \in Nat : <<k, l>> \in R <=> k < l
    BY DEF OpToRel
  <1> HIDE DEF R
  <1>3. PICK k \in S : \A l \in S : ~(<<l, k>> \in R)
    BY <1>1, WFMin
  <1>4. ASSUME NEW l \in S PROVE k <= l
    <2>1. k \in Nat /\ l \in Nat
      OBVIOUS
    <2>2. ~(l < k)
      BY <1>2, <1>3, <2>1, Zenon
    <2> QED
      BY <2>1, <2>2
  <1> QED
    BY <1>4

\* The recursion of parse_xml is well defined: the heaps after the first m tokens,
\* one from the other, for every m up to the length.
LEMMA ParseDefined ==
  ASSUME NEW text, Len(text) \in Nat
  PROVE  \E f : ParseRun(f, text, Len(text)) /\ parse_xml(text) = f[Len(text)]
  <1> DEFINE D(m, f) == ParseRun(f, text, m)
             Bad == {m \in 0..Len(text) : ~ \E f : D(m, f)}
  <1>2. ASSUME Bad = {} PROVE \E f : D(Len(text), f)
    BY <1>2
  <1>3. ASSUME Bad # {} PROVE FALSE
    <2>4. PICK m \in Bad : \A l \in Bad : m <= l
      <3>1. Bad \in SUBSET Nat
        OBVIOUS
      <3>. QED
        BY <1>3, <3>1, LeastOf
    <2>5. m \in 0..Len(text) /\ ~ \E f : D(m, f)
      BY <2>4
    <2>6. CASE m = 0
      <3> DEFINE f == [n \in 0..0 |-> xml_heap_init]
      <3>1. D(0, f)
        BY DEF ParseRun
      <3>. QED
        BY <3>1, <2>5, <2>6
    <2>7. CASE m > 0
      <3>1. m - 1 \in 0..Len(text) /\ ~(m <= m - 1)
        BY <2>5, <2>7
      <3>2. PICK f : D(m - 1, f)
        BY <3>1, <2>4
      <3> DEFINE h == [n \in 0..m |-> IF n = m THEN Token(f[m - 1], text[m]) ELSE f[n]]
      <3>3. ASSUME NEW n \in 0..m
            PROVE  h[n] = IF n = 0 THEN xml_heap_init ELSE Token(h[n - 1], text[n])
        <4>1. n \in Nat /\ m \in Nat
          BY <2>5
        <4>2. CASE n = m
          BY <4>1, <4>2, <2>7
        <4>3. CASE n # m
          <5>1. n \in 0..(m - 1) /\ (n # 0 => n - 1 \in 0..m /\ n - 1 # m)
            BY <4>1, <4>3
          <5>2. f[n] = IF n = 0 THEN xml_heap_init ELSE Token(f[n - 1], text[n])
            BY <3>2, <5>1 DEF ParseRun
          <5>3. h[n] = f[n] /\ (n # 0 => h[n - 1] = f[n - 1])
            BY <4>3, <5>1
          <5>. QED
            BY <5>2, <5>3
        <4>. QED
          BY <4>2, <4>3
      <3>4. D(m, h)
        BY <3>3 DEF ParseRun
      <3>. QED
        BY <3>4, <2>5
    <2>. QED
      BY <2>5, <2>6, <2>7
  <1>4. \E f : ParseRun(f, text, Len(text))
    BY <1>2, <1>3
  <1>5. parse_xml(text) = (CHOOSE f : ParseRun(f, text, Len(text)))[Len(text)]
    BY DEF parse_xml, ParseRun
  <1>. QED
    BY <1>4, <1>5

\* One turn of the loop of parse_xml, for each kind of token in the messages.
Opening(nodes, at, open, t, n, l, more, opened) ==
  /\ n \in Nat /\ l \in Nat /\ n = Len(nodes) /\ l = Len(open) /\ n <= 100 /\ l <= 100
  /\ more = Append(nodes, Node(t, at, None)) /\ opened = Append(open, t)

\* A turn of the loop at a tag that opens, of a heap that is not full.
LEMMA TokenOpen ==
  ASSUME NEW nodes, NEW at, NEW open, NEW content, NEW t, NEW more, NEW opened, NEW n, NEW l,
         Opening(nodes, at, open, t, n, l, more, opened)
  PROVE  Token(Parse(nodes, at, open, content), Opens(t)) = Parse(more, n + 1, opened, EmptyText)
  <1> USE DEF Opening
  <1>0. PICK h : h = Parse(nodes, at, open, content)
    OBVIOUS
  <1>1. /\ h = [nodes |-> nodes, at |-> at, open |-> open, content |-> content, ok |-> TRUE]
        /\ Opens(t).kind = "open" /\ Opens(t).tag = t
    BY <1>0 DEF Parse, Opens
  <1>2. Token(h, Opens(t)) = OpenTag(h, t)
    BY <1>1 DEF Token
  <1>3. ~(Len(h.nodes) >= 131072 \/ Len(h.open) > 128)
    <2>1. Len(h.nodes) = n /\ Len(h.open) = l
      BY <1>1
    <2>2. ~(n >= 131072 \/ l > 128)
      OBVIOUS
    <2>. QED
      BY <2>1, <2>2
  <1>4. OpenTag(h, t) = [getNewXMLNode(h, t) EXCEPT !.open = Append(@, t), !.content = EmptyText]
    BY <1>3 DEF OpenTag, MAX_XML_NODES, MAX_VOID_STACK_SIZE
  <1>5. getNewXMLNode(h, t) = [h EXCEPT !.nodes = more, !.at = n + 1]
    <2>1. /\ h.nodes = nodes /\ h.at = at
          /\ Append(h.nodes, [tag |-> t, parent |-> h.at, content |-> None]) = more
      BY <1>1 DEF Node
    <2>. QED
      BY <2>1, <1>1 DEF getNewXMLNode
  <1>6. PICK z : z = n + 1
    OBVIOUS
  <1>7. PICK g : g = [nodes |-> more, at |-> z, open |-> open, content |-> content, ok |-> TRUE]
    OBVIOUS
  <1>8. getNewXMLNode(h, t) = g
    BY <1>1, <1>5, <1>6, <1>7, Zenon
  <1>9. g.open = open
    BY <1>7, Zenon
  <1>10. OpenTag(h, t) = [g EXCEPT !.open = opened, !.content = EmptyText]
    BY <1>4, <1>8, <1>9, Zenon
  <1>11. OpenTag(h, t) = [nodes |-> more, at |-> z, open |-> opened, content |-> EmptyText,
                          ok |-> TRUE]
    BY <1>7, <1>10, Zenon
  <1>. QED
    BY <1>0, <1>2, <1>6, <1>11, Zenon DEF Parse

\* A turn at the text after a tag that opens.
LEMMA TokenText ==
  ASSUME NEW nodes, NEW at, NEW open, NEW content, NEW x
  PROVE  Token(Parse(nodes, at, open, content), Chars(x))
           = Parse(nodes, at, open, IF content = EmptyText THEN x ELSE content)
  <1> DEFINE h == Parse(nodes, at, open, content)
  <1>1. /\ h.ok /\ h.content = content
        /\ Chars(x).kind = "text" /\ Chars(x).text = x
    BY DEF Parse, Chars
  <1>2. Token(h, Chars(x)) = IF h.content = EmptyText THEN [h EXCEPT !.content = x] ELSE h
    BY <1>1 DEF Token
  <1>. QED
    BY <1>1, <1>2 DEF Parse

Closing(nodes, at, open, content, t, left, up, o) ==
  /\ open # <<>> /\ Last(open) = t /\ o = Front(open)
  /\ left = [nodes EXCEPT ![at].content = IF content = None THEN @ ELSE content]
  /\ up = IF at # 0 /\ nodes[at].parent # 0 THEN nodes[at].parent ELSE at

\* A turn at the tag that closes the one opened last.
LEMMA TokenClose ==
  ASSUME NEW nodes, NEW at, NEW open, NEW content, NEW t, NEW o, NEW left, NEW u,
         Closing(nodes, at, open, content, t, left, u, o)
  PROVE  Token(Parse(nodes, at, open, content), Closes(t)) = Parse(left, u, o, None)
  <1> USE DEF Closing
  <1>0. PICK h : h = Parse(nodes, at, open, content)
    OBVIOUS
  <1>1. /\ h = [nodes |-> nodes, at |-> at, open |-> open, content |-> content, ok |-> TRUE]
        /\ Closes(t).kind = "close" /\ Closes(t).tag = t
    BY <1>0 DEF Parse, Closes
  <1>2. Token(h, Closes(t)) = CloseTag(h, t)
    BY <1>1 DEF Token
  <1>3. CloseTag(h, t)
          = [h EXCEPT !.nodes[h.at].content = IF h.content = None THEN @ ELSE h.content,
                      !.at = Up(h), !.open = Front(@), !.content = None]
    BY <1>1 DEF CloseTag
  <1>5. Up(h) = u
    BY <1>1 DEF Up
  <1>6. h.nodes = nodes /\ h.at = at /\ h.open = open /\ h.content = content
    BY <1>1
  <1>7. CloseTag(h, t) = [h EXCEPT !.nodes = left, !.at = u, !.open = o, !.content = None]
    BY <1>3, <1>5, <1>6, Zenon
  <1>8. CloseTag(h, t) = [nodes |-> left, at |-> u, open |-> o, content |-> None, ok |-> TRUE]
    BY <1>1, <1>7
  <1>. QED
    BY <1>0, <1>2, <1>8 DEF Parse

\* What the loop does at each token of a text, and that its end is the last heap.
LEMMA ParseSteps ==
  ASSUME NEW text, NEW l \in Nat, l = Len(text)
  PROVE  \E f : /\ f[0] = Parse(<<>>, 0, <<>>, None)
                /\ \A n \in 1..l : f[n] = Token(f[n - 1], text[n])
                /\ parse_xml(text) = f[l]
  <1>1. PICK f : ParseRun(f, text, l) /\ parse_xml(text) = f[l]
    <2>1. Len(text) \in Nat
      OBVIOUS
    <2>. QED
      BY <2>1, ParseDefined
  <1>2. f[0] = xml_heap_init
    BY <1>1 DEF ParseRun
  <1>3. ASSUME NEW n \in 1..l PROVE f[n] = Token(f[n - 1], text[n])
    <2>1. n \in 0..l /\ n # 0
      OBVIOUS
    <2>. QED
      BY <2>1, <1>1 DEF ParseRun
  <1>. QED
    BY <1>1, <1>2, <1>3 DEF xml_heap_init, Parse

\* A text that carries a number, or no character, or the characters of a result, is
\* not the text that stands for no text at all.
LEMMA TextKinds ==
  /\ \A n \in Nat : Number(n) # None /\ Number(n).n = n
  /\ EmptyText # None
  /\ \A s : s # << 65 >> => Base64(s) # None
  /\ \A s : Base64(s).chars = s
  BY DEF Number, None, EmptyText, Base64

\* The tokens of a message with what may follow it.
LEMMA Followed ==
  ASSUME NEW S, NEW s \in Seq(S), NEW tail \in Seq(S), NEW text, text = s \o tail,
         NEW l \in Nat, l = Len(s)
  PROVE  /\ Len(text) \in Nat /\ l <= Len(text)
         /\ \A i \in 1..l : text[i] = s[i]
         /\ \A i \in (l + 1)..Len(text) : text[i] \in S
  <1>1. /\ Len(text) = l + Len(tail) /\ Len(tail) \in Nat
        /\ \A i \in 1..(l + Len(tail)) : text[i] = IF i <= l THEN s[i] ELSE tail[i - l]
    BY ConcatProperties
  <1>2. ASSUME NEW i \in (l + 1)..Len(text) PROVE text[i] \in S
    <2>1. i \in 1..(l + Len(tail)) /\ ~(i <= l) /\ i - l \in 1..Len(tail)
      BY <1>1
    <2>2. tail[i - l] \in S
      BY <2>1
    <2>. QED
      BY <1>1, <2>1, <2>2
  <1>3. ASSUME NEW i \in 1..l PROVE text[i] = s[i]
    <2>1. i \in 1..(l + Len(tail)) /\ i <= l
      BY <1>1
    <2>. QED
      BY <1>1, <2>1
  <1>. QED
    BY <1>1, <1>2, <1>3

\* The tokens of a request, in their order, and any after them.
RequestText(a, text) ==
  /\ Len(text) \in Nat /\ 8 <= Len(text)
  /\ text[1] = Opens("params") /\ text[2] = Opens("FirstValue")
  /\ text[3] = Chars(Number(a[1])) /\ text[4] = Closes("FirstValue")
  /\ text[5] = Opens("SecondValue") /\ text[6] = Chars(Number(a[2]))
  /\ text[7] = Closes("SecondValue") /\ text[8] = Opens("params")
  /\ \A i \in 9..Len(text) : text[i] \in Tokens(Names)

\* A request and what follows it is such a text.
LEMMA RequestTokens ==
  ASSUME NEW a \in Nat \X Nat, NEW tail \in Tails, NEW text, text = Request(a) \o tail
  PROVE  RequestText(a, text)
  <1>1. Parameters[1] = "FirstValue" /\ Parameters[2] = "SecondValue"
    BY DEF Parameters
  <1>2. /\ Opens("params") \in Tokens(Names) /\ Opens("FirstValue") \in Tokens(Names)
        /\ Opens("SecondValue") \in Tokens(Names) /\ Closes("FirstValue") \in Tokens(Names)
        /\ Closes("SecondValue") \in Tokens(Names)
    BY CallAssumption DEF Tokens, Opens, Closes
  <1>3. \A n \in Nat : Chars(Number(n)) \in Tokens(Names)
    BY DEF Tokens, Chars, Number, CharTexts
  <1>4. PICK x, y : x = Chars(Number(a[1])) /\ y = Chars(Number(a[2]))
    OBVIOUS
  <1>5. x \in Tokens(Names) /\ y \in Tokens(Names)
    BY <1>3, <1>4
  <1>6. PICK s : s = <<Opens("params"), Opens("FirstValue"), x, Closes("FirstValue"),
                       Opens("SecondValue"), y, Closes("SecondValue"), Opens("params")>>
    OBVIOUS
  <1>7. s = Request(a)
    BY <1>1, <1>4, <1>6 DEF Request
  <1>8. s \in Seq(Tokens(Names)) /\ Len(s) = 8
    BY <1>2, <1>5, <1>6
  <1>9. tail \in Seq(Tokens(Names)) /\ text = s \o tail
    BY <1>7, TailAssumption
  <1>10. PICK l \in Nat : l = 8 /\ l = Len(s)
    BY <1>8
  <1>11. PICK S : S = Tokens(Names)
    OBVIOUS
  <1>12. /\ Len(text) \in Nat /\ l <= Len(text)
         /\ \A i \in 1..l : text[i] = s[i]
         /\ \A i \in (l + 1)..Len(text) : text[i] \in S
    <2>1. s \in Seq(S) /\ tail \in Seq(S) /\ text = s \o tail /\ l = Len(s)
      BY <1>8, <1>9, <1>10, <1>11
    <2>. QED
      BY <2>1, Followed
  <1>13. /\ text[1] = s[1] /\ text[2] = s[2] /\ text[3] = s[3] /\ text[4] = s[4]
         /\ text[5] = s[5] /\ text[6] = s[6] /\ text[7] = s[7] /\ text[8] = s[8]
    <2>1. \A i \in 1..8 : text[i] = s[i]
      BY <1>10, <1>12, Zenon
    <2>2. /\ 1 \in 1..8 /\ 2 \in 1..8 /\ 3 \in 1..8 /\ 4 \in 1..8
          /\ 5 \in 1..8 /\ 6 \in 1..8 /\ 7 \in 1..8 /\ 8 \in 1..8
      OBVIOUS
    <2>. QED
      BY <2>1, <2>2, Zenon
  <1>14. /\ s[1] = Opens("params") /\ s[2] = Opens("FirstValue") /\ s[3] = x
         /\ s[4] = Closes("FirstValue") /\ s[5] = Opens("SecondValue") /\ s[6] = y
         /\ s[7] = Closes("SecondValue") /\ s[8] = Opens("params")
    BY <1>6
  <1>15. Len(text) \in Nat /\ 8 <= Len(text) /\ \A i \in 9..Len(text) : text[i] \in S
    BY <1>10, <1>12
  <1>. QED
    BY <1>4, <1>11, <1>13, <1>14, <1>15, Zenon DEF RequestText

\* The same for the reply.
LEMMA ReplyTokens ==
  ASSUME NEW r, NEW tail \in Tails, NEW text, text = Reply(r) \o tail,
         base64_encode(InMemory(r)) \in Seq(Nat)
  PROVE  /\ Len(text) \in Nat /\ 5 <= Len(text)
         /\ text[1] = Opens("params") /\ text[2] = Opens("Result")
         /\ text[3] = Chars(Base64(base64_encode(InMemory(r))))
         /\ text[4] = Closes("Result") /\ text[5] = Closes("params")
         /\ \A i \in 6..Len(text) : text[i] \in Tokens(Names)
  <1>1. Returns.tag = "Result"
    BY DEF Returns
  <1>2. /\ Opens("params") \in Tokens(Names) /\ Opens("Result") \in Tokens(Names)
        /\ Closes("Result") \in Tokens(Names) /\ Closes("params") \in Tokens(Names)
    BY CallAssumption DEF Tokens, Opens, Closes
  <1>3. PICK x : x = Chars(Base64(base64_encode(InMemory(r))))
    OBVIOUS
  <1>4. x \in Tokens(Names)
    BY <1>3 DEF Tokens, Chars, Base64, CharTexts
  <1>5. PICK s : s = <<Opens("params"), Opens("Result"), x, Closes("Result"), Closes("params")>>
    OBVIOUS
  <1>6. s = Reply(r)
    BY <1>1, <1>3, <1>5 DEF Reply
  <1>7. s \in Seq(Tokens(Names)) /\ Len(s) = 5
    BY <1>2, <1>4, <1>5
  <1>8. tail \in Seq(Tokens(Names)) /\ text = s \o tail
    BY <1>6, TailAssumption
  <1>9. PICK l \in Nat : l = 5 /\ l = Len(s)
    BY <1>7
  <1>10. PICK S : S = Tokens(Names)
    OBVIOUS
  <1>11. /\ Len(text) \in Nat /\ l <= Len(text)
         /\ \A i \in 1..l : text[i] = s[i]
         /\ \A i \in (l + 1)..Len(text) : text[i] \in S
    <2>1. s \in Seq(S) /\ tail \in Seq(S) /\ text = s \o tail /\ l = Len(s)
      BY <1>7, <1>8, <1>9, <1>10
    <2>. QED
      BY <2>1, Followed
  <1>12. /\ text[1] = s[1] /\ text[2] = s[2] /\ text[3] = s[3] /\ text[4] = s[4]
         /\ text[5] = s[5]
    BY <1>9, <1>11
  <1>13. /\ s[1] = Opens("params") /\ s[2] = Opens("Result") /\ s[3] = x
         /\ s[4] = Closes("Result") /\ s[5] = Closes("params")
    BY <1>5
  <1>14. Len(text) \in Nat /\ 5 <= Len(text) /\ \A i \in 6..Len(text) : text[i] \in S
    BY <1>9, <1>11
  <1>. QED
    BY <1>3, <1>10, <1>12, <1>13, <1>14, Zenon

\* All heaps, and those that still have the nodes of a message: the first k nodes
\* are those of `base', but for the text of the top, the parser is at the top or
\* behind them, and so are the parents of all that follow.
Nodes == [tag : Names, parent : Nat, content : CharTexts]
Heaps == [nodes : Seq(Nodes), at : Nat, open : Seq(Names), content : CharTexts, ok : BOOLEAN]

TopOrPast(i, k, n) == i = 1 \/ (k < i /\ i <= n)

Keeps(h, base, k) ==
  /\ k <= Len(h.nodes) /\ TopOrPast(h.at, k, Len(h.nodes))
  /\ h.nodes[1].tag = base[1].tag /\ h.nodes[1].parent = 0
  /\ \A i \in 2..k : h.nodes[i] = base[i]
  /\ \A i \in (k + 1)..Len(h.nodes) : TopOrPast(h.nodes[i].parent, k, Len(h.nodes))

\* A tag that opens adds a node behind those of the message, ...
LEMMA OpenKeeps ==
  ASSUME NEW h \in Heaps, NEW base, NEW k \in Nat, 1 <= k, Keeps(h, base, k), NEW t \in Names
  PROVE  /\ getNewXMLNode(h, t) \in Heaps /\ Keeps(getNewXMLNode(h, t), base, k)
         /\ getNewXMLNode(h, t).at = Len(h.nodes) + 1
         /\ Len(getNewXMLNode(h, t).nodes) = Len(h.nodes) + 1
         /\ getNewXMLNode(h, t).nodes[Len(h.nodes) + 1].parent = h.at
  <1>0. /\ h.nodes \in Seq(Nodes) /\ h.at \in Nat /\ h.open \in Seq(Names)
        /\ h.content \in CharTexts /\ h.ok \in BOOLEAN
    BY DEF Heaps
  <1>1. PICK e : e = [tag |-> t, parent |-> h.at, content |-> None]
    OBVIOUS
  <1>2. None \in CharTexts
    BY DEF None, CharTexts
  <1>3. e \in Nodes /\ e.parent = h.at
    BY <1>0, <1>1, <1>2 DEF Nodes
  <1>4. PICK ns : ns = Append(h.nodes, e)
    OBVIOUS
  <1>5. PICK n \in Nat : n = Len(h.nodes)
    BY <1>0
  <1>6. /\ ns \in Seq(Nodes) /\ Len(ns) = n + 1 /\ ns[n + 1] = e
        /\ \A i \in 1..n : ns[i] = h.nodes[i]
    BY <1>0, <1>3, <1>4, <1>5, AppendProperties
  <1>7. PICK g : g = [h EXCEPT !.nodes = ns, !.at = n + 1]
    OBVIOUS
  <1>8. g = getNewXMLNode(h, t)
    BY <1>1, <1>4, <1>5, <1>7 DEF getNewXMLNode
  <1>9. g \in Heaps /\ g.nodes = ns /\ g.at = n + 1
    <2>1. PICK z \in Nat : z = n + 1
      OBVIOUS
    <2>2. h = [nodes |-> h.nodes, at |-> h.at, open |-> h.open, content |-> h.content,
               ok |-> h.ok]
      BY DEF Heaps
    <2>3. g = [h EXCEPT !.nodes = ns, !.at = z]
      BY <2>1, <1>7, Zenon
    <2>4. g = [nodes |-> ns, at |-> z, open |-> h.open, content |-> h.content, ok |-> h.ok]
      BY <2>2, <2>3, Zenon
    <2>5. g \in Heaps
      BY <2>4, <1>0, <1>6 DEF Heaps
    <2>. QED
      BY <2>1, <2>4, <2>5
  <1>10. /\ k <= n /\ (h.at = 1 \/ (k < h.at /\ h.at <= n))
         /\ h.nodes[1].tag = base[1].tag /\ h.nodes[1].parent = 0
         /\ \A i \in 2..k : h.nodes[i] = base[i]
         /\ \A i \in (k + 1)..n : TopOrPast(h.nodes[i].parent, k, n)
    BY <1>5 DEF Keeps, TopOrPast
  <1>11. ASSUME NEW i \in (k + 1)..(n + 1) PROVE TopOrPast(ns[i].parent, k, n + 1)
    <2>1. CASE i = n + 1
      BY <2>1, <1>0, <1>3, <1>6, <1>10 DEF TopOrPast
    <2>2. CASE i # n + 1
      <3>1. i \in (k + 1)..n /\ i \in 1..n
        BY <2>2
      <3>2. ns[i] = h.nodes[i] /\ h.nodes[i] \in Nodes
        BY <3>1, <1>0, <1>5, <1>6
      <3>3. TopOrPast(ns[i].parent, k, n) /\ ns[i].parent \in Nat
        BY <3>1, <3>2, <1>10 DEF Nodes
      <3>. QED
        BY <3>3 DEF TopOrPast
    <2>. QED
      BY <2>1, <2>2
  <1>12. ASSUME NEW i \in 2..k PROVE ns[i] = base[i]
    <2>1. i \in 1..n
      BY <1>10
    <2>. QED
      BY <2>1, <1>6, <1>10
  <1>13. ns[1] = h.nodes[1]
    BY <1>6, <1>10
  <1>14. Keeps(g, base, k)
    <2>1. k <= n + 1 /\ TopOrPast(n + 1, k, n + 1)
      BY <1>10 DEF TopOrPast
    <2>. QED
      BY <2>1, <1>6, <1>9, <1>10, <1>11, <1>12, <1>13 DEF Keeps
  <1>. QED
    BY <1>3, <1>5, <1>6, <1>8, <1>9, <1>14

\* ... the parser moves up to the top or to a node behind them, ...
LEMMA UpTopOrPast ==
  ASSUME NEW h \in Heaps, NEW base, NEW k \in Nat, 1 <= k, Keeps(h, base, k)
  PROVE  Up(h) \in Nat /\ TopOrPast(Up(h), k, Len(h.nodes))
  <1>0. h.nodes \in Seq(Nodes) /\ h.at \in Nat
    BY DEF Heaps
  <1>1. PICK n \in Nat : n = Len(h.nodes)
    BY <1>0
  <1>2. k <= n /\ TopOrPast(h.at, k, n) /\ h.nodes[1].parent = 0
    BY <1>1 DEF Keeps
  <1>3. CASE h.at # 0 /\ h.nodes[h.at].parent # 0
    <2>1. h.at # 1
      BY <1>2, <1>3
    <2>2. h.at \in (k + 1)..n /\ h.at \in 1..n
      BY <1>0, <1>2, <2>1 DEF TopOrPast
    <2>3. h.nodes[h.at] \in Nodes
      BY <1>0, <1>1, <2>2
    <2>4. h.nodes[h.at].parent \in Nat /\ TopOrPast(h.nodes[h.at].parent, k, n)
      BY <1>1, <2>2, <2>3 DEF Keeps, Nodes
    <2>. QED
      BY <1>1, <1>3, <2>4 DEF Up
  <1>4. CASE ~(h.at # 0 /\ h.nodes[h.at].parent # 0)
    BY <1>0, <1>1, <1>2, <1>4 DEF Up
  <1>. QED
    BY <1>3, <1>4

\* ... and a tag that closes gives its text to a node that is not looked for.
LEMMA CloseKeeps ==
  ASSUME NEW h \in Heaps, NEW base, NEW k \in Nat, 1 <= k, Keeps(h, base, k), NEW t,
         h.open # <<>>, Last(h.open) = t
  PROVE  CloseTag(h, t) \in Heaps /\ Keeps(CloseTag(h, t), base, k)
  <1>0. /\ h.nodes \in Seq(Nodes) /\ h.at \in Nat /\ h.open \in Seq(Names)
        /\ h.content \in CharTexts /\ h.ok \in BOOLEAN
    BY DEF Heaps
  <1>1. PICK n \in Nat : n = Len(h.nodes)
    BY <1>0
  <1>2. /\ k <= n /\ TopOrPast(h.at, k, n)
        /\ h.nodes[1].tag = base[1].tag /\ h.nodes[1].parent = 0
        /\ \A i \in 2..k : h.nodes[i] = base[i]
        /\ \A i \in (k + 1)..n : TopOrPast(h.nodes[i].parent, k, n)
    BY <1>1 DEF Keeps
  <1>3. h.at \in 1..n /\ h.at \notin 2..k
    BY <1>0, <1>2 DEF TopOrPast
  <1>4. h.nodes[h.at] \in Nodes
    BY <1>0, <1>1, <1>3
  <1>5. PICK c : c = IF h.content = None THEN h.nodes[h.at].content ELSE h.content
    OBVIOUS
  <1>6. c \in CharTexts
    BY <1>0, <1>4, <1>5 DEF Nodes
  <1>7. PICK ns : ns = [h.nodes EXCEPT ![h.at].content = c]
    OBVIOUS
  <1>8. /\ ns \in Seq(Nodes) /\ Len(ns) = n
        /\ \A i \in 1..n : i # h.at => ns[i] = h.nodes[i]
        /\ ns[h.at].tag = h.nodes[h.at].tag /\ ns[h.at].parent = h.nodes[h.at].parent
    <2>1. PICK x : x = h.nodes[h.at]
      OBVIOUS
    <2>2. PICK e : e = [x EXCEPT !.content = c]
      OBVIOUS
    <2>3. e \in Nodes /\ e.tag = x.tag /\ e.parent = x.parent
      BY <2>1, <2>2, <1>4, <1>6 DEF Nodes
    <2>4. ns = [h.nodes EXCEPT ![h.at] = e]
      BY <2>1, <2>2, <1>7, Zenon
    <2>5. h.nodes \in [1..n -> Nodes]
      BY <1>0, <1>1
    <2>6. /\ ns \in [1..n -> Nodes] /\ ns[h.at] = e
          /\ \A i \in 1..n : i # h.at => ns[i] = h.nodes[i]
      BY <2>3, <2>4, <2>5, <1>3
    <2>7. ns \in Seq(Nodes) /\ Len(ns) = n
      BY <2>6
    <2>. QED
      BY <2>1, <2>3, <2>6, <2>7
  <1>9. PICK u \in Nat : u = Up(h) /\ TopOrPast(u, k, n)
    BY <1>1, UpTopOrPast
  <1>10. PICK o : o = Front(h.open) /\ o \in Seq(Names)
    <2>1. PICK s \in Seq(Names) : s = h.open /\ s # <<>>
      BY <1>0
    <2>2. Front(s) \in Seq(Names)
      <3>1. PICK l \in Nat : l = Len(s) /\ l >= 1
        BY <2>1
      <3>2. PICK j \in Nat : j = l - 1
        BY <3>1
      <3>3. \A i \in 1..j : s[i] \in Names
        BY <3>1, <3>2
      <3>4. Front(s) = [i \in 1..j |-> s[i]]
        BY <3>1, <3>2 DEF Front
      <3>5. Front(s) \in [1..j -> Names]
        BY <3>3, <3>4
      <3>. QED
        BY <3>5
    <2>. QED
      BY <2>1, <2>2
  <1>11. None \in CharTexts
    BY DEF None, CharTexts
  <1>12. PICK g : g = [h EXCEPT !.nodes = ns, !.at = u, !.open = o, !.content = None]
    OBVIOUS
  <1>13. g = CloseTag(h, t)
    <2>1. CloseTag(h, t)
            = [h EXCEPT !.nodes[h.at].content = IF h.content = None THEN @ ELSE h.content,
                        !.at = Up(h), !.open = Front(@), !.content = None]
      BY DEF CloseTag
    <2>2. [h.nodes EXCEPT ![h.at].content = IF h.content = None THEN @ ELSE h.content] = ns
      BY <1>5, <1>7
    <2>. QED
      BY <1>9, <1>10, <1>12, <2>1, <2>2, ZenonT(30)
  <1>14. g \in Heaps /\ g.nodes = ns /\ g.at = u
    BY <1>0, <1>8, <1>9, <1>10, <1>11, <1>12 DEF Heaps
  <1>15. ns[1].tag = base[1].tag /\ ns[1].parent = 0
    <2>1. CASE h.at = 1
      BY <2>1, <1>2, <1>8
    <2>2. CASE h.at # 1
      <3>1. 1 \in 1..n
        BY <1>2
      <3>. QED
        BY <2>2, <3>1, <1>2, <1>8
    <2>. QED
      BY <2>1, <2>2
  <1>16. ASSUME NEW i \in 2..k PROVE ns[i] = base[i]
    <2>1. i \in 1..n /\ i # h.at
      BY <1>2, <1>3
    <2>. QED
      BY <2>1, <1>2, <1>8
  <1>17. ASSUME NEW i \in (k + 1)..n PROVE TopOrPast(ns[i].parent, k, n)
    <2>1. i \in 1..n
      OBVIOUS
    <2>2. ns[i].parent = h.nodes[i].parent
      BY <2>1, <1>8
    <2>. QED
      BY <2>2, <1>2
  <1>18. Keeps(g, base, k)
    BY <1>2, <1>8, <1>9, <1>14, <1>15, <1>16, <1>17 DEF Keeps
  <1>. QED
    BY <1>13, <1>14, <1>18

\* A heap that differs in what is open or in the text keeps the same nodes.
LEMMA SameNodes ==
  ASSUME NEW h \in Heaps, NEW g \in Heaps, NEW base, NEW k \in Nat, Keeps(h, base, k),
         g.nodes = h.nodes, TopOrPast(g.at, k, Len(h.nodes))
  PROVE  Keeps(g, base, k)
  BY DEF Keeps

\* So every turn of the loop leaves the nodes of the message, or fails.
LEMMA TokenKeeps ==
  ASSUME NEW h \in Heaps, NEW base, NEW k \in Nat, 1 <= k, h.ok => Keeps(h, base, k),
         NEW x \in Tokens(Names)
  PROVE  Token(h, x) \in Heaps /\ (Token(h, x).ok => Keeps(Token(h, x), base, k))
  <1>0. /\ h.nodes \in Seq(Nodes) /\ h.at \in Nat /\ h.open \in Seq(Names)
        /\ h.content \in CharTexts /\ h.ok \in BOOLEAN
        /\ h = [nodes |-> h.nodes, at |-> h.at, open |-> h.open, content |-> h.content,
                ok |-> h.ok]
    BY DEF Heaps
  <1>a. None \in CharTexts /\ EmptyText \in CharTexts
    BY DEF None, EmptyText, Base64, CharTexts
  <1>b. [h EXCEPT !.ok = FALSE] \in Heaps /\ ~[h EXCEPT !.ok = FALSE].ok
    BY <1>0 DEF Heaps
  <1>1. CASE ~h.ok
    <2>1. Token(h, x) = h
      BY <1>1 DEF Token
    <2>. QED
      BY <1>1, <2>1, Zenon
  <1>2. CASE h.ok /\ x.kind = "open"
    <2>1. x.tag \in Names
      BY <1>2 DEF Tokens
    <2>2. Token(h, x) = OpenTag(h, x.tag)
      BY <1>2 DEF Token
    <2>3. CASE OpenTag(h, x.tag) = [h EXCEPT !.ok = FALSE]
      BY <2>2, <2>3, <1>b
    <2>4. CASE OpenTag(h, x.tag) # [h EXCEPT !.ok = FALSE]
      <3>1. PICK g \in Heaps : /\ g = getNewXMLNode(h, x.tag) /\ Keeps(g, base, k)
        BY <1>2, <2>1, OpenKeeps
      <3>2. OpenTag(h, x.tag) = [g EXCEPT !.open = Append(@, x.tag), !.content = EmptyText]
        BY <2>4, <3>1 DEF OpenTag
      <3>3. Append(g.open, x.tag) \in Seq(Names)
        BY <2>1 DEF Heaps
      <3>4. PICK f : f = [g EXCEPT !.open = Append(@, x.tag), !.content = EmptyText]
        OBVIOUS
      <3>5. f \in Heaps /\ f.nodes = g.nodes /\ f.at = g.at
        BY <3>3, <3>4, <1>a DEF Heaps
      <3>6. TopOrPast(f.at, k, Len(g.nodes))
        BY <3>1, <3>5 DEF Keeps
      <3>7. Keeps(f, base, k)
        BY <3>1, <3>5, <3>6, SameNodes
      <3>. QED
        BY <2>2, <3>2, <3>4, <3>5, <3>7
    <2>. QED
      BY <2>3, <2>4
  <1>3. CASE h.ok /\ x.kind = "both"
    <2>1. x.tag \in Names
      BY <1>3 DEF Tokens
    <2>2. Token(h, x) = EmptyTag(h, x.tag)
      BY <1>3 DEF Token
    <2>3. CASE EmptyTag(h, x.tag) = [h EXCEPT !.ok = FALSE]
      BY <2>2, <2>3, <1>b
    <2>4. CASE EmptyTag(h, x.tag) # [h EXCEPT !.ok = FALSE]
      <3>1. PICK g \in Heaps : /\ g = getNewXMLNode(h, x.tag) /\ Keeps(g, base, k)
        BY <1>3, <2>1, OpenKeeps
      <3>2. PICK u \in Nat : u = Up(g) /\ TopOrPast(u, k, Len(g.nodes))
        BY <3>1, UpTopOrPast
      <3>3. PICK f : f = [g EXCEPT !.at = u, !.content = None]
        OBVIOUS
      <3>4. EmptyTag(h, x.tag) = f
        BY <2>4, <3>1, <3>2, <3>3 DEF EmptyTag
      <3>5. f \in Heaps /\ f.nodes = g.nodes /\ f.at = u
        BY <3>2, <3>3, <1>a DEF Heaps
      <3>6. Keeps(f, base, k)
        BY <3>1, <3>2, <3>5, SameNodes
      <3>. QED
        BY <2>2, <3>4, <3>5, <3>6
    <2>. QED
      BY <2>3, <2>4
  <1>4. CASE h.ok /\ x.kind = "close"
    <2>1. Token(h, x) = CloseTag(h, x.tag)
      BY <1>4 DEF Token
    <2>2. CASE h.open = <<>> \/ Last(h.open) # x.tag
      BY <2>1, <2>2, <1>b DEF CloseTag
    <2>3. CASE ~(h.open = <<>> \/ Last(h.open) # x.tag)
      BY <1>4, <2>1, <2>3, CloseKeeps
    <2>. QED
      BY <2>2, <2>3
  <1>5. CASE h.ok /\ x.kind = "text"
    <2>1. x.text \in CharTexts
      BY <1>5 DEF Tokens
    <2>2. PICK g : g = [h EXCEPT !.content = x.text]
      OBVIOUS
    <2>3. Token(h, x) = IF h.content = EmptyText THEN g ELSE h
      BY <1>5, <2>2 DEF Token
    <2>4. g \in Heaps /\ g.nodes = h.nodes /\ g.at = h.at
      BY <1>0, <2>1, <2>2 DEF Heaps
    <2>5. Keeps(g, base, k)
      BY <1>5, <2>4 DEF Keeps
    <2>. QED
      BY <1>5, <2>3, <2>4, <2>5
  <1>6. x.kind \in {"open", "close", "both", "text"}
    BY DEF Tokens
  <1>. QED
    BY <1>0, <1>1, <1>2, <1>3, <1>4, <1>5, <1>6

\* The heaps f of a text, of which the one after the message has its nodes.
Follows(f, text, l, first, base, k) ==
  /\ l \in Nat /\ first \in Nat /\ first <= l /\ k \in Nat /\ 1 <= k
  /\ \A n \in 1..l : f[n] = Token(f[n - 1], text[n])
  /\ \A n \in (first + 1)..l : text[n] \in Tokens(Names)
  /\ f[first] \in Heaps /\ Keeps(f[first], base, k)

\* And so does the rest of the text.
LEMMA TailKeeps ==
  ASSUME NEW f, NEW text, NEW l, NEW first, NEW base, NEW k,
         Follows(f, text, l, first, base, k)
  PROVE  f[l] \in Heaps /\ (f[l].ok => Keeps(f[l], base, k))
  <1> USE DEF Follows
  <1> DEFINE Good(n) == f[n] \in Heaps /\ (f[n].ok => Keeps(f[n], base, k))
             Bad == {n \in first..l : ~Good(n)}
  <1>1. ASSUME Bad # {} PROVE FALSE
    <2>1. PICK n \in Bad : \A m \in Bad : n <= m
      <3>1. Bad \in SUBSET Nat
        OBVIOUS
      <3>. QED
        BY <1>1, <3>1, LeastOf
    <2>2. n \in first..l /\ ~Good(n)
      BY <2>1
    <2>3. n # first
      BY <2>2
    <2>4. n - 1 \in first..l /\ ~(n <= n - 1) /\ n \in 1..l /\ n \in (first + 1)..l
      BY <2>2, <2>3
    <2>5. Good(n - 1)
      BY <2>1, <2>4
    <2>6. f[n] = Token(f[n - 1], text[n]) /\ text[n] \in Tokens(Names)
      BY <2>4
    <2>7. Good(n)
      BY <2>5, <2>6, TokenKeeps
    <2>. QED
      BY <2>2, <2>7
  <1>2. l \in first..l
    OBVIOUS
  <1>. QED
    BY <1>1, <1>2

\* Closing the tag of the last node, which has been given a text: the first or the
\* second one below the top.
LEMMA CloseSecond ==
  ASSUME NEW p, NEW t, NEW c, c # None
  PROVE  Token(Parse(<<p, Node(t, 1, None)>>, 2, <<"params", t>>, c), Closes(t))
           = Parse(<<p, Node(t, 1, c)>>, 1, <<"params">>, None)
  <1> DEFINE nodes == <<p, Node(t, 1, None)>>
             open == <<"params", t>>
             left == <<p, Node(t, 1, c)>>
  <1>1. open # <<>> /\ Last(open) = t /\ <<"params">> = Front(open)
    BY DEF Last, Front
  <1>2. left = [nodes EXCEPT ![2].content = IF c = None THEN @ ELSE c]
    BY DEF Node
  <1>3. nodes[2].parent = 1
    BY DEF Node
  <1>4. Closing(nodes, 2, open, c, t, left, 1, <<"params">>)
    BY <1>1, <1>2, <1>3 DEF Closing
  <1> HIDE DEF nodes, open, left
  <1>5. Token(Parse(nodes, 2, open, c), Closes(t)) = Parse(left, 1, <<"params">>, None)
    BY <1>4, TokenClose
  <1>. QED
    BY <1>5, Zenon DEF nodes, open, left

\* The second node below the top.
LEMMA CloseThird ==
  ASSUME NEW p, NEW q, NEW t, NEW c, c # None
  PROVE  Token(Parse(<<p, q, Node(t, 1, None)>>, 3, <<"params", t>>, c), Closes(t))
           = Parse(<<p, q, Node(t, 1, c)>>, 1, <<"params">>, None)
  <1> DEFINE nodes == <<p, q, Node(t, 1, None)>>
             open == <<"params", t>>
             left == <<p, q, Node(t, 1, c)>>
  <1>1. open # <<>> /\ Last(open) = t /\ <<"params">> = Front(open)
    BY DEF Last, Front
  <1>2. left = [nodes EXCEPT ![3].content = IF c = None THEN @ ELSE c]
    BY DEF Node
  <1>3. nodes[3].parent = 1
    BY DEF Node
  <1>4. Closing(nodes, 3, open, c, t, left, 1, <<"params">>)
    BY <1>1, <1>2, <1>3 DEF Closing
  <1> HIDE DEF nodes, open, left
  <1>5. Token(Parse(nodes, 3, open, c), Closes(t)) = Parse(left, 1, <<"params">>, None)
    BY <1>4, TokenClose
  <1>. QED
    BY <1>5, Zenon DEF nodes, open, left

\* Closing the tag of the top, which has no text of its own.
LEMMA CloseTop ==
  ASSUME NEW q
  PROVE  Token(Parse(<<Node("params", 0, None), q>>, 1, <<"params">>, None), Closes("params"))
           = Parse(<<Node("params", 0, None), q>>, 1, <<>>, None)
  <1> DEFINE nodes == <<Node("params", 0, None), q>>
             open == <<"params">>
  <1>1. open # <<>> /\ Last(open) = "params" /\ <<>> = Front(open)
    BY DEF Last, Front
  <1>2. nodes = [nodes EXCEPT ![1].content = IF None = None THEN @ ELSE None]
    BY DEF Node
  <1>3. nodes[1].parent = 0
    BY DEF Node
  <1>4. Closing(nodes, 1, open, None, "params", nodes, 1, <<>>)
    BY <1>1, <1>2, <1>3 DEF Closing
  <1> HIDE DEF nodes, open
  <1>5. Token(Parse(nodes, 1, open, None), Closes("params")) = Parse(nodes, 1, <<>>, None)
    BY <1>4, TokenClose
  <1>. QED
    BY <1>5, Zenon DEF nodes, open

\* Opening a tag below the top, after as many nodes as there are so far.
LEMMA OpenFirst ==
  ASSUME NEW t
  PROVE  Token(Parse(<<>>, 0, <<>>, None), Opens(t))
           = Parse(<<Node(t, 0, None)>>, 1, <<t>>, EmptyText)
  <1>1. Opening(<<>>, 0, <<>>, t, 0, 0, <<Node(t, 0, None)>>, <<t>>)
    BY DEF Opening
  <1>2. 0 + 1 = 1
    OBVIOUS
  <1>. QED
    BY <1>1, <1>2, TokenOpen

\* The second node.
LEMMA OpenSecond ==
  ASSUME NEW p, NEW t, NEW c
  PROVE  Token(Parse(<<p>>, 1, <<"params">>, c), Opens(t))
           = Parse(<<p, Node(t, 1, None)>>, 2, <<"params", t>>, EmptyText)
  <1>1. Opening(<<p>>, 1, <<"params">>, t, 1, 1, <<p, Node(t, 1, None)>>, <<"params", t>>)
    BY DEF Opening
  <1>2. 1 + 1 = 2
    OBVIOUS
  <1>. QED
    BY <1>1, <1>2, TokenOpen

\* The third.
LEMMA OpenThird ==
  ASSUME NEW p, NEW q, NEW t, NEW c
  PROVE  Token(Parse(<<p, q>>, 1, <<"params">>, c), Opens(t))
           = Parse(<<p, q, Node(t, 1, None)>>, 3, <<"params", t>>, EmptyText)
  <1>1. Opening(<<p, q>>, 1, <<"params">>, t, 2, 1, <<p, q, Node(t, 1, None)>>, <<"params", t>>)
    BY DEF Opening
  <1>2. 2 + 1 = 3
    OBVIOUS
  <1>. QED
    BY <1>1, <1>2, TokenOpen

\* The fourth.
LEMMA OpenFourth ==
  ASSUME NEW p, NEW q, NEW r, NEW t, NEW c
  PROVE  Token(Parse(<<p, q, r>>, 1, <<"params">>, c), Opens(t))
           = Parse(<<p, q, r, Node(t, 1, None)>>, 4, <<"params", t>>, EmptyText)
  <1>1. Opening(<<p, q, r>>, 1, <<"params">>, t, 3, 1, <<p, q, r, Node(t, 1, None)>>,
                <<"params", t>>)
    BY DEF Opening
  <1>2. 3 + 1 = 4
    OBVIOUS
  <1>. QED
    BY <1>1, <1>2, TokenOpen

\* The nodes parse_xml leaves of a request, and of a reply.
RequestNodes(a) == << Node("params", 0, None), Node("FirstValue", 1, Number(a[1])),
                      Node("SecondValue", 1, Number(a[2])) >>
ReplyNodes(r)   == << Node("params", 0, None),
                      Node("Result", 1, Base64(base64_encode(InMemory(r)))) >>

\* The request, although its last tag is not closed, is parsed into its nodes, and
\* what follows it leaves them as they are, or makes the parse fail.
LEMMA RequestParsed ==
  ASSUME NEW a \in Nat \X Nat, NEW tail \in Tails, parse_xml(Request(a) \o tail).ok
  PROVE  /\ parse_xml(Request(a) \o tail) \in Heaps
         /\ Keeps(parse_xml(Request(a) \o tail), RequestNodes(a), 3)
  <1>1. PICK text : text = Request(a) \o tail
    OBVIOUS
  <1> DEFINE x == Number(a[1])
             y == Number(a[2])
             P == Node("params", 0, None)
             F == Node("FirstValue", 1, None)
             Fx == Node("FirstValue", 1, x)
             S == Node("SecondValue", 1, None)
             Sy == Node("SecondValue", 1, y)
             Q == Node("params", 1, None)
             pf == <<"params", "FirstValue">>
             ps == <<"params", "SecondValue">>
  <1>2. /\ Len(text) \in Nat /\ 8 <= Len(text)
        /\ text[1] = Opens("params") /\ text[2] = Opens("FirstValue")
        /\ text[3] = Chars(x) /\ text[4] = Closes("FirstValue")
        /\ text[5] = Opens("SecondValue") /\ text[6] = Chars(y)
        /\ text[7] = Closes("SecondValue") /\ text[8] = Opens("params")
        /\ \A i \in 9..Len(text) : text[i] \in Tokens(Names)
    <2>1. RequestText(a, text)
      BY <1>1, RequestTokens
    <2>. QED
      BY <2>1, Zenon DEF RequestText
  <1>3. /\ x # None /\ y # None
        /\ x \in CharTexts /\ y \in CharTexts /\ None \in CharTexts /\ EmptyText \in CharTexts
    BY TextKinds DEF Number, CharTexts, None, EmptyText, Base64
  <1>4. PICK l \in Nat : l = Len(text)
    BY <1>2
  <1>5. PICK f : /\ f[0] = Parse(<<>>, 0, <<>>, None)
                 /\ \A n \in 1..l : f[n] = Token(f[n - 1], text[n])
                 /\ parse_xml(text) = f[l]
    BY <1>4, ParseSteps
  <1>6. 8 <= l /\ \A n \in (8 + 1)..l : text[n] \in Tokens(Names)
    BY <1>2, <1>4
  <1>7. /\ f[1] = Token(f[0], text[1]) /\ f[2] = Token(f[1], text[2])
        /\ f[3] = Token(f[2], text[3]) /\ f[4] = Token(f[3], text[4])
        /\ f[5] = Token(f[4], text[5]) /\ f[6] = Token(f[5], text[6])
        /\ f[7] = Token(f[6], text[7]) /\ f[8] = Token(f[7], text[8])
    BY <1>5, <1>6
  <1> HIDE DEF x, y, P, F, Fx, S, Sy, Q, pf, ps
  <1>11. f[1] = Parse(<<P>>, 1, <<"params">>, EmptyText)
    BY <1>2, <1>5, <1>7, OpenFirst DEF P
  <1>12. f[2] = Parse(<<P, F>>, 2, pf, EmptyText)
    BY <1>2, <1>7, <1>11, OpenSecond DEF F, pf
  <1>13. f[3] = Parse(<<P, F>>, 2, pf, x)
    BY <1>2, <1>7, <1>12, TokenText
  <1>14. f[4] = Parse(<<P, Fx>>, 1, <<"params">>, None)
    BY <1>2, <1>3, <1>7, <1>13, CloseSecond DEF F, Fx, pf
  <1>15. f[5] = Parse(<<P, Fx, S>>, 3, ps, EmptyText)
    BY <1>2, <1>7, <1>14, OpenThird DEF S, ps
  <1>16. f[6] = Parse(<<P, Fx, S>>, 3, ps, y)
    BY <1>2, <1>7, <1>15, TokenText
  <1>17. f[7] = Parse(<<P, Fx, Sy>>, 1, <<"params">>, None)
    BY <1>2, <1>3, <1>7, <1>16, CloseThird DEF S, Sy, ps
  <1>18. f[8] = Parse(<<P, Fx, Sy, Q>>, 4, <<"params", "params">>, EmptyText)
    BY <1>2, <1>7, <1>17, OpenFourth DEF Q
  <1>19. P \in Nodes /\ Fx \in Nodes /\ Sy \in Nodes /\ Q \in Nodes
    BY <1>3, CallAssumption DEF P, Fx, Sy, Q, Node, Nodes
  <1>20. PICK ns, o : ns = <<P, Fx, Sy, Q>> /\ o = <<"params", "params">>
    OBVIOUS
  <1>21. ns \in Seq(Nodes) /\ Len(ns) = 4 /\ o \in Seq(Names)
    BY <1>19, <1>20, CallAssumption
  <1>22. f[8] \in Heaps /\ f[8].nodes = ns /\ f[8].at = 4
    BY <1>3, <1>18, <1>20, <1>21 DEF Parse, Heaps
  <1>23. Keeps(f[8], RequestNodes(a), 3)
    <2>1. /\ RequestNodes(a)[1] = P /\ RequestNodes(a)[2] = Fx /\ RequestNodes(a)[3] = Sy
      BY DEF RequestNodes, P, Fx, Sy, x, y
    <2>2. ns[1] = P /\ ns[2] = Fx /\ ns[3] = Sy /\ ns[4] = Q
      BY <1>20
    <2>3. P.parent = 0 /\ Q.parent = 1
      BY DEF P, Q, Node
    <2>4. \A i \in 2..3 : i = 2 \/ i = 3
      OBVIOUS
    <2>5. \A i \in (3 + 1)..4 : i = 4
      OBVIOUS
    <2>6. \A i \in 2..3 : ns[i] = RequestNodes(a)[i]
      BY <2>1, <2>2, <2>4, Zenon
    <2>7. \A i \in (3 + 1)..4 : TopOrPast(ns[i].parent, 3, 4)
      BY <2>2, <2>3, <2>5 DEF TopOrPast
    <2>8. 3 <= 4 /\ TopOrPast(4, 3, 4)
      BY DEF TopOrPast
    <2>9. ns[1].tag = RequestNodes(a)[1].tag /\ ns[1].parent = 0
      BY <2>1, <2>2, <2>3
    <2>. QED
      BY <2>6, <2>7, <2>8, <2>9, <1>21, <1>22, Zenon DEF Keeps
  <1>24. f[l] \in Heaps /\ (f[l].ok => Keeps(f[l], RequestNodes(a), 3))
    <2>1. PICK first \in Nat, k \in Nat : first = 8 /\ k = 3 /\ 1 <= k
      OBVIOUS
    <2>2. PICK base : base = RequestNodes(a)
      OBVIOUS
    <2>3. /\ first <= l /\ f[first] \in Heaps /\ Keeps(f[first], base, k)
          /\ \A n \in (first + 1)..l : text[n] \in Tokens(Names)
      BY <2>1, <2>2, <1>6, <1>22, <1>23, Zenon
    <2>4. f[l] \in Heaps /\ (f[l].ok => Keeps(f[l], base, k))
      <3>1. Follows(f, text, l, first, base, k)
        BY <2>1, <2>3, <1>5, Zenon DEF Follows
      <3>. QED
        BY <3>1, TailKeeps
    <2>. QED
      BY <2>1, <2>2, <2>4, Zenon
  <1>. QED
    BY <1>1, <1>5, <1>24

\* So is the reply.
LEMMA ReplyParsed ==
  ASSUME NEW r, NEW tail \in Tails, parse_xml(Reply(r) \o tail).ok,
         base64_encode(InMemory(r)) \in Seq(Nat), base64_encode(InMemory(r)) # << 65 >>
  PROVE  /\ parse_xml(Reply(r) \o tail) \in Heaps
         /\ Keeps(parse_xml(Reply(r) \o tail), ReplyNodes(r), 2)
  <1>1. PICK text : text = Reply(r) \o tail
    OBVIOUS
  <1> DEFINE x == Base64(base64_encode(InMemory(r)))
             P == Node("params", 0, None)
             R == Node("Result", 1, None)
             Rx == Node("Result", 1, x)
             pr == <<"params", "Result">>
  <1>2. /\ Len(text) \in Nat /\ 5 <= Len(text)
        /\ text[1] = Opens("params") /\ text[2] = Opens("Result")
        /\ text[3] = Chars(x) /\ text[4] = Closes("Result")
        /\ text[5] = Closes("params")
        /\ \A i \in 6..Len(text) : text[i] \in Tokens(Names)
    BY <1>1, ReplyTokens, ZenonT(30)
  <1>3. /\ x # None /\ x \in CharTexts /\ None \in CharTexts
    BY TextKinds DEF CharTexts, None, Base64
  <1>4. PICK l \in Nat : l = Len(text)
    BY <1>2
  <1>5. PICK f : /\ f[0] = Parse(<<>>, 0, <<>>, None)
                 /\ \A n \in 1..l : f[n] = Token(f[n - 1], text[n])
                 /\ parse_xml(text) = f[l]
    BY <1>4, ParseSteps
  <1>6. 5 <= l /\ \A n \in (5 + 1)..l : text[n] \in Tokens(Names)
    BY <1>2, <1>4
  <1>7. /\ f[1] = Token(f[0], text[1]) /\ f[2] = Token(f[1], text[2])
        /\ f[3] = Token(f[2], text[3]) /\ f[4] = Token(f[3], text[4])
        /\ f[5] = Token(f[4], text[5])
    BY <1>5, <1>6
  <1> HIDE DEF x, P, R, Rx, pr
  <1>11. f[1] = Parse(<<P>>, 1, <<"params">>, EmptyText)
    BY <1>2, <1>5, <1>7, OpenFirst DEF P
  <1>12. f[2] = Parse(<<P, R>>, 2, pr, EmptyText)
    BY <1>2, <1>7, <1>11, OpenSecond DEF R, pr
  <1>13. f[3] = Parse(<<P, R>>, 2, pr, x)
    BY <1>2, <1>7, <1>12, TokenText
  <1>14. f[4] = Parse(<<P, Rx>>, 1, <<"params">>, None)
    BY <1>2, <1>3, <1>7, <1>13, CloseSecond DEF R, Rx, pr
  <1>15. f[5] = Parse(<<P, Rx>>, 1, <<>>, None)
    BY <1>2, <1>7, <1>14, CloseTop DEF P
  <1>16. P \in Nodes /\ Rx \in Nodes
    BY <1>3, CallAssumption DEF P, Rx, Node, Nodes
  <1>17. PICK ns, o : ns = <<P, Rx>> /\ o = <<>>
    OBVIOUS
  <1>18. ns \in Seq(Nodes) /\ Len(ns) = 2 /\ o \in Seq(Names)
    BY <1>16, <1>17
  <1>19. f[5] \in Heaps /\ f[5].nodes = ns /\ f[5].at = 1
    BY <1>3, <1>15, <1>17, <1>18 DEF Parse, Heaps
  <1>20. Keeps(f[5], ReplyNodes(r), 2)
    <2>1. ReplyNodes(r)[1] = P /\ ReplyNodes(r)[2] = Rx
      BY DEF ReplyNodes, P, Rx, x
    <2>2. ns[1] = P /\ ns[2] = Rx
      BY <1>17
    <2>3. P.parent = 0
      BY DEF P, Node
    <2>4. (\A i \in 2..2 : i = 2) /\ (\A i \in (2 + 1)..2 : FALSE) /\ 2 <= 2
      OBVIOUS
    <2>5. \A i \in 2..2 : ns[i] = ReplyNodes(r)[i]
      BY <2>1, <2>2, <2>4, Zenon
    <2>6. ns[1].tag = ReplyNodes(r)[1].tag /\ ns[1].parent = 0
      BY <2>1, <2>2, <2>3
    <2>. QED
      BY <2>4, <2>5, <2>6, <1>18, <1>19, Zenon DEF Keeps, TopOrPast
  <1>21. f[l] \in Heaps /\ (f[l].ok => Keeps(f[l], ReplyNodes(r), 2))
    <2>1. PICK first \in Nat, k \in Nat : first = 5 /\ k = 2 /\ 1 <= k
      OBVIOUS
    <2>2. PICK base : base = ReplyNodes(r)
      OBVIOUS
    <2>3. /\ first <= l /\ f[first] \in Heaps /\ Keeps(f[first], base, k)
          /\ \A n \in (first + 1)..l : text[n] \in Tokens(Names)
      BY <2>1, <2>2, <1>6, <1>19, <1>20, Zenon
    <2>4. f[l] \in Heaps /\ (f[l].ok => Keeps(f[l], base, k))
      <3>1. Follows(f, text, l, first, base, k)
        BY <2>1, <2>3, <1>5, Zenon DEF Follows
      <3>. QED
        BY <3>1, TailKeeps
    <2>. QED
      BY <2>1, <2>2, <2>4, Zenon
  <1>. QED
    BY <1>1, <1>5, <1>21

(***************************************************************************)
(* What a query finds in them.                                             *)
(***************************************************************************)
\* The least of the nodes with a tag is the first one with it.
FirstWith(h, n, siblings, t, i) ==
  /\ n \in Nat /\ siblings \in SUBSET (1..n) /\ i \in siblings
  /\ h.nodes[i].tag = t /\ \A j \in siblings : h.nodes[j].tag = t => i <= j

\* It is the node that getXMLNode finds with index 0.
LEMMA FirstNode ==
  ASSUME NEW h, NEW n, NEW siblings, NEW t, NEW i, FirstWith(h, n, siblings, t, i)
  PROVE  getXMLNode(h, siblings, [tag |-> t, index |-> 0]) = i
  <1> USE DEF FirstWith
  <1> DEFINE item == [tag |-> t, index |-> 0]
             named == {j \in siblings : h.nodes[j].tag = item.tag}
             Before(k) == {j \in named : j < k}
             found == {k \in named : Cardinality(Before(k)) = item.index}
  <1>0. item.tag = t /\ item.index = 0
    OBVIOUS
  <1>1. i \in named /\ (\A j \in named : i <= j) /\ named \subseteq 1..n
    BY <1>0
  <1> HIDE DEF named, item
  <1>2. Before(i) = {}
    <2>1. ASSUME NEW j \in named, j < i PROVE FALSE
      <3>1. j \in 1..n /\ i \in 1..n /\ i <= j
        BY <1>1
      <3>. QED
        BY <2>1, <3>1
    <2>. QED
      BY <2>1
  <1>3. ASSUME NEW k \in named, k # i PROVE Cardinality(Before(k)) # 0
    <2>1. i \in Before(k)
      BY <1>1, <1>3
    <2>2. IsFiniteSet(1..n)
      BY FS_Interval
    <2>3. Before(k) \subseteq 1..n
      BY <1>1
    <2>4. IsFiniteSet(Before(k))
      BY <2>2, <2>3, FS_Subset
    <2> HIDE DEF Before
    <2>. QED
      BY <2>1, <2>4, FS_EmptySet
  <1>4. Cardinality(Before(i)) = 0
    BY <1>2, FS_EmptySet
  <1> HIDE DEF Before
  <1>5. found = {i}
    BY <1>0, <1>1, <1>3, <1>4
  <1> HIDE DEF found
  <1>6. getXMLNode(h, siblings, item) = IF found = {} THEN 0 ELSE CHOOSE k \in found : TRUE
    BY Zenon DEF getXMLNode, named, found, Before
  <1>7. getXMLNode(h, siblings, item) = i
    BY <1>5, <1>6
  <1>. QED
    BY <1>7 DEF item

\* The path of getValueFromTagMessage goes through the top to a node below it.
LEMMA QueryPath ==
  ASSUME NEW h, NEW t, NEW i, NEW k, i # 0,
         getXMLNode(h, Children(h, 0), [tag |-> "params", index |-> 0]) = i,
         getXMLNode(h, Children(h, i), [tag |-> t, index |-> 0]) = k
  PROVE  exec_xquery(h, MessagePath(t)) = k
  <1> DEFINE path == MessagePath(t)
             Run(g) == g = [n \in 1..2 |->
                              IF n = 1 THEN getXMLNode(h, Children(h, 0), path[1])
                              ELSE IF g[n - 1] = 0 THEN 0
                              ELSE getXMLNode(h, Children(h, g[n - 1]), path[n])]
  <1>1. /\ Len(path) = 2 /\ path[1] = [tag |-> "params", index |-> 0]
        /\ path[2] = [tag |-> t, index |-> 0]
    BY DEF MessagePath
  <1>2. exec_xquery(h, path) = (CHOOSE g : Run(g))[2]
    BY <1>1 DEF exec_xquery
  <1> HIDE DEF path
  <1>3. Run([n \in 1..2 |-> IF n = 1 THEN i ELSE k])
    BY <1>1
  <1>4. ASSUME NEW g, Run(g) PROVE g[2] = k
    <2>1. g[1] = i
      BY <1>1, <1>4
    <2>. QED
      BY <2>1, <1>1, <1>4
  <1>5. PICK g : g = CHOOSE f : Run(f)
    OBVIOUS
  <1>6. Run(g)
    <2> HIDE DEF Run
    <2>. QED
      BY <1>3, <1>5
  <1>. QED
    BY <1>2, <1>4, <1>5, <1>6 DEF path

\* A query for t finds a node, with this text.
ValueAt(h, t, text) == exec_xquery(h, MessagePath(t)) # 0 /\ QueryText(h, t) = text

\* The top is the only node without a parent, and a node of the message below it is
\* found if it is the first of the message with its tag.
LEMMA Found ==
  ASSUME NEW h \in Heaps, NEW base, NEW k \in Nat, 1 <= k, Keeps(h, base, k),
         base[1].tag = "params", NEW i \in 2..k, base[i].parent = 1, NEW t,
         base[i].tag = t, \A j \in 2..k : base[j].tag = t => i <= j
  PROVE  ValueAt(h, t, base[i].content)
  <1>0. h.nodes \in Seq(Nodes)
    BY DEF Heaps
  <1>1. PICK n \in Nat : n = Len(h.nodes)
    BY <1>0
  <1>2. /\ k <= n
        /\ h.nodes[1].tag = "params" /\ h.nodes[1].parent = 0
        /\ \A j \in 2..k : h.nodes[j] = base[j]
        /\ \A j \in (k + 1)..n : TopOrPast(h.nodes[j].parent, k, n)
    BY <1>1 DEF Keeps
  <1>3. PICK top, below : top = Children(h, 0) /\ below = Children(h, 1)
    OBVIOUS
  <1>4. /\ top \in SUBSET (1..n) /\ below \in SUBSET (1..n)
        /\ \A j \in 1..n : j \in top <=> h.nodes[j].parent = 0
        /\ \A j \in 1..n : j \in below <=> h.nodes[j].parent = 1
    BY <1>1, <1>3 DEF Children
  <1>5. 1 \in top /\ i \in below /\ i \in 1..n
    <2>1. 1 \in 1..n /\ i \in 1..n
      BY <1>2
    <2>. QED
      BY <2>1, <1>2, <1>4
  <1>6. \A j \in top : h.nodes[j].tag = "params" => 1 <= j
    BY <1>4
  <1>7. ASSUME NEW j \in below, h.nodes[j].tag = t PROVE i <= j
    <2>1. j \in 1..n /\ j # 1
      BY <1>2, <1>4
    <2>2. CASE j <= k
      <3>1. j \in 2..k
        BY <2>1, <2>2
      <3>2. base[j].tag = t
        BY <3>1, <1>2, <1>7
      <3>. QED
        BY <3>1, <3>2
    <2>3. CASE ~(j <= k)
      BY <2>1, <2>3
    <2>. QED
      BY <2>2, <2>3
  <1>8. h.nodes[i].tag = t /\ h.nodes[i].content = base[i].content
    BY <1>2
  <1>9. getXMLNode(h, top, [tag |-> "params", index |-> 0]) = 1
    <2>1. PICK i1, p : i1 = 1 /\ p = "params"
      OBVIOUS
    <2>2. /\ top \in SUBSET (1..n) /\ i1 \in top /\ h.nodes[i1].tag = p
          /\ \A j \in top : h.nodes[j].tag = p => i1 <= j
      BY <2>1, <1>2, <1>4, <1>5, <1>6, Zenon
    <2>3. getXMLNode(h, top, [tag |-> p, index |-> 0]) = i1
      <3>1. FirstWith(h, n, top, p, i1)
        BY <2>2, Zenon DEF FirstWith
      <3>. QED
        BY <3>1, FirstNode
    <2>. QED
      BY <2>1, <2>3, Zenon
  <1>10. getXMLNode(h, below, [tag |-> t, index |-> 0]) = i
    <2>1. \A j \in below : h.nodes[j].tag = t => i <= j
      BY <1>7
    <2>2. below \in SUBSET (1..n) /\ i \in below /\ h.nodes[i].tag = t
      BY <1>4, <1>5, <1>8, Zenon
    <2>3. FirstWith(h, n, below, t, i)
      BY <2>1, <2>2, Zenon DEF FirstWith
    <2>. QED
      BY <2>3, FirstNode
  <1>11. exec_xquery(h, MessagePath(t)) = i
    <2>1. 1 # 0
      OBVIOUS
    <2>. QED
      BY <2>1, <1>3, <1>9, <1>10, QueryPath
  <1>12. i # 0
    OBVIOUS
  <1>. QED
    BY <1>8, <1>11, <1>12 DEF ValueAt, QueryText

\* The queries of ParseAckermannFunctionXML find the two arguments.
LEMMA RequestValues ==
  ASSUME NEW h \in Heaps, NEW a \in Nat \X Nat, Keeps(h, RequestNodes(a), 3)
  PROVE  ValueAt(h, "FirstValue", Number(a[1])) /\ ValueAt(h, "SecondValue", Number(a[2]))
  <1>0. PICK ns : ns = RequestNodes(a)
    OBVIOUS
  <1>1. /\ ns[1].tag = "params" /\ ns[2].tag = "FirstValue" /\ ns[3].tag = "SecondValue"
        /\ ns[2].parent = 1 /\ ns[3].parent = 1
        /\ ns[2].content = Number(a[1]) /\ ns[3].content = Number(a[2])
    BY <1>0 DEF RequestNodes, Node
  <1>2. PICK k \in Nat : k = 3
    OBVIOUS
  <1>3. 1 <= k /\ 2 \in 2..k /\ 3 \in 2..k /\ \A j \in 2..k : 2 <= j
    BY <1>2
  <1>4. \A j \in 2..k : ns[j].tag = "SecondValue" => 3 <= j
    <2>1. \A j \in 2..k : j = 2 \/ j = 3
      BY <1>2
    <2>2. "FirstValue" # "SecondValue" /\ 3 <= 3
      OBVIOUS
    <2>. QED
      BY <2>1, <2>2, <1>1, Zenon
  <1>5. Keeps(h, ns, k)
    BY <1>0, <1>2
  <1>6. ValueAt(h, "FirstValue", ns[2].content)
    BY <1>1, <1>3, <1>5, Found
  <1>7. ValueAt(h, "SecondValue", ns[3].content)
    BY <1>1, <1>3, <1>4, <1>5, Found
  <1>. QED
    BY <1>1, <1>6, <1>7

\* The query of core 1 finds the characters of the result.
LEMMA ReplyValue ==
  ASSUME NEW h \in Heaps, NEW r, Keeps(h, ReplyNodes(r), 2)
  PROVE  ValueAt(h, "Result", Base64(base64_encode(InMemory(r))))
  <1>0. PICK ns, c : ns = ReplyNodes(r) /\ c = Base64(base64_encode(InMemory(r)))
    OBVIOUS
  <1>1. /\ ns[1].tag = "params" /\ ns[2].tag = "Result" /\ ns[2].parent = 1
        /\ ns[2].content = c
    BY <1>0 DEF ReplyNodes, Node
  <1>2. PICK k \in Nat : k = 2
    OBVIOUS
  <1>3. 1 <= k /\ 2 \in 2..k /\ \A j \in 2..k : 2 <= j
    BY <1>2
  <1>4. Keeps(h, ns, k)
    BY <1>0, <1>2
  <1>5. ValueAt(h, "Result", ns[2].content)
    BY <1>1, <1>3, <1>4, Found
  <1>. QED
    BY <1>0, <1>1, <1>5

(***************************************************************************)
(* Base64.                                                                 *)
(***************************************************************************)
IsBytes(b) == b \in Seq(Nat) /\ \A k \in 1..Len(b) : b[k] < 256

\* Three bytes as four numbers of six bits, and back.
Six(x, y, z, u, v, w, t) ==
  /\ u = x \div 4 /\ v = (x % 4) * 16 + y \div 16
  /\ w = (y % 16) * 4 + z \div 64 /\ t = z % 64
  /\ u < 64 /\ v < 64 /\ w < 64 /\ t < 64
  /\ u * 4 + v \div 16 = x /\ (v % 16) * 16 + w \div 4 = y /\ (w % 4) * 64 + t = z

\* Three bytes are four numbers of six bits, and can be had back from them.
LEMMA SixBits ==
  ASSUME NEW x \in Nat, NEW y \in Nat, NEW z \in Nat, x < 256, y < 256, z < 256
  PROVE  \E u, v, w, t \in Nat : Six(x, y, z, u, v, w, t)
  <1>1. x \div 4 \in Nat /\ x \div 4 < 64 /\ (x % 4) \in Nat /\ (x % 4) < 4
        /\ x = 4 * (x \div 4) + (x % 4)
    OBVIOUS
  <1>2. y \div 16 \in Nat /\ y \div 16 < 16 /\ (y % 16) \in Nat /\ (y % 16) < 16
        /\ y = 16 * (y \div 16) + (y % 16)
    OBVIOUS
  <1>3. z \div 64 \in Nat /\ z \div 64 < 4 /\ (z % 64) \in Nat /\ (z % 64) < 64
        /\ z = 64 * (z \div 64) + (z % 64)
    OBVIOUS
  <1>4. PICK xh, xl \in Nat : xh = x \div 4 /\ xl = x % 4
    BY <1>1
  <1>5. PICK yh, yl \in Nat : yh = y \div 16 /\ yl = y % 16
    BY <1>2
  <1>6. PICK zh, zl \in Nat : zh = z \div 64 /\ zl = z % 64
    BY <1>3
  <1>7. xh < 64 /\ xl < 4 /\ yh < 16 /\ yl < 16 /\ zh < 4 /\ zl < 64
    BY <1>1, <1>2, <1>3, <1>4, <1>5, <1>6
  <1>8. /\ xl * 16 + yh \in Nat /\ xl * 16 + yh < 64 /\ yl * 4 + zh \in Nat /\ yl * 4 + zh < 64
        /\ (xl * 16 + yh) \div 16 = xl /\ (xl * 16 + yh) % 16 = yh
        /\ (yl * 4 + zh) \div 4 = yl /\ (yl * 4 + zh) % 4 = zh
    BY <1>7
  <1>9. xh * 4 + xl = x /\ yh * 16 + yl = y /\ zh * 64 + zl = z
    BY <1>1, <1>2, <1>3, <1>4, <1>5, <1>6
  <1>10. PICK v, w \in Nat : v = xl * 16 + yh /\ w = yl * 4 + zh
    BY <1>8
  <1>11. /\ xh * 4 + v \div 16 = x /\ (v % 16) * 16 + w \div 4 = y /\ (w % 4) * 64 + zl = z
         /\ v < 64 /\ w < 64
    BY <1>8, <1>9, <1>10
  <1>12. Six(x, y, z, xh, v, w, zl)
    BY <1>4, <1>5, <1>6, <1>7, <1>10, <1>11 DEF Six
  <1>. QED
    BY <1>12

\* A byte of b, 0 behind its end.
Byte(b, k) == IF k <= Len(b) THEN b[k] ELSE 0

\* A byte, or the zero that stands for one past the end.
LEMMA ByteRange ==
  ASSUME NEW b, IsBytes(b), NEW k \in Nat, 1 <= k
  PROVE  Byte(b, k) \in Nat /\ Byte(b, k) < 256
  <1>1. Len(b) \in Nat
    BY DEF IsBytes
  <1>2. CASE k <= Len(b)
    <2>1. k \in 1..Len(b)
      BY <1>1, <1>2
    <2>. QED
      BY <1>2, <2>1 DEF IsBytes, Byte
  <1>3. CASE ~(k <= Len(b))
    BY <1>3 DEF Byte
  <1>. QED
    BY <1>2, <1>3

\* The three bytes from i on, and the characters they become.
Coded(b, i, x, y, z, u, v, w, t) ==
  /\ x = Byte(b, i) /\ y = Byte(b, i + 1) /\ z = Byte(b, i + 2)
  /\ Six(x, y, z, u, v, w, t)
  /\ Quad(b, i)[1] = u /\ Quad(b, i)[2] = v
  /\ Quad(b, i)[3] = IF i + 1 <= Len(b) THEN w ELSE 64
  /\ Quad(b, i)[4] = IF i + 2 <= Len(b) THEN t ELSE 64

\* A group of four characters, by the three bytes it encodes.
LEMMA QuadSix ==
  ASSUME NEW b, IsBytes(b), NEW i \in Nat, 1 <= i
  PROVE  \E x, y, z, u, v, w, t \in Nat : Coded(b, i, x, y, z, u, v, w, t)
  <1>1. i + 1 \in Nat /\ 1 <= i + 1 /\ i + 2 \in Nat /\ 1 <= i + 2
    OBVIOUS
  <1>2. PICK x, y, z \in Nat : /\ x = Byte(b, i) /\ y = Byte(b, i + 1) /\ z = Byte(b, i + 2)
                               /\ x < 256 /\ y < 256 /\ z < 256
    BY <1>1, ByteRange
  <1>3. PICK u, v, w, t \in Nat : Six(x, y, z, u, v, w, t)
    BY <1>2, SixBits
  <1>4. /\ u = x \div 4 /\ v = (x % 4) * 16 + y \div 16
        /\ w = (y % 16) * 4 + z \div 64 /\ t = z % 64
    BY <1>3, Zenon DEF Six
  <1>5. Quad(b, i) = << u, v, IF i + 1 <= Len(b) THEN w ELSE 64,
                        IF i + 2 <= Len(b) THEN t ELSE 64 >>
    <2>1. Quad(b, i) =
            << Byte(b, i) \div 4, (Byte(b, i) % 4) * 16 + Byte(b, i + 1) \div 16,
               IF i + 1 <= Len(b) THEN (Byte(b, i + 1) % 16) * 4 + Byte(b, i + 2) \div 64 ELSE 64,
               IF i + 2 <= Len(b) THEN Byte(b, i + 2) % 64 ELSE 64 >>
      BY Zenon DEF Quad, Byte
    <2>2. Quad(b, i) =
            << x \div 4, (x % 4) * 16 + y \div 16,
               IF i + 1 <= Len(b) THEN (y % 16) * 4 + z \div 64 ELSE 64,
               IF i + 2 <= Len(b) THEN z % 64 ELSE 64 >>
      BY <2>1, <1>2, Zenon
    <2>. QED
      BY <2>2, <1>4, Zenon
  <1>6. Coded(b, i, x, y, z, u, v, w, t)
    <2>1. PICK e, f : /\ e = IF i + 1 <= Len(b) THEN w ELSE 64
                      /\ f = IF i + 2 <= Len(b) THEN t ELSE 64
      OBVIOUS
    <2>2. Quad(b, i) = <<u, v, e, f>>
      BY <2>1, <1>5, Zenon
    <2>3. /\ Quad(b, i)[1] = u /\ Quad(b, i)[2] = v
          /\ Quad(b, i)[3] = e /\ Quad(b, i)[4] = f
      BY <2>2
    <2>. QED
      BY <2>1, <2>3, <1>2, <1>3, Zenon DEF Coded
  <1>. QED
    BY <1>6

\* How many characters base64_encode writes, and which.
Group(c, b, g, i) == /\ c[4 * g + 1] = Quad(b, i)[1] /\ c[4 * g + 2] = Quad(b, i)[2]
                     /\ c[4 * g + 3] = Quad(b, i)[3] /\ c[4 * g + 4] = Quad(b, i)[4]

\* The length of the characters, and the group each of them is in.
LEMMA Encoded ==
  ASSUME NEW b, IsBytes(b), NEW q \in Nat, q = (Len(b) + 2) \div 3
  PROVE  /\ Len(base64_encode(b)) = 4 * q 
         /\ base64_encode(b) = [k \in 1..(4 * q) |-> base64_encode(b)[k]]
         /\ \A g \in Nat : g < q =>
              /\ base64_encode(b)[4 * g + 1] = Quad(b, 3 * g + 1)[1]
              /\ base64_encode(b)[4 * g + 2] = Quad(b, 3 * g + 1)[2]
              /\ base64_encode(b)[4 * g + 3] = Quad(b, 3 * g + 1)[3]
              /\ base64_encode(b)[4 * g + 4] = Quad(b, 3 * g + 1)[4]
  <1> DEFINE e == [k \in 1..(4 * q) |-> Quad(b, 3 * ((k - 1) \div 4) + 1)[1 + ((k - 1) % 4)]]
  <1>1. base64_encode(b) = e
    BY DEF base64_encode
  <1>2. Len(e) = 4 * q
    OBVIOUS
  <1>3. ASSUME NEW g \in Nat, g < q, NEW j \in 1..4
        PROVE  e[4 * g + j] = Quad(b, 3 * g + 1)[j]
    <2>1. 4 * g + j \in 1..(4 * q)
      BY <1>3
    <2>2. (4 * g + j - 1) \div 4 = g /\ 1 + ((4 * g + j - 1) % 4) = j
      BY <1>3
    <2>. QED
      BY <2>1, <2>2
  <1> HIDE DEF e
  <1>4. e = [k \in 1..(4 * q) |-> e[k]]
    BY DEF e
  <1>5. ASSUME NEW g \in Nat, g < q
        PROVE  /\ e[4 * g + 1] = Quad(b, 3 * g + 1)[1] /\ e[4 * g + 2] = Quad(b, 3 * g + 1)[2]
               /\ e[4 * g + 3] = Quad(b, 3 * g + 1)[3] /\ e[4 * g + 4] = Quad(b, 3 * g + 1)[4]
    <2>1. 1 \in 1..4 /\ 2 \in 1..4 /\ 3 \in 1..4 /\ 4 \in 1..4
      OBVIOUS
    <2>. QED
      BY <2>1, <1>3, <1>5
  <1>. QED
    BY <1>1, <1>2, <1>4, <1>5, Zenon

\* The four characters of a group.
LEMMA EncodedGroup ==
  ASSUME NEW b, IsBytes(b), NEW q \in Nat, q = (Len(b) + 2) \div 3, NEW g \in Nat, g < q,
         NEW i, i = 3 * g + 1, NEW c, c = base64_encode(b)
  PROVE  Group(c, b, g, i)
  BY Encoded DEF Group

\* Every character is a number.
LEMMA EncodedNumbers ==
  ASSUME NEW b, IsBytes(b)
  PROVE  base64_encode(b) \in Seq(Nat)
  <1>1. PICK n \in Nat : n = Len(b)
    BY DEF IsBytes
  <1>2. PICK q \in Nat : q = (n + 2) \div 3
    OBVIOUS
  <1>3. PICK c : c = base64_encode(b)
    OBVIOUS
  <1>4. c = [k \in 1..(4 * q) |-> c[k]]
    BY <1>1, <1>2, <1>3, Encoded
  <1>5. ASSUME NEW k \in 1..(4 * q) PROVE c[k] \in Nat
    <2>1. PICK g \in Nat : g = (k - 1) \div 4
      OBVIOUS
    <2>2. g < q /\ (k = 4 * g + 1 \/ k = 4 * g + 2 \/ k = 4 * g + 3 \/ k = 4 * g + 4)
      BY <2>1
    <2>3. PICK i \in Nat : i = 3 * g + 1 /\ 1 <= i
      OBVIOUS
    <2>4. PICK x, y, z, u, v, w, t \in Nat : Coded(b, i, x, y, z, u, v, w, t)
      BY <2>3, QuadSix
    <2>5. Group(c, b, g, i)
      BY <1>1, <1>2, <1>3, <2>2, <2>3, EncodedGroup
    <2>6. /\ c[4 * g + 1] = u /\ c[4 * g + 2] = v
          /\ c[4 * g + 3] = IF i + 1 <= Len(b) THEN w ELSE 64
          /\ c[4 * g + 4] = IF i + 2 <= Len(b) THEN t ELSE 64
      BY <2>4, <2>5, Zenon DEF Coded, Group
    <2>7. /\ c[4 * g + 1] \in Nat /\ c[4 * g + 2] \in Nat
          /\ c[4 * g + 3] \in Nat /\ c[4 * g + 4] \in Nat
      <3>1. 64 \in Nat
        OBVIOUS
      <3>. QED
        BY <3>1, <2>6, Zenon
    <2>. QED
      BY <2>2, <2>7, Zenon
  <1>6. PICK l \in Nat : l = 4 * q
    OBVIOUS
  <1>7. c \in [1..l -> Nat]
    BY <1>4, <1>5, <1>6
  <1>. QED
    BY <1>3, <1>7

\* b in q groups, the last of them with p bytes missing, and its characters c.
Padded(b, q, p, c) == /\ IsBytes(b) /\ q \in Nat /\ p \in Nat /\ p <= 2 /\ 0 < q
                      /\ Len(b) = 3 * q - p /\ q = (Len(b) + 2) \div 3
                      /\ c = base64_encode(b)

\* The padding at the end of the characters makes up for the bytes missing there.
LEMMA Padding ==
  ASSUME NEW b, NEW q, NEW p, NEW c, Padded(b, q, p, c)
  PROVE  Cardinality({i \in 1..(4 * q) : c[i] = 64}) = p
  <1>0. SUFFICES ASSUME IsBytes(b), q \in Nat, p \in Nat, p <= 2, 0 < q,
                        Len(b) = 3 * q - p, q = (Len(b) + 2) \div 3, c = base64_encode(b)
                 PROVE  Cardinality({i \in 1..(4 * q) : c[i] = 64}) = p
    BY DEF Padded
  <1> USE <1>0
  <1> DEFINE Pads == {i \in 1..(4 * q) : c[i] = 64}
  <1>1. ASSUME NEW g \in Nat, g < q
        PROVE  /\ c[4 * g + 1] # 64 /\ c[4 * g + 2] # 64
               /\ (c[4 * g + 3] = 64) = (3 * g + 2 > 3 * q - p)
               /\ (c[4 * g + 4] = 64) = (3 * g + 3 > 3 * q - p)
    <2>1. PICK i \in Nat : i = 3 * g + 1
      OBVIOUS
    <2>2. PICK x, y, z, u, v, w, t \in Nat : Coded(b, i, x, y, z, u, v, w, t)
      <3>1. 1 <= i
        BY <2>1
      <3>. QED
        BY <3>1, QuadSix
    <2>3. Group(c, b, g, i)
      BY <1>1, <2>1, EncodedGroup
    <2>5. u # 64 /\ v # 64 /\ w # 64 /\ t # 64
      <3>1. u < 64 /\ v < 64 /\ w < 64 /\ t < 64
        BY <2>2, Zenon DEF Coded, Six
      <3>. QED
        BY <3>1
    <2>6. /\ c[4 * g + 1] = u /\ c[4 * g + 2] = v
          /\ c[4 * g + 3] = IF i + 1 <= Len(b) THEN w ELSE 64
          /\ c[4 * g + 4] = IF i + 2 <= Len(b) THEN t ELSE 64
      BY <2>2, <2>3, Zenon DEF Coded, Group
    <2>7. /\ (c[4 * g + 3] = 64) = ~(i + 1 <= Len(b))
          /\ (c[4 * g + 4] = 64) = ~(i + 2 <= Len(b))
      BY <2>5, <2>6
    <2>8. /\ (~(i + 1 <= Len(b))) = (3 * g + 2 > 3 * q - p)
          /\ (~(i + 2 <= Len(b))) = (3 * g + 3 > 3 * q - p)
      BY <2>1
    <2>. QED
      BY <2>5, <2>6, <2>7, <2>8, Zenon
  <1>2. ASSUME NEW i \in 1..(4 * q)
        PROVE  (c[i] = 64) = (i > 4 * q - p)
    <2>1. PICK g \in Nat : g = (i - 1) \div 4
      OBVIOUS
    <2>2. g < q /\ (i = 4 * g + 1 \/ i = 4 * g + 2 \/ i = 4 * g + 3 \/ i = 4 * g + 4)
      BY <2>1
    <2>3. CASE i = 4 * g + 1 \/ i = 4 * g + 2
      <3>1. ~(i > 4 * q - p)
        BY <2>2, <2>3
      <3>2. c[i] # 64
        BY <2>2, <2>3, <1>1
      <3>. QED
        BY <3>1, <3>2
    <2>4. CASE i = 4 * g + 3
      <3>1. (3 * g + 2 > 3 * q - p) = (i > 4 * q - p)
        BY <2>2, <2>4
      <3>. QED
        BY <3>1, <2>2, <2>4, <1>1
    <2>5. CASE i = 4 * g + 4
      <3>1. (3 * g + 3 > 3 * q - p) = (i > 4 * q - p)
        BY <2>2, <2>5
      <3>. QED
        BY <3>1, <2>2, <2>5, <1>1
    <2>. QED
      BY <2>2, <2>3, <2>4, <2>5
  <1>3. Pads = {i \in 1..(4 * q) : i > 4 * q - p}
    BY <1>2
  <1> HIDE DEF Pads
  <1>4. Cardinality(Pads) = p
    <2>1. CASE p = 0
      <3>1. Pads = {}
        BY <2>1, <1>3
      <3>. QED
        BY <3>1, <2>1, FS_EmptySet
    <2>2. CASE p = 1
      <3>1. Pads = {4 * q}
        BY <2>2, <1>3
      <3>. QED
        BY <3>1, <2>2, FS_Singleton
    <2>3. CASE p = 2
      <3>1. Pads = {4 * q} \cup {4 * q - 1} /\ 4 * q - 1 \notin {4 * q}
        BY <2>3, <1>3
      <3>2. IsFiniteSet({4 * q}) /\ Cardinality({4 * q}) = 1
        BY FS_Singleton
      <3>3. Cardinality({4 * q} \cup {4 * q - 1}) = Cardinality({4 * q}) + 1
        BY <3>1, <3>2, FS_AddElement
      <3>. QED
        BY <3>1, <3>2, <3>3, <2>3
    <2>. QED
      BY <2>1, <2>2, <2>3
  <1>. QED
    BY <1>4 DEF Pads

(* base64_decode gives back what base64_encode was given, whatever the     *)
(* bytes and however many there are: with no, one or two characters of     *)
(* padding.                                                                *)
THEOREM Base64RoundTrip ==
  ASSUME NEW b, IsBytes(b), b # <<>>
  PROVE  base64_decode(Base64(base64_encode(b))) = b
  <1>1. PICK n \in Nat : n = Len(b)
    BY DEF IsBytes
  <1>2. 0 < n /\ b = [k \in 1..n |-> b[k]]
    BY <1>1 DEF IsBytes
  <1>3. PICK q \in Nat : q = (n + 2) \div 3
    OBVIOUS
  <1>4. PICK p \in Nat : p = 3 * q - n
    <2>1. n + 2 < 3 * q + 3
      BY <1>3
    <2>2. 3 * q - n \in Nat
      BY <2>1
    <2>. QED
      BY <2>2
  <1>5. p <= 2 /\ 0 < q /\ n = 3 * q - p
    BY <1>2, <1>3, <1>4
  <1>6. PICK c : c = base64_encode(b)
    OBVIOUS
  <1>7. Len(c) = 4 * q /\ c = [k \in 1..(4 * q) |-> c[k]]
    BY <1>1, <1>3, <1>6, Encoded
  <1>8. Cardinality({i \in 1..(4 * q) : c[i] = 64}) = p
    <2>1. Len(b) = 3 * q - p /\ q = (Len(b) + 2) \div 3
      BY <1>1, <1>3, <1>5
    <2>2. Padded(b, q, p, c)
      BY <2>1, <1>5, <1>6, Zenon DEF Padded
    <2>. QED
      BY <2>2, Padding
  <1>9. c # <<>> /\ ~(Len(c) % 4 # 0) /\ 3 * (Len(c) \div 4) - p = n
    <2>1. (4 * q) % 4 = 0 /\ (4 * q) \div 4 = q /\ 4 * q # 0
      BY <1>5
    <2>. QED
      BY <2>1, <1>5, <1>7
  <1>10. base64_decode(Base64(c))
           = [k \in 1..n |-> Bytes(c, 4 * ((k - 1) \div 3) + 1)[1 + ((k - 1) % 3)]]
    <2>1. Base64(c).chars = c
      BY TextKinds
    <2>2. {i \in 1..Len(c) : c[i] = 64} = {i \in 1..(4 * q) : c[i] = 64}
      BY <1>7
    <2> DEFINE at(k) == Bytes(c, 4 * ((k - 1) \div 3) + 1)[1 + ((k - 1) % 3)]
               pad == Cardinality({i \in 1..Len(c) : c[i] = 64})
    <2>3. base64_decode(Base64(c))
            = IF c = <<>> \/ Len(c) % 4 # 0 THEN <<>>
              ELSE [k \in 1..(3 * (Len(c) \div 4) - pad) |-> at(k)]
      BY <2>1 DEF base64_decode
    <2>4. pad = p
      BY <2>2, <1>8, Zenon
    <2> HIDE DEF at, pad
    <2>5. base64_decode(Base64(c)) = [k \in 1..(3 * (Len(c) \div 4) - pad) |-> at(k)]
      BY <2>3, <1>9, Zenon
    <2>6. base64_decode(Base64(c)) = [k \in 1..n |-> at(k)]
      BY <2>4, <2>5, <1>9, Zenon
    <2>. QED
      BY <2>6 DEF at
  <1>11. ASSUME NEW k \in 1..n
         PROVE  Bytes(c, 4 * ((k - 1) \div 3) + 1)[1 + ((k - 1) % 3)] = b[k]
    <2>1. PICK g \in Nat : g = (k - 1) \div 3
      OBVIOUS
    <2>2. PICK j \in Nat : j = (k - 1) % 3
      OBVIOUS
    <2>3. g < q /\ (j = 0 \/ j = 1 \/ j = 2) /\ k = 3 * g + 1 + j
      BY <2>1, <2>2, <1>3, <1>5
    <2>4. PICK i \in Nat : i = 3 * g + 1
      OBVIOUS
    <2>5. PICK x, y, z, u, v, w, t \in Nat : Coded(b, i, x, y, z, u, v, w, t)
      <3>1. 1 <= i
        BY <2>4
      <3>. QED
        BY <3>1, QuadSix
    <2>6. /\ c[4 * g + 1] = u /\ c[4 * g + 2] = v
          /\ i + 1 <= n => c[4 * g + 3] = w
          /\ i + 2 <= n => c[4 * g + 4] = t
      <3>1. q = (Len(b) + 2) \div 3 /\ g < q
        BY <2>3, <1>1, <1>3
      <3>2. Group(c, b, g, i)
        BY <3>1, <2>4, <1>6, EncodedGroup
      <3>. QED
        BY <3>2, <2>5, <1>1, Zenon DEF Coded, Group
    <2>8. /\ u < 64 /\ v < 64 /\ w < 64 /\ t < 64
          /\ u * 4 + v \div 16 = x /\ (v % 16) * 16 + w \div 4 = y /\ (w % 4) * 64 + t = z
      BY <2>5, Zenon DEF Coded, Six
    <2>9. u % 64 = u /\ v % 64 = v /\ w % 64 = w /\ t % 64 = t
      BY <2>8
    <2>10. PICK d \in Nat : d = 4 * g + 1
      OBVIOUS
    <2>11. /\ d + 0 = 4 * g + 1 /\ d + 1 = 4 * g + 2 /\ d + 2 = 4 * g + 3 /\ d + 3 = 4 * g + 4
      BY <2>10
    <2>12. /\ c[d + 0] % 64 = u /\ c[d + 1] % 64 = v
           /\ i + 1 <= n => c[d + 2] % 64 = w
           /\ i + 2 <= n => c[d + 3] % 64 = t
      BY <2>6, <2>9, <2>11
    <2>13. ASSUME NEW c0, NEW c1, NEW c2, NEW c3,
                  c0 = c[d + 0] % 64, c1 = c[d + 1] % 64,
                  c2 = c[d + 2] % 64, c3 = c[d + 3] % 64
           PROVE  Bytes(c, d) = << c0 * 4 + c1 \div 16, (c1 % 16) * 16 + c2 \div 4,
                                   (c2 % 4) * 64 + c3 >>
      BY <2>13, Zenon DEF Bytes
    <2>17. PICK c2, c3 : c2 = c[d + 2] % 64 /\ c3 = c[d + 3] % 64
      OBVIOUS
    <2>18. Bytes(c, d) = << u * 4 + v \div 16, (v % 16) * 16 + c2 \div 4, (c2 % 4) * 64 + c3 >>
      <3>1. u = c[d + 0] % 64 /\ v = c[d + 1] % 64
        BY <2>12
      <3>. QED
        BY <3>1, <2>13, <2>17
    <2>14. CASE j = 0
      <3>0. i = k /\ i <= n
        BY <2>3, <2>4, <2>14
      <3>1. Bytes(c, d)[1] = x
        BY <2>8, <2>18
      <3>2. x = b[k]
        BY <3>0, <2>5, <1>1 DEF Coded, Byte
      <3>. QED
        BY <3>1, <3>2, <2>1, <2>2, <2>10, <2>14
    <2>15. CASE j = 1
      <3>0. i + 1 = k /\ i + 1 <= n
        BY <2>3, <2>4, <2>15
      <3>1. Bytes(c, d)[2] = y
        <4>1. c2 = w
          BY <3>0, <2>12, <2>17
        <4>2. Bytes(c, d)[2] = (v % 16) * 16 + w \div 4
          BY <4>1, <2>18
        <4>. QED
          BY <4>2, <2>8
      <3>2. y = b[k]
        BY <3>0, <2>5, <1>1 DEF Coded, Byte
      <3>. QED
        BY <3>1, <3>2, <2>1, <2>2, <2>10, <2>15
    <2>16. CASE j = 2
      <3>0. i + 2 = k /\ i + 2 <= n /\ i + 1 <= n
        BY <2>3, <2>4, <2>16
      <3>1. Bytes(c, d)[3] = z
        <4>1. c2 = w /\ c3 = t
          BY <3>0, <2>12, <2>17
        <4>2. Bytes(c, d)[3] = (w % 4) * 64 + t
          BY <4>1, <2>18
        <4>. QED
          BY <4>2, <2>8
      <3>2. z = b[k]
        BY <3>0, <2>5, <1>1 DEF Coded, Byte
      <3>. QED
        BY <3>1, <3>2, <2>1, <2>2, <2>10, <2>16
    <2>. QED
      BY <2>3, <2>14, <2>15, <2>16
  <1>. QED
    BY <1>2, <1>6, <1>10, <1>11

\* The bytes of a result, and the characters they are sent as.
LEMMA ResultBytes ==
  ASSUME NEW r \in Nat, r <= MaxResult
  PROVE  /\ IsBytes(InMemory(r)) /\ InMemory(r) # <<>> /\ Len(InMemory(r)) = 8
         /\ FromMemory(InMemory(r)) = r
  <1>1. PICK p, q, s, t \in Nat : /\ p = r % 256 /\ q = (r \div 256) % 256
                                  /\ s = (r \div 65536) % 256 /\ t = (r \div 16777216) % 256
    BY SMT
  <1>2. p < 256 /\ q < 256 /\ s < 256 /\ t < 256
    BY <1>1, SMT
  <1>3. InMemory(r) = <<p, q, s, t, 0, 0, 0, 0>>
    BY <1>1, SMT DEF InMemory
  <1>4. p + q * 256 + s * 65536 + t * 16777216 = r
    <2>1. PICK a, b, c \in Nat : a = r \div 256 /\ b = a \div 256 /\ c = b \div 256
      BY SMT
    <2>2. b = r \div 65536 /\ c = r \div 16777216
      BY <2>1, SMT
    <2>3. c < 256
      BY <2>2, SMT DEF MaxResult
    <2>4. r = a * 256 + p /\ a = b * 256 + q
      BY <1>1, <2>1, SMT
    <2>5. b = c * 256 + s /\ c = t
      BY <1>1, <2>1, <2>2, <2>3, SMT
    <2>. QED
      BY <2>4, <2>5, SMT
  <1>5. IsBytes(InMemory(r))
    BY <1>2, <1>3, SMT DEF IsBytes
  <1>. QED
    BY <1>3, <1>4, <1>5, SMT DEF FromMemory

\* Eight bytes are twelve characters.
LEMMA ResultCharacters ==
  ASSUME NEW r \in Nat, r <= MaxResult
  PROVE  /\ Len(base64_encode(InMemory(r))) = 12 /\ base64_encode(InMemory(r)) # << 65 >>
         /\ base64_encode(InMemory(r)) \in Seq(Nat)
  <1>1. PICK b : b = InMemory(r)
    OBVIOUS
  <1>2. IsBytes(b) /\ Len(b) = 8
    BY <1>1, ResultBytes
  <1>3. 3 \in Nat /\ 3 = (Len(b) + 2) \div 3
    BY <1>2
  <1>4. Len(base64_encode(b)) = 4 * 3
    BY <1>2, <1>3, Encoded
  <1>5. Len(base64_encode(b)) = 12 /\ Len(<< 65 >>) = 1
    BY <1>4
  <1>6. base64_encode(b) \in Seq(Nat)
    BY <1>2, EncodedNumbers
  <1>. QED
    BY <1>1, <1>5, <1>6

\* What core 1 prints of a reply.
LEMMA ResultDecoded ==
  ASSUME NEW r \in Nat, r <= MaxResult
  PROVE  /\ ~(Len(base64_decode(Base64(base64_encode(InMemory(r))))) < 8)
         /\ FromMemory(base64_decode(Base64(base64_encode(InMemory(r))))) = r
  <1>1. base64_decode(Base64(base64_encode(InMemory(r)))) = InMemory(r)
    BY ResultBytes, Base64RoundTrip
  <1>2. Len(InMemory(r)) = 8 /\ FromMemory(InMemory(r)) = r
    BY ResultBytes
  <1>3. ~(8 < 8)
    OBVIOUS
  <1>. QED
    BY <1>1, <1>2, <1>3, Zenon

\* The sizes of the reply and of the blocks around it.
LEMMA ReplySizes ==
  BufferSize = 31 /\ EncodedSize = 14 /\ DecodedSize = 9 /\ Written = 50
  <1>1. Len(base64_encode(InMemory(0))) = 12
    <2>1. 0 \in Nat /\ 0 <= MaxResult
      BY SMT DEF MaxResult
    <2>. QED
      BY <2>1, ResultCharacters
  <1>2. Returns.length = 6 /\ Returns.size = 8
    BY DEF Returns
  <1>3. (8 * 4) \div 3 = 10 /\ 4 \div 3 = 1 /\ (12 \div 4) * 3 = 9
    BY SMT
  <1>4. BufferSize = (6 * 2 + 9 + 10) * 1 /\ EncodedSize = 10 + 4
    BY <1>2, <1>3 DEF BufferSize, EncodedSize
  <1>5. DecodedSize = 9
    BY <1>1, <1>3 DEF DecodedSize
  <1>6. Written = (6 + 11) + 12 + (6 + 14) + 1
    BY <1>1, <1>2 DEF Written
  <1>. QED
    BY <1>4, <1>5, <1>6, SMT

(***************************************************************************)
(* Calls between machines.  While the cores of no machine have overlapped, *)
(* a call is in one place: its request is under way, a core 2 serves it,   *)
(* its reply is under way, or core 1 has the reply in hand.                *)
(***************************************************************************)
OneLabels == {"loop", "wait", "parse", "tag", "query", "print", "halted"}
TwoLabels == {"loop", "parse", "tag1", "query1", "atoi1", "tag2", "query2", "atoi2",
              "call", "encode", "decode", "write", "reply", "halted"}

\* The texts of the messages, each with what may follow it.
Dequeued == {<<>>} \cup {Request(a) \o tail : a \in Arguments, tail \in Tails}
                   \cup {Reply(ack[a]) \o tail : a \in Arguments, tail \in Tails}

OneRecords == [at : OneLabels, text : Dequeued, to : SUBSET Machines, args : Nat \X Nat,
               result : Int]
TwoRecords == [at : TwoLabels, text : Dequeued, from : SUBSET Machines, m : Nat, n : Nat,
               res : Nat]

CallTypes ==
  /\ one \in [Machines -> OneRecords] /\ two \in [Machines -> TwoRecords]
  /\ arrow \in [Machines -> SUBSET Machines]
  /\ DOMAIN sys_xml_confg = Machines /\ DOMAIN tagDirectory = Machines
  /\ DOMAIN value = Machines /\ DOMAIN blocks = Machines

\* The packets of the call that m makes to t with arguments a.
Asks(m, t, a)  == [from |-> m, to |-> t, core |-> 2, text |-> Request(a)]
Back(m, t, a) == [from |-> t, to |-> m, core |-> 1, text |-> Reply(ack[a])]

Waits(m, t) == one[m].at = "wait" /\ one[m].to = {t}

\* What core 2 of t has found of the arguments a, at each step of serving them.
Progress(t, a) ==
  /\ two[t].at = "parse" => \E tail \in Tails : two[t].text = Request(a) \o tail
  /\ two[t].at \in {"tag1", "query1", "atoi1", "tag2", "query2"} /\ sys_xml_confg[t].ok =>
       /\ ValueAt(sys_xml_confg[t], "FirstValue", Number(a[1]))
       /\ ValueAt(sys_xml_confg[t], "SecondValue", Number(a[2]))
  /\ two[t].at = "query1" => tagDirectory[t] = "FirstValue"
  /\ two[t].at = "query2" => tagDirectory[t] = "SecondValue"
  /\ two[t].at = "atoi1" => value[t] = Number(a[1])
  /\ two[t].at = "atoi2" => value[t] = Number(a[2])
  /\ two[t].at \in {"tag2", "query2", "atoi2", "call"} => two[t].m = a[1]
  /\ two[t].at = "call" => two[t].n = a[2]
  /\ two[t].at \in {"encode", "decode", "write", "reply"} => two[t].res = ack[a]

\* Core 2 of t serves m, and neither the request nor the reply is under way.
Serves(t, m) == /\ two[t].from = {m} /\ Waits(m, t) /\ Progress(t, one[m].args)
                /\ Asks(m, t, one[m].args) \notin net /\ Back(m, t, one[m].args) \notin net

ServeInv == \A t \in Machines : two[t].at # "loop" => \E m \in Machines : Serves(t, m)

\* A packet is the request or the reply of a call that waits, and not both are there.
NetInv == \A p \in net : \E m, t \in Machines :
            Waits(m, t) /\ (p = Asks(m, t, one[m].args) \/ p = Back(m, t, one[m].args))

OnceInv == \A m, t \in Machines :
             Waits(m, t) => ~(Asks(m, t, one[m].args) \in net /\ Back(m, t, one[m].args) \in net)

\* What core 1 of m has of the result, at each step.
Sent(a) == Base64(base64_encode(InMemory(ack[a])))

Gets(m) ==
  /\ one[m].at # "loop" => one[m].args \in Arguments /\ one[m].result = -1
  /\ one[m].at = "parse" => \E tail \in Tails : one[m].text = Reply(ack[one[m].args]) \o tail
  /\ one[m].at \in {"tag", "query"} /\ sys_xml_confg[m].ok =>
       ValueAt(sys_xml_confg[m], "Result", Sent(one[m].args))
  /\ one[m].at = "query" => tagDirectory[m] = "Result"
  /\ one[m].at = "print" => value[m] = Sent(one[m].args)
  /\ one[m].result = -1 \/ (one[m].args \in Arguments /\ one[m].result = ack[one[m].args])

GetInv == \A m \in Machines : Gets(m)

\* The blocks from the buffer of the reply on are core 2's alone.
Own(len) == [core |-> 2, size |-> len]

OwnBlocks(m) ==
  /\ two[m].at \notin {"encode", "decode", "write"} => blocks[m] = <<>>
  /\ two[m].at = "encode" => blocks[m] = <<Own(BufferSize)>>
  /\ two[m].at = "decode" => blocks[m] = <<Own(BufferSize), Own(EncodedSize)>>
  /\ two[m].at = "write"  =>
       blocks[m] = <<Own(BufferSize), Own(EncodedSize), Own(DecodedSize)>>

BlocksInv == damaged = FALSE /\ \A m \in Machines : OwnBlocks(m)

ApartInv == \A m \in Machines : ~Overlap(m)

CallParts == CallTypes /\ NetInv /\ OnceInv /\ ServeInv /\ GetInv /\ BlocksInv /\ ApartInv

CallInv == ~overlapped => CallParts

\* The bytes of the three blocks that core 2 has when it writes the reply.
LEMMA OwnOfThree ==
  OwnBytes(<<Own(31), Own(14), Own(9)>>) = 54
  <1> DEFINE b == <<Own(31), Own(14), Own(9)>>
             Run(g) == g = [n \in 0..3 |-> IF n = 0 THEN 0 ELSE g[n - 1] + b[n].size]
  <1>1. Len(b) = 3 /\ b[1].size = 31 /\ b[2].size = 14 /\ b[3].size = 9
    BY DEF Own
  <1>2. {i \in 1..Len(b) : b[i].core # 2} = {}
    BY DEF Own
  <1>3. OwnBytes(b) = (CHOOSE g : Run(g))[3]
    BY <1>1, <1>2 DEF OwnBytes
  <1> HIDE DEF b
  <1>4. Run([n \in 0..3 |-> IF n = 0 THEN 0 ELSE IF n = 1 THEN 31 ELSE IF n = 2 THEN 45 ELSE 54])
    BY <1>1
  <1>5. ASSUME NEW g, Run(g) PROVE g[3] = 54
    <2>1. g[0] = 0
      BY <1>5
    <2>2. g[1] = 31
      BY <2>1, <1>1, <1>5
    <2>3. g[2] = 45
      BY <2>2, <1>1, <1>5
    <2>. QED
      BY <2>3, <1>1, <1>5
  <1>6. PICK g : g = CHOOSE f : Run(f)
    OBVIOUS
  <1>7. Run(g)
    <2> HIDE DEF Run
    <2>. QED
      BY <1>4, <1>6
  <1>. QED
    BY <1>3, <1>5, <1>6, <1>7 DEF b

\* What core 2 has found stays found where nothing it looks at changes.
LEMMA ProgressSame ==
  ASSUME NEW t, NEW k, Progress(t, one[k].args), one'[k] = one[k], two'[t] = two[t],
         sys_xml_confg'[t] = sys_xml_confg[t], tagDirectory'[t] = tagDirectory[t],
         value'[t] = value[t]
  PROVE  Progress(t, one[k].args)'
  BY ZenonT(30) DEF Progress

\* The same for what core 1 has.
LEMMA GetsSame ==
  ASSUME NEW k, Gets(k), one'[k] = one[k], sys_xml_confg'[k] = sys_xml_confg[k],
         tagDirectory'[k] = tagDirectory[k], value'[k] = value[k]
  PROVE  Gets(k)'
  BY ZenonT(30) DEF Gets

\* A step of core 1 on a reply it has in hand leaves the packets, the other machines
\* and its own core 2 alone, which has nothing in the XML service now.
OneFrame(m) ==
  /\ \A k \in Machines : k # m =>
       /\ one'[k] = one[k] /\ sys_xml_confg'[k] = sys_xml_confg[k]
       /\ tagDirectory'[k] = tagDirectory[k] /\ value'[k] = value[k]
  /\ one[m].at # "wait" /\ one'[m].at # "wait"
  /\ net' = net /\ two' = two /\ two[m].at \in {"loop", "reply", "halted"}

\* Such a step keeps what is said of the packets, of who is served, and of the others.
LEMMA OneFramed ==
  ASSUME CallParts, NEW m \in Machines, OneFrame(m)
  PROVE  NetInv' /\ OnceInv' /\ ServeInv' /\ \A k \in Machines : k # m => Gets(k)'
  <1>1. \A k \in Machines : k # m =>
          /\ one'[k] = one[k] /\ sys_xml_confg'[k] = sys_xml_confg[k]
          /\ tagDirectory'[k] = tagDirectory[k] /\ value'[k] = value[k]
    BY DEF OneFrame
  <1>2. net' = net /\ two' = two /\ two[m].at \in {"loop", "reply", "halted"}
    BY DEF OneFrame
  <1>3. \A k, t \in Machines : Waits(k, t) => Waits(k, t)' /\ one'[k] = one[k]
    BY <1>1 DEF OneFrame, Waits
  <1>4. \A k, t \in Machines : Waits(k, t)' => Waits(k, t) /\ one'[k] = one[k]
    BY <1>1 DEF OneFrame, Waits
  <1>5. NetInv'
    BY <1>2, <1>3 DEF CallParts, NetInv, Asks, Back
  <1>6. OnceInv'
    BY <1>2, <1>4 DEF CallParts, OnceInv, Asks, Back
  <1>7. ServeInv'
    <2> SUFFICES ASSUME NEW t \in Machines, two[t].at # "loop"
                 PROVE  \E k \in Machines : Serves(t, k)'
      BY <1>2 DEF ServeInv
    <2>1. PICK k \in Machines : Serves(t, k)
      BY DEF CallParts, ServeInv
    <2>2. Waits(k, t)' /\ one'[k] = one[k]
      BY <2>1, <1>3 DEF Serves
    <2>3. Progress(t, one[k].args)
      BY <2>1 DEF Serves
    <2>4. CASE t = m
      <3>1. two[t].at = "reply" \/ two[t].at = "halted"
        BY <2>4, <1>2
      <3>2. Progress(t, one[k].args)'
        BY <3>1, <2>2, <2>3, <1>2 DEF Progress
      <3>. QED
        BY <3>2, <2>1, <2>2, <1>2 DEF Serves, Asks, Back
    <2>5. CASE t # m
      <3>1. Progress(t, one[k].args)'
        BY <2>5, <2>2, <2>3, <1>1, <1>2, ProgressSame
      <3>. QED
        BY <3>1, <2>1, <2>2, <1>2 DEF Serves, Asks, Back
    <2>. QED
      BY <2>4, <2>5
  <1>8. ASSUME NEW k \in Machines, k # m PROVE Gets(k)'
    <2>1. Gets(k)
      BY DEF CallParts, GetInv
    <2>. QED
      BY <2>1, <1>1, <1>8, GetsSame
  <1>. QED
    BY <1>5, <1>6, <1>7, <1>8

\* A step of core 2 on a request leaves the packets and the callers alone; its own
\* core 1 has nothing in the XML service now.
TwoFrame(t) ==
  /\ \A k \in Machines : k # t =>
       /\ two'[k] = two[k] /\ sys_xml_confg'[k] = sys_xml_confg[k]
       /\ tagDirectory'[k] = tagDirectory[k] /\ value'[k] = value[k]
  /\ two[t].at # "loop" /\ two'[t].from = two[t].from
  /\ net' = net /\ one' = one /\ one[t].at \in {"loop", "wait", "halted"}

\* Such a step keeps what is said of the packets and of the callers.
LEMMA TwoFramed ==
  ASSUME CallParts, NEW t \in Machines, TwoFrame(t),
         \A k \in Machines : Progress(t, one[k].args) => Progress(t, one[k].args)'
  PROVE  NetInv' /\ OnceInv' /\ ServeInv' /\ GetInv'
  <1>1. \A k \in Machines : k # t =>
          /\ two'[k] = two[k] /\ sys_xml_confg'[k] = sys_xml_confg[k]
          /\ tagDirectory'[k] = tagDirectory[k] /\ value'[k] = value[k]
    BY DEF TwoFrame
  <1>2. net' = net /\ one' = one /\ one[t].at \in {"loop", "wait", "halted"}
    BY DEF TwoFrame
  <1>3. NetInv' /\ OnceInv'
    BY <1>2 DEF CallParts, NetInv, OnceInv, Asks, Back, Waits
  <1>4. ServeInv'
    <2> SUFFICES ASSUME NEW s \in Machines, two'[s].at # "loop"
                 PROVE  \E k \in Machines : Serves(s, k)'
      BY DEF ServeInv
    <2>1. two[s].at # "loop"
      BY <1>1 DEF TwoFrame
    <2>2. PICK k \in Machines : Serves(s, k)
      BY <2>1 DEF CallParts, ServeInv
    <2>3. Progress(s, one[k].args)
      BY <2>2 DEF Serves
    <2>4. Progress(s, one[k].args)'
      <3>1. CASE s = t
        BY <3>1, <2>3
      <3>2. CASE s # t
        BY <3>2, <2>3, <1>1, <1>2, ProgressSame
      <3>. QED
        BY <3>1, <3>2
    <2>5. two'[s].from = two[s].from
      BY <1>1 DEF TwoFrame
    <2>. QED
      BY <2>2, <2>4, <2>5, <1>2 DEF Serves, Waits, Asks, Back
  <1>5. GetInv'
    <2> SUFFICES ASSUME NEW k \in Machines PROVE Gets(k)'
      BY DEF GetInv
    <2>1. Gets(k)
      BY DEF CallParts, GetInv
    <2>2. CASE k = t
      <3>1. one[k].at = "loop" \/ one[k].at = "wait" \/ one[k].at = "halted"
        BY <2>2, <1>2
      <3>. QED
        BY <3>1, <2>1, <1>2 DEF Gets
    <2>3. CASE k # t
      BY <2>3, <2>1, <1>1, <1>2, GetsSame
    <2>. QED
      BY <2>2, <2>3
  <1>. QED
    BY <1>3, <1>4, <1>5
\* While core 1 has a reply in hand its machine has no blocks of a reply of its own.
LEMMA OneApart ==
  ASSUME CallParts, NEW m \in Machines, one[m].at \notin {"loop", "wait", "halted"}
  PROVE  two[m].at \in {"loop", "reply", "halted"} /\ blocks[m] = <<>>
  <1>1. two[m].at \in {"loop", "reply", "halted"}
    BY DEF CallParts, ApartInv, Overlap
  <1>2. OwnBlocks(m)
    BY DEF CallParts, BlocksInv
  <1>. QED
    BY <1>1, <1>2 DEF OwnBlocks

SameBlocks == DOMAIN blocks' = Machines /\ \A k \in Machines : blocks'[k] = blocks[k]

\* A kmalloc where there are no such blocks leaves them as they are.
LEMMA NoBlock ==
  ASSUME CallTypes, NEW m \in Machines, NEW c, NEW sizes, kmalloc(m, c, sizes), blocks[m] = <<>>
  PROVE  SameBlocks
  BY Zenon DEF CallTypes, kmalloc, SameBlocks

\* The blocks stay core 2's own where nothing of them changes.
LEMMA BlocksSame ==
  ASSUME NEW k, OwnBlocks(k), two'[k] = two[k], blocks'[k] = blocks[k]
  PROVE  OwnBlocks(k)'
  BY ZenonT(30) DEF OwnBlocks

\* The same for all machines.
LEMMA BlocksKept ==
  ASSUME CallParts, SameBlocks, two' = two, damaged' = damaged
  PROVE  BlocksInv'
  <1>1. damaged = FALSE /\ \A k \in Machines : OwnBlocks(k)
    BY DEF CallParts, BlocksInv
  <1>2. \A k \in Machines : OwnBlocks(k)'
    BY <1>1, BlocksSame DEF SameBlocks
  <1>. QED
    BY <1>1, <1>2 DEF BlocksInv

\* The label of core 1, or of core 2, set to another.
LEMMA OneMoves ==
  ASSUME CallTypes, NEW m \in Machines, NEW l \in OneLabels, one' = [one EXCEPT ![m].at = l]
  PROVE  /\ one' \in [Machines -> OneRecords]
         /\ one'[m].at = l /\ one'[m].text = one[m].text /\ one'[m].to = one[m].to
         /\ one'[m].args = one[m].args /\ one'[m].result = one[m].result
         /\ \A k \in Machines : k # m => one'[k] = one[k]
  <1>1. one \in [Machines -> OneRecords]
    BY DEF CallTypes
  <1>2. one[m] \in OneRecords
    BY <1>1
  <1>3. PICK r : r = [one[m] EXCEPT !.at = l]
    OBVIOUS
  <1>4. one' = [one EXCEPT ![m] = r]
    BY <1>3
  <1>5. /\ r.at = l /\ r.text = one[m].text /\ r.to = one[m].to
        /\ r.args = one[m].args /\ r.result = one[m].result
    BY <1>2, <1>3 DEF OneRecords
  <1>6. r \in OneRecords
    BY <1>2, <1>3 DEF OneRecords
  <1>7. one'[m] = r /\ \A k \in Machines : k # m => one'[k] = one[k]
    BY <1>1, <1>4
  <1>8. one' \in [Machines -> OneRecords]
    BY <1>1, <1>4, <1>6
  <1>. QED
    BY <1>5, <1>7, <1>8

\* The same for core 2.
LEMMA TwoMoves ==
  ASSUME CallTypes, NEW m \in Machines, NEW l \in TwoLabels, two' = [two EXCEPT ![m].at = l]
  PROVE  /\ two' \in [Machines -> TwoRecords]
         /\ two'[m].at = l /\ two'[m].text = two[m].text /\ two'[m].from = two[m].from
         /\ two'[m].m = two[m].m /\ two'[m].n = two[m].n /\ two'[m].res = two[m].res
         /\ \A k \in Machines : k # m => two'[k] = two[k]
  <1>1. two \in [Machines -> TwoRecords]
    BY DEF CallTypes
  <1>2. two[m] \in TwoRecords
    BY <1>1
  <1>3. PICK r : r = [two[m] EXCEPT !.at = l]
    OBVIOUS
  <1>4. two' = [two EXCEPT ![m] = r]
    BY <1>3
  <1>5. /\ r.at = l /\ r.text = two[m].text /\ r.from = two[m].from
        /\ r.m = two[m].m /\ r.n = two[m].n /\ r.res = two[m].res
    BY <1>2, <1>3 DEF TwoRecords
  <1>6. r \in TwoRecords
    BY <1>2, <1>3 DEF TwoRecords
  <1>7. two'[m] = r /\ \A k \in Machines : k # m => two'[k] = two[k]
    BY <1>1, <1>4
  <1>8. two' \in [Machines -> TwoRecords]
    BY <1>1, <1>4, <1>6
  <1>. QED
    BY <1>5, <1>7, <1>8

\* Core 1 parses the reply, with its own text in the XML service ...
LEMMA OneParsesKeeps ==
  ASSUME CallParts, NEW m \in Machines, OneParses(m)
  PROVE  CallTypes' /\ NetInv' /\ OnceInv' /\ ServeInv' /\ GetInv' /\ BlocksInv'
  <1>0. CallTypes
    BY DEF CallParts
  <1>1. one[m].at = "parse" /\ one' = [one EXCEPT ![m].at = "tag"]
    BY DEF OneParses, OneStep
  <1>2. two[m].at \in {"loop", "reply", "halted"} /\ blocks[m] = <<>>
    BY <1>1, OneApart
  <1>3. two' = two /\ net' = net /\ arrow' = arrow /\ damaged' = damaged
    BY DEF OneParses
  <1>4. SameBlocks
    <2>1. kmalloc(m, 1, <<Large>>)
      BY DEF OneParses
    <2>. QED
      BY <2>1, <1>0, <1>2, NoBlock
  <1>5. /\ tagDirectory' = tagDirectory /\ value' = value
        /\ sys_xml_confg' = [sys_xml_confg EXCEPT ![m] =
             IF parse_xml(one[m].text).ok THEN parse_xml(one[m].text) ELSE NoTree]
    BY DEF OneParses, ParseXMLString
  <1>10. /\ one' \in [Machines -> OneRecords] /\ one'[m].at = "tag"
         /\ one'[m].args = one[m].args /\ one'[m].result = one[m].result
         /\ \A k \in Machines : k # m => one'[k] = one[k]
    <2>1. "tag" \in OneLabels
      BY DEF OneLabels
    <2>. QED
      BY <2>1, <1>0, <1>1, OneMoves
  <1>6. CallTypes'
    BY <1>0, <1>10, <1>3, <1>4, <1>5 DEF CallTypes, SameBlocks
  <1>7. OneFrame(m)
    <2>1. one'[m].at = "tag" /\ \A k \in Machines : k # m => one'[k] = one[k]
      BY <1>10
    <2>2. \A k \in Machines : k # m => sys_xml_confg'[k] = sys_xml_confg[k]
      BY <1>0, <1>5 DEF CallTypes
    <2>. QED
      BY <2>1, <2>2, <1>1, <1>2, <1>3, <1>5 DEF OneFrame
  <1>8. Gets(m)'
    <2>1. Gets(m)
      BY DEF CallParts, GetInv
    <2>2. PICK a : a = one[m].args /\ a \in Arguments
      BY <2>1, <1>1 DEF Gets
    <2>3. PICK tail \in Tails : one[m].text = Reply(ack[a]) \o tail
      BY <2>1, <2>2, <1>1 DEF Gets
    <2>4. ack[a] \in Nat /\ ack[a] <= MaxResult
      BY <2>2, ResultAssumption
    <2>5. PICK r : r = ack[a]
      OBVIOUS
    <2>6. base64_encode(InMemory(r)) # << 65 >> /\ base64_encode(InMemory(r)) \in Seq(Nat)
      BY <2>4, <2>5, ResultCharacters
    <2>9. ASSUME sys_xml_confg'[m].ok
          PROVE  ValueAt(sys_xml_confg'[m], "Result", Sent(a))
      <3>1. /\ sys_xml_confg'[m] = parse_xml(one[m].text)
            /\ parse_xml(one[m].text).ok
        <4>1. ~NoTree.ok
          BY DEF NoTree, xml_heap_init
        <4>2. sys_xml_confg'[m]
                = IF parse_xml(one[m].text).ok THEN parse_xml(one[m].text) ELSE NoTree
          BY <1>0, <1>5 DEF CallTypes
        <4>. QED
          BY <2>9, <4>1, <4>2
      <3>2. PICK h : h = parse_xml(one[m].text)
        OBVIOUS
      <3>3. h \in Heaps /\ Keeps(h, ReplyNodes(r), 2)
        BY <3>1, <3>2, <2>3, <2>5, <2>6, ReplyParsed
      <3>4. ValueAt(h, "Result", Base64(base64_encode(InMemory(r))))
        BY <3>3, ReplyValue
      <3>. QED
        BY <3>1, <3>2, <3>4, <2>5, Zenon DEF Sent
    <2>. QED
      BY <2>1, <2>2, <2>9, <1>10, <1>1 DEF Gets
  <1>9. BlocksInv'
    BY <1>3, <1>4, BlocksKept
  <1>. QED
    BY <1>6, <1>7, <1>8, <1>9, OneFramed DEF GetInv

\* ... names the tag ...
LEMMA OneNamesKeeps ==
  ASSUME CallParts, NEW m \in Machines, OneNames(m)
  PROVE  CallTypes' /\ NetInv' /\ OnceInv' /\ ServeInv' /\ GetInv' /\ BlocksInv'
  <1>0. CallTypes
    BY DEF CallParts
  <1>1. one[m].at = "tag" /\ one' = [one EXCEPT ![m].at = "query"]
    BY DEF OneNames, OneStep
  <1>2. two[m].at \in {"loop", "reply", "halted"}
    BY <1>1, OneApart
  <1>3. /\ two' = two /\ net' = net /\ arrow' = arrow /\ damaged' = damaged /\ blocks' = blocks
        /\ sys_xml_confg' = sys_xml_confg /\ value' = value
        /\ tagDirectory' = [tagDirectory EXCEPT ![m] = "Result"]
    BY DEF OneNames, Returns
  <1>5. /\ one' \in [Machines -> OneRecords] /\ one'[m].at = "query"
        /\ one'[m].args = one[m].args /\ one'[m].result = one[m].result
        /\ \A k \in Machines : k # m => one'[k] = one[k]
    <2>1. "query" \in OneLabels
      BY DEF OneLabels
    <2>. QED
      BY <2>1, <1>0, <1>1, OneMoves
  <1>4. CallTypes'
    BY <1>0, <1>5, <1>3 DEF CallTypes
  <1>6. /\ tagDirectory'[m] = "Result"
        /\ \A k \in Machines : k # m => tagDirectory'[k] = tagDirectory[k]
    BY <1>0, <1>3 DEF CallTypes
  <1>7. OneFrame(m)
    BY <1>1, <1>2, <1>3, <1>5, <1>6 DEF OneFrame
  <1>8. Gets(m)'
    <2>1. Gets(m)
      BY DEF CallParts, GetInv
    <2>. QED
      BY <2>1, <1>1, <1>3, <1>5, <1>6 DEF Gets
  <1>9. BlocksInv'
    BY <1>0, <1>3, BlocksKept DEF SameBlocks, CallTypes
  <1>. QED
    BY <1>4, <1>7, <1>8, <1>9, OneFramed DEF GetInv

\* What getValueFromTagMessage leaves in the value of a machine.
LEMMA ValueFound ==
  ASSUME CallTypes, NEW m \in Machines, getValueFromTagMessage(m)
  PROVE  /\ DOMAIN value' = Machines /\ sys_xml_confg[m].ok
         /\ \A k \in Machines : k # m => value'[k] = value[k]
         /\ \A text : ValueAt(sys_xml_confg[m], tagDirectory[m], text) => value'[m] = text
  BY DEF CallTypes, getValueFromTagMessage, ValueAt

\* ... takes the value ...
LEMMA OneQueriesKeeps ==
  ASSUME CallParts, NEW m \in Machines, OneQueries(m)
  PROVE  CallTypes' /\ NetInv' /\ OnceInv' /\ ServeInv' /\ GetInv' /\ BlocksInv'
  <1>0. CallTypes
    BY DEF CallParts
  <1>1. PICK l \in {"print", "halted"} :
             /\ one[m].at = "query" /\ one' = [one EXCEPT ![m].at = l]
             /\ l = "print" => getValueFromTagMessage(m)
             /\ l = "halted" => value' = value
    BY Zenon DEF OneQueries, OneStep, QueryFaults
  <1>2. two[m].at \in {"loop", "reply", "halted"}
    BY <1>1, OneApart
  <1>3. /\ two' = two /\ net' = net /\ arrow' = arrow /\ damaged' = damaged /\ blocks' = blocks
        /\ sys_xml_confg' = sys_xml_confg /\ tagDirectory' = tagDirectory
    BY DEF OneQueries
  <1>4. /\ DOMAIN value' = Machines /\ \A k \in Machines : k # m => value'[k] = value[k]
        /\ l = "print" =>
             /\ sys_xml_confg[m].ok
             /\ \A text : ValueAt(sys_xml_confg[m], tagDirectory[m], text) => value'[m] = text
    <2>1. CASE l = "print"
      BY <2>1, <1>0, <1>1, ValueFound
    <2>2. CASE l = "halted"
      BY <2>2, <1>0, <1>1 DEF CallTypes
    <2>. QED
      BY <2>1, <2>2, <1>1
  <1>6. /\ one' \in [Machines -> OneRecords] /\ one'[m].at = l
        /\ one'[m].args = one[m].args /\ one'[m].result = one[m].result
        /\ \A k \in Machines : k # m => one'[k] = one[k]
    <2>1. l \in OneLabels
      BY DEF OneLabels
    <2>. QED
      BY <2>1, <1>0, <1>1, OneMoves
  <1>5. CallTypes'
    BY <1>0, <1>6, <1>3, <1>4 DEF CallTypes
  <1>7. OneFrame(m)
    BY <1>1, <1>2, <1>3, <1>4, <1>6 DEF OneFrame
  <1>8. Gets(m)'
    <2>1. Gets(m)
      BY DEF CallParts, GetInv
    <2>2. l = "print" => value'[m] = Sent(one[m].args)
      BY <2>1, <1>1, <1>4 DEF Gets
    <2>. QED
      BY <2>1, <2>2, <1>1, <1>6 DEF Gets
  <1>9. BlocksInv'
    BY <1>0, <1>3, BlocksKept DEF SameBlocks, CallTypes
  <1>. QED
    BY <1>5, <1>7, <1>8, <1>9, OneFramed DEF GetInv

\* ... and prints what base64_decode makes of it.
LEMMA PrintsKeeps ==
  ASSUME CallParts, NEW m \in Machines, Prints(m)
  PROVE  CallTypes' /\ NetInv' /\ OnceInv' /\ ServeInv' /\ GetInv' /\ BlocksInv'
  <1>0. CallTypes
    BY DEF CallParts
  <1>1. PICK r : r = IF Len(base64_decode(value[m])) < 8 THEN -2
                     ELSE FromMemory(base64_decode(value[m]))
    OBVIOUS
  <1>2. /\ one[m].at = "print"
        /\ one' = [one EXCEPT ![m] = [@ EXCEPT !.at = "loop", !.text = <<>>, !.result = r]]
        /\ arrow' = [arrow EXCEPT ![m] = @ \ one[m].to]
    BY <1>1, Zenon DEF Prints
  <1>3. two[m].at \in {"loop", "reply", "halted"} /\ blocks[m] = <<>>
    BY <1>2, OneApart
  <1>4. /\ two' = two /\ net' = net /\ damaged' = damaged
        /\ sys_xml_confg' = sys_xml_confg /\ tagDirectory' = tagDirectory /\ value' = value
    BY DEF Prints, xml
  <1>5. SameBlocks
    <2>1. kmalloc(m, 1, <<DecodedSize>>)
      BY DEF Prints
    <2>. QED
      BY <2>1, <1>0, <1>3, NoBlock
  <1>6. one[m].args \in Arguments /\ r = ack[one[m].args] /\ r \in Nat
    <2>1. Gets(m)
      BY DEF CallParts, GetInv
    <2>2. PICK a : a = one[m].args /\ a \in Arguments
      BY <2>1, <1>2 DEF Gets
    <2>3. value[m] = Base64(base64_encode(InMemory(ack[a])))
      BY <2>1, <2>2, <1>2 DEF Gets, Sent
    <2>4. ack[a] \in Nat /\ ack[a] <= MaxResult
      BY <2>2, ResultAssumption
    <2>5. /\ ~(Len(base64_decode(value[m])) < 8)
          /\ FromMemory(base64_decode(value[m])) = ack[a]
      BY <2>3, <2>4, ResultDecoded
    <2>. QED
      BY <2>2, <2>4, <2>5, <1>1
  <1>7. CallTypes'
    <2>1. PICK q : q = [one[m] EXCEPT !.at = "loop", !.text = <<>>, !.result = r]
      OBVIOUS
    <2>2. one[m] \in OneRecords
      BY <1>0 DEF CallTypes
    <2>3. "loop" \in OneLabels /\ <<>> \in Dequeued
      BY DEF OneLabels, Dequeued
    <2>4. q \in OneRecords
      <3>1. q = [at |-> "loop", text |-> <<>>, to |-> one[m].to, args |-> one[m].args,
                 result |-> r]
        BY <2>1, <2>2 DEF OneRecords
      <3>2. r \in Int
        BY <1>6
      <3>3. one[m].to \in SUBSET Machines /\ one[m].args \in Nat \X Nat
        BY <2>2 DEF OneRecords
      <3>. QED
        BY <3>1, <3>2, <3>3, <2>3, Zenon DEF OneRecords
    <2>5. one' = [one EXCEPT ![m] = q]
      BY <2>1, <1>2
    <2>6. one' \in [Machines -> OneRecords]
      BY <2>4, <2>5, <1>0 DEF CallTypes
    <2>7. arrow' \in [Machines -> SUBSET Machines]
      BY <1>0, <1>2 DEF CallTypes
    <2>. QED
      BY <2>6, <2>7, <1>0, <1>4, <1>5 DEF CallTypes, SameBlocks
  <1>8. /\ one'[m].at = "loop" /\ one'[m].args = one[m].args /\ one'[m].result = r
        /\ \A k \in Machines : k # m => one'[k] = one[k]
    BY <1>0, <1>2 DEF CallTypes
  <1>9. OneFrame(m)
    BY <1>2, <1>3, <1>4, <1>8 DEF OneFrame
  <1>10. Gets(m)'
    BY <1>6, <1>8 DEF Gets
  <1>11. BlocksInv'
    BY <1>4, <1>5, BlocksKept
  <1>. QED
    BY <1>7, <1>9, <1>10, <1>11, OneFramed DEF GetInv
(***************************************************************************)
(* Core 2: its local steps.                                                *)
(***************************************************************************)
\* While core 2 serves a request, up to having written the reply, its core 1 has
\* nothing in the XML service.
LEMMA TwoApart ==
  ASSUME CallParts, NEW t \in Machines, two[t].at \notin {"loop", "reply", "halted"}
  PROVE  one[t].at \in {"loop", "wait", "halted"}
  BY DEF CallParts, ApartInv, Overlap

\* The arguments of whoever is served.
LEMMA Served ==
  ASSUME CallParts, NEW t \in Machines, two[t].at # "loop"
  PROVE  \E a \in Arguments, m \in Machines : /\ Serves(t, m) /\ a = one[m].args
                                              /\ a \in Nat \X Nat /\ Progress(t, a)
  <1>1. PICK m \in Machines : Serves(t, m)
    BY DEF CallParts, ServeInv
  <1>2. Gets(m) /\ one[m].at # "loop"
    BY <1>1 DEF CallParts, GetInv, Serves, Waits
  <1>3. one[m].args \in Arguments
    BY <1>2 DEF Gets
  <1>. QED
    BY <1>1, <1>3, CallAssumption DEF Serves

\* Core 2 parses the request ...
LEMMA TwoParsesKeeps ==
  ASSUME CallParts, NEW t \in Machines, TwoParses(t)
  PROVE  CallTypes' /\ NetInv' /\ OnceInv' /\ ServeInv' /\ GetInv' /\ BlocksInv'
  <1>0. CallTypes
    BY DEF CallParts
  <1>1. two[t].at = "parse" /\ two' = [two EXCEPT ![t].at = "tag1"]
    BY DEF TwoParses, TwoStep
  <1>2. one[t].at \in {"loop", "wait", "halted"}
    BY <1>1, TwoApart
  <1>3. /\ one' = one /\ net' = net /\ arrow' = arrow /\ damaged' = damaged /\ blocks' = blocks
        /\ tagDirectory' = tagDirectory /\ value' = value
        /\ sys_xml_confg' = [sys_xml_confg EXCEPT ![t] =
             IF parse_xml(two[t].text).ok THEN parse_xml(two[t].text) ELSE NoTree]
    BY DEF TwoParses, ParseXMLString
  <1>4. /\ two' \in [Machines -> TwoRecords] /\ two'[t].at = "tag1"
        /\ two'[t].from = two[t].from /\ \A k \in Machines : k # t => two'[k] = two[k]
    <2>1. "tag1" \in TwoLabels
      BY DEF TwoLabels
    <2>. QED
      BY <2>1, <1>0, <1>1, TwoMoves
  <1>5. CallTypes'
    BY <1>0, <1>3, <1>4 DEF CallTypes
  <1>6. TwoFrame(t)
    <2>1. \A k \in Machines : k # t => sys_xml_confg'[k] = sys_xml_confg[k]
      BY <1>0, <1>3 DEF CallTypes
    <2>. QED
      BY <2>1, <1>1, <1>2, <1>3, <1>4 DEF TwoFrame
  <1>7. \A k \in Machines : Progress(t, one[k].args) => Progress(t, one[k].args)'
    <2> SUFFICES ASSUME NEW k \in Machines, Progress(t, one[k].args)
                 PROVE  Progress(t, one[k].args)'
      OBVIOUS
    <2>1. PICK a \in Nat \X Nat : a = one[k].args
      BY <1>0 DEF CallTypes, OneRecords
    <2>2. PICK tail \in Tails : two[t].text = Request(a) \o tail
      BY <2>1, <1>1 DEF Progress
    <2>5. ASSUME sys_xml_confg'[t].ok
          PROVE  /\ ValueAt(sys_xml_confg'[t], "FirstValue", Number(a[1]))
                 /\ ValueAt(sys_xml_confg'[t], "SecondValue", Number(a[2]))
      <3>1. sys_xml_confg'[t] = parse_xml(two[t].text) /\ parse_xml(two[t].text).ok
        <4>1. ~NoTree.ok
          BY DEF NoTree, xml_heap_init
        <4>2. sys_xml_confg'[t]
                = IF parse_xml(two[t].text).ok THEN parse_xml(two[t].text) ELSE NoTree
          BY <1>0, <1>3 DEF CallTypes
        <4>. QED
          BY <2>5, <4>1, <4>2
      <3>2. PICK h : h = parse_xml(two[t].text)
        OBVIOUS
      <3>3. h \in Heaps /\ Keeps(h, RequestNodes(a), 3)
        BY <3>1, <3>2, <2>2, RequestParsed
      <3>4. ValueAt(h, "FirstValue", Number(a[1])) /\ ValueAt(h, "SecondValue", Number(a[2]))
        BY <3>3, RequestValues
      <3>. QED
        BY <3>1, <3>2, <3>4, Zenon
    <2>. QED
      BY <2>1, <2>5, <1>3, <1>4 DEF Progress
  <1>8. BlocksInv'
    <2>1. damaged = FALSE /\ \A k \in Machines : OwnBlocks(k)
      BY DEF CallParts, BlocksInv
    <2>2. \A k \in Machines : OwnBlocks(k)'
      BY <2>1, <1>1, <1>3, <1>4 DEF OwnBlocks
    <2>. QED
      BY <2>1, <2>2, <1>3 DEF BlocksInv
  <1>. QED
    BY <1>5, <1>6, <1>7, <1>8, TwoFramed

\* ... names each parameter ...
LEMMA TwoNamesKeeps ==
  ASSUME CallParts, NEW t \in Machines, NEW i, NEW from, NEW to, TwoNames(t, i, from, to),
         \/ i = 1 /\ from = "tag1" /\ to = "query1"
         \/ i = 2 /\ from = "tag2" /\ to = "query2"
  PROVE  CallTypes' /\ NetInv' /\ OnceInv' /\ ServeInv' /\ GetInv' /\ BlocksInv'
  <1>0. CallTypes
    BY DEF CallParts
  <1>1. two[t].at = from /\ two' = [two EXCEPT ![t].at = to]
    BY DEF TwoNames, TwoStep
  <1>2. \/ i = 1 /\ from = "tag1" /\ to = "query1" /\ Parameters[i] = "FirstValue"
        \/ i = 2 /\ from = "tag2" /\ to = "query2" /\ Parameters[i] = "SecondValue"
    BY DEF Parameters
  <1>3. one[t].at \in {"loop", "wait", "halted"}
    BY <1>1, <1>2, TwoApart
  <1>4. /\ one' = one /\ net' = net /\ arrow' = arrow /\ damaged' = damaged /\ blocks' = blocks
        /\ sys_xml_confg' = sys_xml_confg /\ value' = value
        /\ tagDirectory' = [tagDirectory EXCEPT ![t] = Parameters[i]]
    BY DEF TwoNames
  <1>5. /\ two' \in [Machines -> TwoRecords] /\ two'[t].at = to /\ two'[t].m = two[t].m
        /\ two'[t].from = two[t].from /\ \A k \in Machines : k # t => two'[k] = two[k]
    <2>1. to \in TwoLabels
      BY <1>2 DEF TwoLabels
    <2>. QED
      BY <2>1, <1>0, <1>1, TwoMoves
  <1>6. /\ tagDirectory'[t] = Parameters[i]
        /\ \A k \in Machines : k # t => tagDirectory'[k] = tagDirectory[k]
        /\ DOMAIN tagDirectory' = Machines
    BY <1>0, <1>4 DEF CallTypes
  <1>7. CallTypes'
    BY <1>0, <1>4, <1>5, <1>6 DEF CallTypes
  <1>8. TwoFrame(t)
    BY <1>1, <1>2, <1>3, <1>4, <1>5, <1>6 DEF TwoFrame
  <1>9. \A k \in Machines : Progress(t, one[k].args) => Progress(t, one[k].args)'
    BY <1>1, <1>2, <1>4, <1>5, <1>6 DEF Progress
  <1>10. BlocksInv'
    <2>1. damaged = FALSE /\ \A k \in Machines : OwnBlocks(k)
      BY DEF CallParts, BlocksInv
    <2>2. \A k \in Machines : OwnBlocks(k)'
      BY <2>1, <1>1, <1>2, <1>4, <1>5 DEF OwnBlocks
    <2>. QED
      BY <2>1, <2>2, <1>4 DEF BlocksInv
  <1>. QED
    BY <1>7, <1>8, <1>9, <1>10, TwoFramed

\* ... takes its value ...
LEMMA TwoQueriesKeeps ==
  ASSUME CallParts, NEW t \in Machines, NEW from, NEW to, TwoQueries(t, from, to),
         (from = "query1" /\ to = "atoi1") \/ (from = "query2" /\ to = "atoi2")
  PROVE  CallTypes' /\ NetInv' /\ OnceInv' /\ ServeInv' /\ GetInv' /\ BlocksInv'
  <1>0. CallTypes
    BY DEF CallParts
  <1>1. PICK l \in {to, "halted"} :
             /\ two[t].at = from /\ two' = [two EXCEPT ![t].at = l]
             /\ l # "halted" => getValueFromTagMessage(t)
             /\ l = "halted" => value' = value
    <2>1. to # "halted"
      OBVIOUS
    <2>2. CASE TwoStep(t, from, to) /\ getValueFromTagMessage(t)
      BY <2>1, <2>2, Zenon DEF TwoStep
    <2>3. CASE TwoStep(t, from, "halted") /\ QueryFaults(t)
      BY <2>3, Zenon DEF TwoStep, QueryFaults
    <2>. QED
      BY <2>2, <2>3, Zenon DEF TwoQueries
  <1>2. (from = "query1" /\ to = "atoi1") \/ (from = "query2" /\ to = "atoi2")
    OBVIOUS
  <1>3. one[t].at \in {"loop", "wait", "halted"}
    BY <1>1, <1>2, TwoApart
  <1>4. /\ one' = one /\ net' = net /\ arrow' = arrow /\ damaged' = damaged /\ blocks' = blocks
        /\ sys_xml_confg' = sys_xml_confg /\ tagDirectory' = tagDirectory
    BY DEF TwoQueries
  <1>5. /\ two' \in [Machines -> TwoRecords] /\ two'[t].at = l /\ two'[t].m = two[t].m
        /\ two'[t].from = two[t].from /\ \A k \in Machines : k # t => two'[k] = two[k]
    <2>1. l \in TwoLabels
      BY <1>1, <1>2 DEF TwoLabels
    <2>. QED
      BY <2>1, <1>0, <1>1, TwoMoves
  <1>6. /\ DOMAIN value' = Machines /\ \A k \in Machines : k # t => value'[k] = value[k]
        /\ l # "halted" =>
             /\ sys_xml_confg[t].ok
             /\ \A text : ValueAt(sys_xml_confg[t], tagDirectory[t], text) => value'[t] = text
    <2>1. CASE l # "halted"
      BY <2>1, <1>0, <1>1, ValueFound
    <2>2. CASE l = "halted"
      BY <2>2, <1>0, <1>1 DEF CallTypes
    <2>. QED
      BY <2>1, <2>2
  <1>7. CallTypes'
    BY <1>0, <1>4, <1>5, <1>6 DEF CallTypes
  <1>8. TwoFrame(t)
    BY <1>1, <1>2, <1>3, <1>4, <1>5, <1>6 DEF TwoFrame
  <1>9. \A k \in Machines : Progress(t, one[k].args) => Progress(t, one[k].args)'
    <2>1. CASE l = "halted"
      BY <2>1, <1>5 DEF Progress
    <2>2. CASE l = to /\ l # "halted"
      BY <2>2, <1>1, <1>2, <1>4, <1>5, <1>6 DEF Progress
    <2>. QED
      BY <2>1, <2>2, <1>1
  <1>10. BlocksInv'
    <2>1. damaged = FALSE /\ \A k \in Machines : OwnBlocks(k)
      BY DEF CallParts, BlocksInv
    <2>2. l \notin {"encode", "decode", "write"} /\ from \notin {"encode", "decode", "write"}
      BY <1>1, <1>2
    <2>3. \A k \in Machines : OwnBlocks(k)'
      BY <2>1, <2>2, <1>1, <1>4, <1>5 DEF OwnBlocks
    <2>. QED
      BY <2>1, <2>3, <1>4 DEF BlocksInv
  <1>. QED
    BY <1>7, <1>8, <1>9, <1>10, TwoFramed

\* A number of the request, converted.
LEMMA Converted ==
  ASSUME NEW n \in Nat
  PROVE  atoi(Number(n)) = n
  BY TextKinds DEF atoi

\* ... and converts it.
LEMMA TwoConvertsKeeps ==
  ASSUME CallParts, NEW t \in Machines, TwoConverts(t)
  PROVE  CallTypes' /\ NetInv' /\ OnceInv' /\ ServeInv' /\ GetInv' /\ BlocksInv'
  <1>0. CallTypes
    BY DEF CallParts
  <1>1. two[t].at = "atoi1" \/ two[t].at = "atoi2"
    BY DEF TwoConverts
  <1>2. one[t].at \in {"loop", "wait", "halted"}
    BY <1>1, TwoApart
  <1>3. /\ one' = one /\ net' = net /\ arrow' = arrow /\ damaged' = damaged /\ blocks' = blocks
        /\ sys_xml_confg' = sys_xml_confg /\ tagDirectory' = tagDirectory /\ value' = value
    BY DEF TwoConverts, xml
  <1>4. PICK a \in Nat \X Nat : Progress(t, a)
    BY <1>1, Served
  <1>5. a[1] \in Nat /\ a[2] \in Nat
    OBVIOUS
  <1>6. two[t] \in TwoRecords /\ two \in [Machines -> TwoRecords]
    BY <1>0 DEF CallTypes
  <1>7. two[t].at = "atoi1" =>
          /\ two' = [two EXCEPT ![t].m = atoi(value[t]), ![t].at = "tag2"]
          /\ atoi(value[t]) \in Nat
          /\ \A k \in Machines : Progress(t, one[k].args) => atoi(value[t]) = one[k].args[1]
    <2> SUFFICES ASSUME two[t].at = "atoi1"
                 PROVE  /\ two' = [two EXCEPT ![t].m = atoi(value[t]), ![t].at = "tag2"]
                        /\ atoi(value[t]) \in Nat
                        /\ \A k \in Machines : Progress(t, one[k].args)
                                                 => atoi(value[t]) = one[k].args[1]
      OBVIOUS
    <2>1. two' = [two EXCEPT ![t].m = atoi(value[t]), ![t].at = "tag2"]
      BY DEF TwoConverts
    <2>2. value[t] = Number(a[1])
      BY <1>4 DEF Progress
    <2>3. atoi(value[t]) \in Nat
      BY <2>2, <1>5, Converted
    <2>4. ASSUME NEW k \in Machines, Progress(t, one[k].args)
          PROVE  atoi(value[t]) = one[k].args[1]
      <3>1. value[t] = Number(one[k].args[1])
        BY <2>4 DEF Progress
      <3>2. one[k].args[1] \in Nat
        BY <1>0 DEF CallTypes, OneRecords
      <3>. QED
        BY <3>1, <3>2, Converted
    <2>. QED
      BY <2>1, <2>3, <2>4
  <1>8. two[t].at = "atoi2" =>
          /\ two' = [two EXCEPT ![t].n = atoi(value[t]), ![t].at = "call"]
          /\ atoi(value[t]) \in Nat
          /\ \A k \in Machines : Progress(t, one[k].args) => atoi(value[t]) = one[k].args[2]
    <2> SUFFICES ASSUME two[t].at = "atoi2"
                 PROVE  /\ two' = [two EXCEPT ![t].n = atoi(value[t]), ![t].at = "call"]
                        /\ atoi(value[t]) \in Nat
                        /\ \A k \in Machines : Progress(t, one[k].args)
                                                 => atoi(value[t]) = one[k].args[2]
      OBVIOUS
    <2>1. two' = [two EXCEPT ![t].n = atoi(value[t]), ![t].at = "call"]
      BY DEF TwoConverts
    <2>2. value[t] = Number(a[2])
      BY <1>4 DEF Progress
    <2>3. atoi(value[t]) \in Nat
      BY <2>2, <1>5, Converted
    <2>4. ASSUME NEW k \in Machines, Progress(t, one[k].args)
          PROVE  atoi(value[t]) = one[k].args[2]
      <3>1. value[t] = Number(one[k].args[2])
        BY <2>4 DEF Progress
      <3>2. one[k].args[2] \in Nat
        BY <1>0 DEF CallTypes, OneRecords
      <3>. QED
        BY <3>1, <3>2, Converted
    <2>. QED
      BY <2>1, <2>3, <2>4
  <1>9. \A k \in Machines : k # t => two'[k] = two[k]
    BY <1>1, <1>6, <1>7, <1>8
  <1>10. PICK x \in Nat : x = atoi(value[t])
    BY <1>1, <1>7, <1>8
  <1>11. two[t].at = "atoi1" =>
           two'[t] \in TwoRecords /\ two'[t].at = "tag2" /\ two'[t].m = x
           /\ two'[t].from = two[t].from
    <2>1. "tag2" \in TwoLabels
      BY DEF TwoLabels
    <2>2. two[t].at = "atoi1" => two'[t] = [two[t] EXCEPT !.m = x, !.at = "tag2"]
      BY <1>6, <1>7, <1>10
    <2>. QED
      BY <2>1, <2>2, <1>6 DEF TwoRecords
  <1>12. two[t].at = "atoi2" =>
           /\ two'[t] \in TwoRecords /\ two'[t].at = "call" /\ two'[t].n = x
           /\ two'[t].m = two[t].m /\ two'[t].from = two[t].from
    <2>1. "call" \in TwoLabels
      BY DEF TwoLabels
    <2>2. two[t].at = "atoi2" => two'[t] = [two[t] EXCEPT !.n = x, !.at = "call"]
      BY <1>6, <1>8, <1>10
    <2>. QED
      BY <2>1, <2>2, <1>6 DEF TwoRecords
  <1>13. two' \in [Machines -> TwoRecords]
    <2>1. PICK q : two' = [two EXCEPT ![t] = q]
      BY <1>1, <1>7, <1>8
    <2>2. q \in TwoRecords
      BY <2>1, <1>1, <1>6, <1>11, <1>12
    <2>. QED
      BY <2>1, <2>2, <1>6
  <1>14. CallTypes'
    BY <1>0, <1>3, <1>13 DEF CallTypes
  <1>15. TwoFrame(t)
    BY <1>1, <1>2, <1>3, <1>9, <1>11, <1>12 DEF TwoFrame
  <1>16. \A k \in Machines : Progress(t, one[k].args) => Progress(t, one[k].args)'
    <2> SUFFICES ASSUME NEW k \in Machines, Progress(t, one[k].args)
                 PROVE  Progress(t, one[k].args)'
      OBVIOUS
    <2>1. CASE two[t].at = "atoi1"
      <3>1. x = one[k].args[1]
        BY <2>1, <1>7, <1>10
      <3>. QED
        BY <2>1, <3>1, <1>3, <1>11 DEF Progress
    <2>2. CASE two[t].at = "atoi2"
      <3>1. x = one[k].args[2]
        BY <2>2, <1>8, <1>10
      <3>. QED
        BY <2>2, <3>1, <1>3, <1>12 DEF Progress
    <2>. QED
      BY <2>1, <2>2, <1>1
  <1>17. BlocksInv'
    <2>1. damaged = FALSE /\ \A k \in Machines : OwnBlocks(k)
      BY DEF CallParts, BlocksInv
    <2>2. two'[t].at = "tag2" \/ two'[t].at = "call"
      BY <1>1, <1>11, <1>12
    <2>3. \A k \in Machines : OwnBlocks(k)'
      BY <2>1, <2>2, <1>1, <1>3, <1>9 DEF OwnBlocks
    <2>. QED
      BY <2>1, <2>3, <1>3 DEF BlocksInv
  <1>. QED
    BY <1>14, <1>15, <1>16, <1>17, TwoFramed

\* The result is that of the arguments, and the buffer is the first block.
LEMMA CallAckermannKeeps ==
  ASSUME CallParts, NEW t \in Machines, CallAckermannFunction(t)
  PROVE  CallTypes' /\ NetInv' /\ OnceInv' /\ ServeInv' /\ GetInv' /\ BlocksInv'
  <1>0. CallTypes
    BY DEF CallParts
  <1>1. PICK r : r = ack[<<two[t].m, two[t].n>>]
    OBVIOUS
  <1>2. /\ two[t].at = "call" /\ two' = [two EXCEPT ![t].res = r, ![t].at = "encode"]
        /\ blocks' = [blocks EXCEPT ![t] = << Own(BufferSize) >>]
    BY <1>1 DEF CallAckermannFunction, Own
  <1>3. one[t].at \in {"loop", "wait", "halted"}
    BY <1>2, TwoApart
  <1>4. /\ one' = one /\ net' = net /\ arrow' = arrow /\ damaged' = damaged
        /\ sys_xml_confg' = sys_xml_confg /\ tagDirectory' = tagDirectory /\ value' = value
    BY DEF CallAckermannFunction, xml
  <1>5. \A a \in Nat \X Nat : Progress(t, a) => r = ack[a]
    <2> SUFFICES ASSUME NEW a \in Nat \X Nat, Progress(t, a) PROVE r = ack[a]
      OBVIOUS
    <2>1. two[t].m = a[1] /\ two[t].n = a[2]
      BY <1>2 DEF Progress
    <2>2. a = <<a[1], a[2]>>
      OBVIOUS
    <2>. QED
      BY <2>1, <2>2, <1>1
  <1>6. r \in Nat
    <2>1. PICK a \in Arguments : a \in Nat \X Nat /\ Progress(t, a)
      BY <1>2, Served
    <2>. QED
      BY <2>1, <1>5, ResultAssumption
  <1>7. two[t] \in TwoRecords /\ two \in [Machines -> TwoRecords]
    BY <1>0 DEF CallTypes
  <1>8. PICK q : q = [two[t] EXCEPT !.res = r, !.at = "encode"]
    OBVIOUS
  <1>9. q \in TwoRecords /\ q.at = "encode" /\ q.res = r /\ q.from = two[t].from
    <2>1. "encode" \in TwoLabels
      BY DEF TwoLabels
    <2>. QED
      BY <2>1, <1>6, <1>7, <1>8 DEF TwoRecords
  <1>10. two' = [two EXCEPT ![t] = q]
    BY <1>2, <1>8
  <1>11. /\ two' \in [Machines -> TwoRecords] /\ two'[t] = q
         /\ \A k \in Machines : k # t => two'[k] = two[k]
    BY <1>7, <1>9, <1>10
  <1>12. /\ DOMAIN blocks' = Machines /\ blocks'[t] = << Own(BufferSize) >>
         /\ \A k \in Machines : k # t => blocks'[k] = blocks[k]
    BY <1>0, <1>2 DEF CallTypes
  <1>13. CallTypes'
    BY <1>0, <1>4, <1>11, <1>12 DEF CallTypes
  <1>14. TwoFrame(t)
    BY <1>2, <1>3, <1>4, <1>9, <1>11 DEF TwoFrame
  <1>15. \A k \in Machines : Progress(t, one[k].args) => Progress(t, one[k].args)'
    <2>1. \A k \in Machines : one[k].args \in Nat \X Nat
      BY <1>0 DEF CallTypes, OneRecords
    <2>2. \A k \in Machines : Progress(t, one[k].args) => r = ack[one[k].args]
      BY <2>1, <1>5
    <2>. QED
      BY <2>2, <1>4, <1>9, <1>11 DEF Progress
  <1>16. BlocksInv'
    <2>1. damaged = FALSE /\ \A k \in Machines : OwnBlocks(k)
      BY DEF CallParts, BlocksInv
    <2>2. \A k \in Machines : k # t => OwnBlocks(k)'
      BY <2>1, <1>11, <1>12, BlocksSame
    <2>3. OwnBlocks(t)'
      BY <1>9, <1>11, <1>12 DEF OwnBlocks
    <2>. QED
      BY <2>1, <2>2, <2>3, <1>4 DEF BlocksInv
  <1>. QED
    BY <1>13, <1>14, <1>15, <1>16, TwoFramed

\* Sequences joined, element by element.
LEMMA Joined ==
  ASSUME NEW x, NEW y, NEW z
  PROVE  <<x>> \o <<y>> = <<x, y>> /\ <<x, y>> \o <<z>> = <<x, y, z>>
  <1>1. ASSUME NEW s, NEW u, NEW S, s \in Seq(S), u \in Seq(S), Len(s) = Len(u),
               \A i \in 1..Len(s) : s[i] = u[i]
        PROVE  s = u
    BY <1>1
  <1>2. PICK S : S = {x, y, z}
    OBVIOUS
  <1>3. <<x>> \o <<y>> = <<x, y>>
    <2>1. PICK s : s = <<x>> \o <<y>>
      OBVIOUS
    <2>2. PICK u : u = <<x, y>>
      OBVIOUS
    <2>3. s \in Seq(S)
      BY <2>1, <1>2
    <2>4. u \in Seq(S)
      BY <2>2, <1>2
    <2>5. Len(s) = 2 /\ s[1] = x /\ s[2] = y
      BY <2>1
    <2>6. Len(u) = 2 /\ u[1] = x /\ u[2] = y
      BY <2>2
    <2>7. \A i \in 1..Len(s) : s[i] = u[i]
      BY <2>5, <2>6
    <2>8. s = u
      BY <2>3, <2>4, <2>5, <2>6, <2>7, <1>1
    <2>. QED
      BY <2>8, <2>1, <2>2
  <1>4. <<x, y>> \o <<z>> = <<x, y, z>>
    <2>1. PICK s : s = <<x, y>> \o <<z>>
      OBVIOUS
    <2>2. PICK u : u = <<x, y, z>>
      OBVIOUS
    <2>3. s \in Seq(S)
      BY <2>1, <1>2
    <2>4. u \in Seq(S)
      BY <2>2, <1>2
    <2>5. Len(s) = 3 /\ s[1] = x /\ s[2] = y /\ s[3] = z
      BY <2>1
    <2>6. Len(u) = 3 /\ u[1] = x /\ u[2] = y /\ u[3] = z
      BY <2>2
    <2>7. \A i \in 1..Len(s) : s[i] = u[i]
      BY <2>5, <2>6
    <2>8. s = u
      BY <2>3, <2>4, <2>5, <2>6, <2>7, <1>1
    <2>. QED
      BY <2>8, <2>1, <2>2
  <1>. QED
    BY <1>3, <1>4

\* One more block of core 2 after those it has.
LEMMA OwnMore ==
  ASSUME CallTypes, NEW t \in Machines, NEW len, kmalloc(t, 2, <<len>>), blocks[t] # <<>>
  PROVE  /\ DOMAIN blocks' = Machines /\ blocks'[t] = blocks[t] \o <<Own(len)>>
         /\ \A k \in Machines : k # t => blocks'[k] = blocks[k]
  <1>1. [i \in 1..Len(<<len>>) |-> [core |-> 2, size |-> <<len>>[i]]] = <<Own(len)>>
    BY DEF Own
  <1>2. PICK more : more = [i \in 1..Len(<<len>>) |-> [core |-> 2, size |-> <<len>>[i]]]
    OBVIOUS
  <1>3. blocks' = [blocks EXCEPT ![t] = IF @ = <<>> THEN @ ELSE @ \o more]
    BY <1>2, Zenon DEF kmalloc
  <1>. QED
    BY <1>1, <1>2, <1>3 DEF CallTypes

\* The block of the encoded result comes second ...
LEMMA ConvertEncodesKeeps ==
  ASSUME CallParts, NEW t \in Machines, ConvertEncodes(t)
  PROVE  CallTypes' /\ NetInv' /\ OnceInv' /\ ServeInv' /\ GetInv' /\ BlocksInv'
  <1>0. CallTypes
    BY DEF CallParts
  <1>1. two[t].at = "encode" /\ two' = [two EXCEPT ![t].at = "decode"]
    BY DEF ConvertEncodes, TwoStep
  <1>2. one[t].at \in {"loop", "wait", "halted"}
    BY <1>1, TwoApart
  <1>3. /\ one' = one /\ net' = net /\ arrow' = arrow /\ damaged' = damaged
        /\ sys_xml_confg' = sys_xml_confg /\ tagDirectory' = tagDirectory /\ value' = value
    BY DEF ConvertEncodes, xml
  <1>4. /\ two' \in [Machines -> TwoRecords] /\ two'[t].at = "decode" /\ two'[t].res = two[t].res
        /\ two'[t].from = two[t].from /\ \A k \in Machines : k # t => two'[k] = two[k]
    <2>1. "decode" \in TwoLabels
      BY DEF TwoLabels
    <2>. QED
      BY <2>1, <1>0, <1>1, TwoMoves
  <1>5. damaged = FALSE /\ \A k \in Machines : OwnBlocks(k)
    BY DEF CallParts, BlocksInv
  <1>6. blocks[t] = <<Own(BufferSize)>>
    BY <1>1, <1>5 DEF OwnBlocks
  <1>7. /\ DOMAIN blocks' = Machines /\ blocks'[t] = <<Own(BufferSize)>> \o <<Own(EncodedSize)>>
        /\ \A k \in Machines : k # t => blocks'[k] = blocks[k]
    <2>1. kmalloc(t, 2, <<EncodedSize>>)
      BY DEF ConvertEncodes
    <2>2. blocks[t] # <<>>
      BY <1>6
    <2>. QED
      BY <2>1, <2>2, <1>0, <1>6, OwnMore
  <1>8. blocks'[t] = <<Own(BufferSize), Own(EncodedSize)>>
    BY <1>7, Joined, Zenon
  <1>9. CallTypes'
    BY <1>0, <1>3, <1>4, <1>7 DEF CallTypes
  <1>10. TwoFrame(t)
    BY <1>1, <1>2, <1>3, <1>4 DEF TwoFrame
  <1>11. \A k \in Machines : Progress(t, one[k].args) => Progress(t, one[k].args)'
    BY <1>1, <1>3, <1>4 DEF Progress
  <1>12. BlocksInv'
    <2>1. \A k \in Machines : k # t => OwnBlocks(k)'
      BY <1>4, <1>5, <1>7, BlocksSame
    <2>2. OwnBlocks(t)'
      BY <1>4, <1>8 DEF OwnBlocks
    <2>. QED
      BY <2>1, <2>2, <1>3, <1>5 DEF BlocksInv
  <1>. QED
    BY <1>9, <1>10, <1>11, <1>12, TwoFramed

\* ... that of its decoding third ...
LEMMA ConvertDecodesKeeps ==
  ASSUME CallParts, NEW t \in Machines, ConvertDecodes(t)
  PROVE  CallTypes' /\ NetInv' /\ OnceInv' /\ ServeInv' /\ GetInv' /\ BlocksInv'
  <1>0. CallTypes
    BY DEF CallParts
  <1>1. two[t].at = "decode" /\ two' = [two EXCEPT ![t].at = "write"]
    BY DEF ConvertDecodes, TwoStep
  <1>2. one[t].at \in {"loop", "wait", "halted"}
    BY <1>1, TwoApart
  <1>3. /\ one' = one /\ net' = net /\ arrow' = arrow /\ damaged' = damaged
        /\ sys_xml_confg' = sys_xml_confg /\ tagDirectory' = tagDirectory /\ value' = value
    BY DEF ConvertDecodes, xml
  <1>4. /\ two' \in [Machines -> TwoRecords] /\ two'[t].at = "write" /\ two'[t].res = two[t].res
        /\ two'[t].from = two[t].from /\ \A k \in Machines : k # t => two'[k] = two[k]
    <2>1. "write" \in TwoLabels
      BY DEF TwoLabels
    <2>. QED
      BY <2>1, <1>0, <1>1, TwoMoves
  <1>5. damaged = FALSE /\ \A k \in Machines : OwnBlocks(k)
    BY DEF CallParts, BlocksInv
  <1>6. blocks[t] = <<Own(BufferSize), Own(EncodedSize)>>
    BY <1>1, <1>5 DEF OwnBlocks
  <1>7. /\ DOMAIN blocks' = Machines
        /\ blocks'[t] = <<Own(BufferSize), Own(EncodedSize)>> \o <<Own(DecodedSize)>>
        /\ \A k \in Machines : k # t => blocks'[k] = blocks[k]
    <2>1. kmalloc(t, 2, <<DecodedSize>>)
      BY DEF ConvertDecodes
    <2>2. blocks[t] # <<>>
      BY <1>6
    <2>. QED
      BY <2>1, <2>2, <1>0, <1>6, OwnMore
  <1>8. blocks'[t] = <<Own(BufferSize), Own(EncodedSize), Own(DecodedSize)>>
    BY <1>7, Joined, Zenon
  <1>9. CallTypes'
    BY <1>0, <1>3, <1>4, <1>7 DEF CallTypes
  <1>10. TwoFrame(t)
    BY <1>1, <1>2, <1>3, <1>4 DEF TwoFrame
  <1>11. \A k \in Machines : Progress(t, one[k].args) => Progress(t, one[k].args)'
    BY <1>1, <1>3, <1>4 DEF Progress
  <1>12. BlocksInv'
    <2>1. \A k \in Machines : k # t => OwnBlocks(k)'
      BY <1>4, <1>5, <1>7, BlocksSame
    <2>2. OwnBlocks(t)'
      BY <1>4, <1>8 DEF OwnBlocks
    <2>. QED
      BY <2>1, <2>2, <1>3, <1>5 DEF BlocksInv
  <1>. QED
    BY <1>9, <1>10, <1>11, <1>12, TwoFramed

\* ... and the text that is written, longer than the buffer, ends before the last.
LEMMA ConvertWritesKeeps ==
  ASSUME CallParts, NEW t \in Machines, ConvertWrites(t)
  PROVE  CallTypes' /\ NetInv' /\ OnceInv' /\ ServeInv' /\ GetInv' /\ BlocksInv'
  <1>0. CallTypes
    BY DEF CallParts
  <1>1. two[t].at = "write" /\ two' = [two EXCEPT ![t].at = "reply"]
    BY DEF ConvertWrites, TwoStep
  <1>2. one[t].at \in {"loop", "wait", "halted"}
    BY <1>1, TwoApart
  <1>3. /\ one' = one /\ net' = net /\ arrow' = arrow /\ blocks' = [blocks EXCEPT ![t] = <<>>]
        /\ sys_xml_confg' = sys_xml_confg /\ tagDirectory' = tagDirectory /\ value' = value
    BY DEF ConvertWrites, xml
  <1>4. /\ two' \in [Machines -> TwoRecords] /\ two'[t].at = "reply" /\ two'[t].res = two[t].res
        /\ two'[t].from = two[t].from /\ \A k \in Machines : k # t => two'[k] = two[k]
    <2>1. "reply" \in TwoLabels
      BY DEF TwoLabels
    <2>. QED
      BY <2>1, <1>0, <1>1, TwoMoves
  <1>5. damaged = FALSE /\ \A k \in Machines : OwnBlocks(k)
    BY DEF CallParts, BlocksInv
  <1>6. damaged' = FALSE
    <2>1. blocks[t] = <<Own(BufferSize), Own(EncodedSize), Own(DecodedSize)>>
      BY <1>1, <1>5 DEF OwnBlocks
    <2>2. OwnBytes(blocks[t]) = 54 /\ Written = 50
      BY <2>1, ReplySizes, OwnOfThree
    <2>3. ~(50 > 54)
      OBVIOUS
    <2>4. ~(Written > OwnBytes(blocks[t]))
      BY <2>2, <2>3
    <2>. QED
      BY <2>4, <1>5 DEF ConvertWrites
  <1>7. /\ DOMAIN blocks' = Machines /\ blocks'[t] = <<>>
        /\ \A k \in Machines : k # t => blocks'[k] = blocks[k]
    BY <1>0, <1>3 DEF CallTypes
  <1>8. CallTypes'
    BY <1>0, <1>3, <1>4, <1>7 DEF CallTypes
  <1>9. TwoFrame(t)
    BY <1>1, <1>2, <1>3, <1>4 DEF TwoFrame
  <1>10. \A k \in Machines : Progress(t, one[k].args) => Progress(t, one[k].args)'
    BY <1>1, <1>3, <1>4 DEF Progress
  <1>11. BlocksInv'
    <2>1. \A k \in Machines : k # t => OwnBlocks(k)'
      BY <1>4, <1>5, <1>7, BlocksSame
    <2>2. OwnBlocks(t)'
      BY <1>4, <1>7 DEF OwnBlocks
    <2>. QED
      BY <2>1, <2>2, <1>6 DEF BlocksInv
  <1>. QED
    BY <1>8, <1>9, <1>10, <1>11, TwoFramed

(***************************************************************************)
(* The steps that send or take a packet.                                   *)
(***************************************************************************)
\* The request and the reply of calls of different machines are different, and a
\* packet tells who waits for it.
LEMMA PacketFields ==
  ASSUME NEW m, NEW t, NEW a
  PROVE  /\ Asks(m, t, a).from = m /\ Asks(m, t, a).to = t /\ Asks(m, t, a).core = 2
         /\ Asks(m, t, a).text = Request(a)
         /\ Back(m, t, a).from = t /\ Back(m, t, a).to = m /\ Back(m, t, a).core = 1
         /\ Back(m, t, a).text = Reply(ack[a])
  BY DEF Asks, Back

\* A machine that does not wait has no packet and no server.
LEMMA Nothing ==
  ASSUME CallParts, NEW m \in Machines, one[m].at # "wait"
  PROVE  /\ \A t \in Machines : \A a : Asks(m, t, a) \notin net /\ Back(m, t, a) \notin net
         /\ \A t \in Machines : ~Serves(t, m)
  <1>1. ASSUME NEW t \in Machines, NEW a, Asks(m, t, a) \in net PROVE FALSE
    <2>1. PICK k, s \in Machines :
            /\ Waits(k, s)
            /\ Asks(m, t, a) \in {Asks(k, s, one[k].args), Back(k, s, one[k].args)}
      BY <1>1 DEF CallParts, NetInv
    <2>2. k = m
      BY <2>1 DEF Asks, Back
    <2>. QED
      BY <2>1, <2>2 DEF Waits
  <1>2. ASSUME NEW t \in Machines, NEW a, Back(m, t, a) \in net PROVE FALSE
    <2>1. PICK k, s \in Machines :
            /\ Waits(k, s)
            /\ Back(m, t, a) \in {Asks(k, s, one[k].args), Back(k, s, one[k].args)}
      BY <1>2 DEF CallParts, NetInv
    <2>2. k = m
      BY <2>1 DEF Asks, Back
    <2>. QED
      BY <2>1, <2>2 DEF Waits
  <1>3. \A t \in Machines : ~Serves(t, m)
    BY DEF Serves, Waits
  <1>. QED
    BY <1>1, <1>2, <1>3
\* What the invariant says of the packets and the servers when packets only leave
\* and neither the callers nor, apart from those in S, the servers change.
LEMMA FewerPackets ==
  ASSUME CallParts, net' \subseteq net, one' = one, NEW S \in SUBSET Machines,
         sys_xml_confg' = sys_xml_confg, tagDirectory' = tagDirectory, value' = value,
         \A k \in Machines : k \notin S => two'[k] = two[k]
  PROVE  /\ NetInv' /\ OnceInv' /\ GetInv'
         /\ \A t \in Machines : t \notin S /\ two'[t].at # "loop"
                                  => \E m \in Machines : Serves(t, m)'
  <1>1. NetInv'
    BY DEF CallParts, NetInv, Waits, Asks, Back
  <1>2. OnceInv'
    BY DEF CallParts, OnceInv, Waits, Asks, Back
  <1>3. GetInv'
    <2> SUFFICES ASSUME NEW k \in Machines PROVE Gets(k)'
      BY DEF GetInv
    <2>1. Gets(k)
      BY DEF CallParts, GetInv
    <2>. QED
      BY <2>1, GetsSame
  <1>4. ASSUME NEW t \in Machines, t \notin S, two'[t].at # "loop"
        PROVE  \E m \in Machines : Serves(t, m)'
    <2>1. two'[t] = two[t] /\ two[t].at # "loop"
      BY <1>4
    <2>2. PICK m \in Machines : Serves(t, m)
      BY <2>1 DEF CallParts, ServeInv
    <2>3. Progress(t, one[m].args)'
      <3>1. Progress(t, one[m].args)
        BY <2>2 DEF Serves
      <3>. QED
        BY <3>1, <2>1, ProgressSame
    <2>. QED
      BY <2>1, <2>2, <2>3 DEF Serves, Waits, Asks, Back
  <1>. QED
    BY <1>1, <1>2, <1>3, <1>4

\* A lost packet was the only trace of its call.
LEMMA LoseKeeps ==
  ASSUME CallParts, Lose
  PROVE  CallTypes' /\ NetInv' /\ OnceInv' /\ ServeInv' /\ GetInv' /\ BlocksInv'
  <1>1. /\ net' \subseteq net /\ one' = one /\ two' = two /\ arrow' = arrow
        /\ blocks' = blocks /\ damaged' = damaged
        /\ sys_xml_confg' = sys_xml_confg /\ tagDirectory' = tagDirectory /\ value' = value
    BY DEF Lose, xml
  <1>2. CallTypes'
    BY <1>1 DEF CallParts, CallTypes
  <1>3. /\ NetInv' /\ OnceInv' /\ GetInv'
        /\ \A t \in Machines : t \notin {} /\ two'[t].at # "loop"
                                 => \E m \in Machines : Serves(t, m)'
    <2>1. /\ net' \subseteq net /\ {} \in SUBSET Machines
          /\ \A k \in Machines : k \notin {} => two'[k] = two[k]
      BY <1>1
    <2>. QED
      BY <2>1, <1>1, FewerPackets
  <1>4. BlocksInv'
    BY <1>1, <1>2, BlocksKept DEF CallParts, CallTypes, SameBlocks
  <1>. QED
    BY <1>2, <1>3, <1>4 DEF ServeInv

\* A key press changes nothing but the arrows.
LEMMA PressKeeps ==
  ASSUME CallParts, NEW m \in Machines, Press(m)
  PROVE  CallTypes' /\ NetInv' /\ OnceInv' /\ ServeInv' /\ GetInv' /\ BlocksInv'
  <1>1. /\ net' = net /\ one' = one /\ two' = two /\ blocks' = blocks /\ damaged' = damaged
        /\ sys_xml_confg' = sys_xml_confg /\ tagDirectory' = tagDirectory /\ value' = value
    BY DEF Press, xml
  <1>2. CallTypes'
    BY <1>1 DEF CallParts, CallTypes, Press
  <1>3. /\ NetInv' /\ OnceInv' /\ GetInv'
        /\ \A t \in Machines : t \notin {} /\ two'[t].at # "loop"
                                 => \E k \in Machines : Serves(t, k)'
    <2>1. /\ net' \subseteq net /\ {} \in SUBSET Machines
          /\ \A k \in Machines : k \notin {} => two'[k] = two[k]
      BY <1>1
    <2>. QED
      BY <2>1, <1>1, FewerPackets
  <1>4. BlocksInv'
    BY <1>1, <1>2, BlocksKept DEF CallParts, CallTypes, SameBlocks
  <1>. QED
    BY <1>2, <1>3, <1>4 DEF ServeInv

\* Core 2 takes a request: its caller waits, and the reply is not under way.
LEMMA ServeKeeps ==
  ASSUME CallParts, NEW t \in Machines, Serve(t)
  PROVE  CallTypes' /\ NetInv' /\ OnceInv' /\ ServeInv' /\ GetInv' /\ BlocksInv'
  <1>0. CallTypes
    BY DEF CallParts
  <1>1. PICK p \in net, tail \in Tails :
          /\ p.to = t /\ p.core = 2 /\ two[t].at = "loop"
          /\ two' = [two EXCEPT ![t] = [CoreTwo EXCEPT !.at = "parse", !.from = {p.from},
                                                       !.text = p.text \o tail]]
          /\ net' = net \ {p}
    BY Zenon DEF Serve
  <1>2. /\ one' = one /\ arrow' = arrow /\ blocks' = blocks /\ damaged' = damaged
        /\ sys_xml_confg' = sys_xml_confg /\ tagDirectory' = tagDirectory /\ value' = value
    BY DEF Serve, xml
  <1>3. PICK m \in Machines : Waits(m, t) /\ p = Asks(m, t, one[m].args)
    <2>1. PICK m, s \in Machines :
            Waits(m, s) /\ (p = Asks(m, s, one[m].args) \/ p = Back(m, s, one[m].args))
      BY DEF CallParts, NetInv
    <2>2. p = Asks(m, s, one[m].args) /\ s = t
      BY <1>1, <2>1, PacketFields
    <2>. QED
      BY <2>1, <2>2
  <1>4. PICK a \in Arguments : a = one[m].args
    BY <1>3 DEF CallParts, GetInv, Gets, Waits
  <1>5. p.from = m /\ p.text = Request(a)
    BY <1>3, <1>4, PacketFields
  <1>6. PICK q : q = [CoreTwo EXCEPT !.at = "parse", !.from = {p.from}, !.text = p.text \o tail]
    OBVIOUS
  <1>7. q = [at |-> "parse", text |-> Request(a) \o tail, from |-> {m}, m |-> 0, n |-> 0, res |-> 0]
    BY <1>5, <1>6 DEF CoreTwo
  <1>8. q \in TwoRecords
    <2>1. "parse" \in TwoLabels /\ Request(a) \o tail \in Dequeued /\ {m} \in SUBSET Machines
      BY DEF TwoLabels, Dequeued
    <2>2. 0 \in Nat
      OBVIOUS
    <2>. QED
      BY <2>1, <2>2, <1>7, Zenon DEF TwoRecords
  <1>9. /\ two' \in [Machines -> TwoRecords] /\ two'[t] = q
        /\ \A k \in Machines : k # t => two'[k] = two[k]
    BY <1>0, <1>1, <1>6, <1>8 DEF CallTypes
  <1>10. CallTypes'
    BY <1>0, <1>2, <1>9 DEF CallTypes
  <1>11. /\ NetInv' /\ OnceInv' /\ GetInv'
         /\ \A s \in Machines : s \notin {t} /\ two'[s].at # "loop"
                                  => \E k \in Machines : Serves(s, k)'
    <2>1. net' \subseteq net /\ {t} \in SUBSET Machines
      BY <1>1
    <2>2. \A k \in Machines : k \notin {t} => two'[k] = two[k]
      BY <1>9
    <2>. QED
      BY <2>1, <2>2, <1>2, FewerPackets
  <1>12. Serves(t, m)'
    <2>1. two'[t].from = {m} /\ two'[t].at = "parse" /\ two'[t].text = Request(a) \o tail
      BY <1>7, <1>9
    <2>2. Progress(t, one[m].args)'
      BY <2>1, <1>2, <1>4 DEF Progress
    <2>3. Waits(m, t)'
      BY <1>2, <1>3 DEF Waits
    <2>4. Asks(m, t, one[m].args) \notin net' /\ Back(m, t, one[m].args) \notin net'
      <3>1. ~(Asks(m, t, one[m].args) \in net /\ Back(m, t, one[m].args) \in net)
        BY <1>3 DEF CallParts, OnceInv
      <3>. QED
        BY <3>1, <1>1, <1>3
    <2>. QED
      BY <2>1, <2>2, <2>3, <2>4, <1>2 DEF Serves, Asks, Back
  <1>13. ServeInv'
    BY <1>11, <1>12 DEF ServeInv
  <1>14. BlocksInv'
    <2>1. damaged = FALSE /\ \A k \in Machines : OwnBlocks(k)
      BY DEF CallParts, BlocksInv
    <2>2. two'[t].at = "parse"
      BY <1>7, <1>9
    <2>3. \A k \in Machines : OwnBlocks(k)'
      BY <2>1, <2>2, <1>1, <1>2, <1>9 DEF OwnBlocks
    <2>. QED
      BY <2>1, <2>3, <1>2 DEF BlocksInv
  <1>. QED
    BY <1>10, <1>11, <1>13, <1>14

\* Core 2 sends its reply to the caller, whose request is not under way.
LEMMA SendsReplyKeeps ==
  ASSUME CallParts, NEW t \in Machines, SendsReply(t)
  PROVE  CallTypes' /\ NetInv' /\ OnceInv' /\ ServeInv' /\ GetInv' /\ BlocksInv'
  <1>0. CallTypes
    BY DEF CallParts
  <1>1. /\ two[t].at = "reply" /\ two' = [two EXCEPT ![t] = CoreTwo]
        /\ one' = one /\ arrow' = arrow /\ blocks' = blocks /\ damaged' = damaged
        /\ sys_xml_confg' = sys_xml_confg /\ tagDirectory' = tagDirectory /\ value' = value
    BY DEF SendsReply, xml
  <1>2. PICK m \in Machines : Serves(t, m)
    BY <1>1 DEF CallParts, ServeInv
  <1>3. PICK a : a = one[m].args
    OBVIOUS
  <1>4. /\ two[t].from = {m} /\ two[t].res = ack[a] /\ Waits(m, t)
        /\ Asks(m, t, a) \notin net /\ Back(m, t, a) \notin net
    BY <1>1, <1>2, <1>3 DEF Serves, Progress
  <1>5. net' = net \cup {Back(m, t, a)}
    BY <1>4 DEF SendsReply, sendIPIoE_Packet, Back
  <1>6. CoreTwo \in TwoRecords /\ CoreTwo.at = "loop"
    <2>1. "loop" \in TwoLabels /\ <<>> \in Dequeued /\ {} \in SUBSET Machines /\ 0 \in Nat
      BY DEF TwoLabels, Dequeued
    <2>. QED
      BY <2>1, Zenon DEF TwoRecords, CoreTwo
  <1>7. /\ two' \in [Machines -> TwoRecords] /\ two'[t].at = "loop"
        /\ \A k \in Machines : k # t => two'[k] = two[k]
    BY <1>0, <1>1, <1>6 DEF CallTypes
  <1>8. CallTypes'
    BY <1>0, <1>1, <1>7 DEF CallTypes
  <1>9. NetInv'
    BY <1>1, <1>3, <1>4, <1>5 DEF CallParts, NetInv, Waits, Asks, Back
  <1>10. \A k, s \in Machines : Waits(k, s) /\ k = m => s = t
    BY <1>4 DEF Waits
  <1>11. \A k, s \in Machines : Asks(k, s, one[k].args) # Back(m, t, a)
    BY PacketFields
  <1>12. \A k, s \in Machines : k # m => Back(k, s, one[k].args) # Back(m, t, a)
    BY PacketFields
  <1>13. OnceInv'
    <2> SUFFICES ASSUME NEW k \in Machines, NEW s \in Machines, Waits(k, s),
                        Asks(k, s, one[k].args) \in net', Back(k, s, one[k].args) \in net'
                 PROVE  FALSE
      BY <1>1 DEF OnceInv, Waits, Asks, Back
    <2>1. Asks(k, s, one[k].args) \in net
      BY <1>5, <1>11
    <2>2. CASE k = m
      BY <2>1, <2>2, <1>3, <1>4, <1>10
    <2>3. CASE k # m
      <3>1. Back(k, s, one[k].args) \in net
        BY <2>3, <1>5, <1>12
      <3>. QED
        BY <2>1, <3>1 DEF CallParts, OnceInv
    <2>. QED
      BY <2>2, <2>3
  <1>14. ServeInv'
    <2> SUFFICES ASSUME NEW s \in Machines, two'[s].at # "loop"
                 PROVE  \E k \in Machines : Serves(s, k)'
      BY DEF ServeInv
    <2>1. s # t /\ two'[s] = two[s] /\ two[s].at # "loop"
      BY <1>7
    <2>2. PICK k \in Machines : Serves(s, k)
      BY <2>1 DEF CallParts, ServeInv
    <2>3. k # m
      BY <2>1, <2>2, <1>10 DEF Serves
    <2>4. Progress(s, one[k].args)'
      <3>1. Progress(s, one[k].args)
        BY <2>2 DEF Serves
      <3>. QED
        BY <3>1, <2>1, <1>1, ProgressSame
    <2>5. Asks(k, s, one[k].args) \notin net' /\ Back(k, s, one[k].args) \notin net'
      BY <2>2, <2>3, <1>5, <1>11, <1>12 DEF Serves
    <2>. QED
      BY <2>1, <2>2, <2>4, <2>5, <1>1 DEF Serves, Waits, Asks, Back
  <1>15. GetInv'
    <2> SUFFICES ASSUME NEW k \in Machines PROVE Gets(k)'
      BY DEF GetInv
    <2>1. Gets(k)
      BY DEF CallParts, GetInv
    <2>. QED
      BY <2>1, <1>1, GetsSame
  <1>16. BlocksInv'
    <2>1. damaged = FALSE /\ \A k \in Machines : OwnBlocks(k)
      BY DEF CallParts, BlocksInv
    <2>2. \A k \in Machines : OwnBlocks(k)'
      BY <2>1, <1>1, <1>7 DEF OwnBlocks
    <2>. QED
      BY <2>1, <2>2, <1>1 DEF BlocksInv
  <1>. QED
    BY <1>8, <1>9, <1>13, <1>14, <1>15, <1>16
\* What core 1 allocates while core 2 has the blocks of a reply is an overlap.
LEMMA OneAllocates ==
  ASSUME CallParts, NEW m \in Machines, NEW sizes, sizes \in {<<Large>>, <<Large, Large>>},
         kmalloc(m, 1, sizes), two' = two, ApartInv'
  PROVE  blocks[m] = <<>>
  <1> SUFFICES ASSUME blocks[m] # <<>> PROVE FALSE
    OBVIOUS
  <1>1. OwnBlocks(m) /\ CallTypes
    BY DEF CallParts, BlocksInv
  <1>2. two[m].at \in {"encode", "decode", "write"}
    BY <1>1 DEF OwnBlocks
  <1>3. PICK S, b : blocks[m] = b /\ b \in Seq(S)
    <2>1. PICK x, y, z : blocks[m] = <<x>> \/ blocks[m] = <<x, y>> \/ blocks[m] = <<x, y, z>>
      BY <1>1, <1>2, Zenon DEF OwnBlocks
    <2>2. PICK S : S = {x, y, z}
      OBVIOUS
    <2>3. <<x>> \in Seq(S) /\ <<x, y>> \in Seq(S) /\ <<x, y, z>> \in Seq(S)
      BY <2>2
    <2>4. blocks[m] \in Seq(S)
      BY <2>1, <2>3, Zenon
    <2>. QED
      BY <2>4
  <1>4. PICK more : more = [i \in 1..Len(sizes) |-> [core |-> 1, size |-> sizes[i]]]
    OBVIOUS
  <1>5. PICK T : T = {more[i] : i \in 1..Len(sizes)}
    OBVIOUS
  <1>6. Len(sizes) = 1 \/ Len(sizes) = 2
    OBVIOUS
  <1>7. more \in Seq(T) /\ Len(more) = Len(sizes) /\ more[1].core = 1
    BY <1>4, <1>5, <1>6
  <1>8. blocks' = [blocks EXCEPT ![m] = IF @ = <<>> THEN @ ELSE @ \o more]
    BY <1>4, Zenon DEF kmalloc
  <1>9. blocks'[m] = b \o more
    BY <1>1, <1>3, <1>8 DEF CallTypes
  <1>10. PICK n : n = Len(b) + 1
    OBVIOUS
  <1>11. n \in DOMAIN (b \o more) /\ (b \o more)[n] = more[1]
    BY <1>3, <1>6, <1>7, <1>10
  <1>12. blocks'[m][n].core = 1 /\ n \in DOMAIN blocks'[m]
    BY <1>7, <1>9, <1>11
  <1>13. ~Overlap(m)'
    BY DEF ApartInv
  <1>. QED
    BY <1>2, <1>12, <1>13 DEF Overlap

\* Core 1 takes the reply: nobody serves it any more.
LEMMA AnswerKeeps ==
  ASSUME CallParts, NEW m \in Machines, Answer(m), ApartInv'
  PROVE  CallTypes' /\ NetInv' /\ OnceInv' /\ ServeInv' /\ GetInv' /\ BlocksInv'
  <1>0. CallTypes
    BY DEF CallParts
  <1>1. PICK p \in net, tail \in Tails :
          /\ p.to = m /\ p.core = 1 /\ one[m].at = "wait"
          /\ one' = [one EXCEPT ![m].at = "parse", ![m].text = p.text \o tail]
          /\ net' = net \ {p}
    BY DEF Answer
  <1>2. /\ two' = two /\ arrow' = arrow /\ damaged' = damaged
        /\ sys_xml_confg' = sys_xml_confg /\ tagDirectory' = tagDirectory /\ value' = value
    BY DEF Answer, xml
  <1>3. SameBlocks
    <2>1. kmalloc(m, 1, <<Large>>) /\ <<Large>> \in {<<Large>>, <<Large, Large>>}
      BY DEF Answer
    <2>2. blocks[m] = <<>>
      BY <2>1, <1>2, OneAllocates
    <2>. QED
      BY <2>1, <2>2, <1>0, NoBlock
  <1>4. PICK a \in Arguments : a = one[m].args
    BY <1>1 DEF CallParts, GetInv, Gets
  <1>5. PICK t \in Machines : Waits(m, t) /\ p = Back(m, t, a)
    <2>1. PICK k, s \in Machines :
            Waits(k, s) /\ (p = Asks(k, s, one[k].args) \/ p = Back(k, s, one[k].args))
      BY DEF CallParts, NetInv
    <2>2. p = Back(k, s, one[k].args) /\ k = m
      BY <1>1, <2>1, PacketFields
    <2>. QED
      BY <2>1, <2>2, <1>4
  <1>6. p.text = Reply(ack[a])
    BY <1>5, PacketFields
  <1>7. PICK q : q = [one[m] EXCEPT !.at = "parse", !.text = Reply(ack[a]) \o tail]
    OBVIOUS
  <1>8. one[m] \in OneRecords
    BY <1>0 DEF CallTypes
  <1>9. one' = [one EXCEPT ![m] = q]
    BY <1>1, <1>6, <1>7
  <1>10. q = [at |-> "parse", text |-> Reply(ack[a]) \o tail, to |-> one[m].to, args |-> a,
              result |-> one[m].result]
    BY <1>4, <1>7, <1>8 DEF OneRecords
  <1>11. q \in OneRecords
    <2>1. "parse" \in OneLabels /\ Reply(ack[a]) \o tail \in Dequeued
      BY DEF OneLabels, Dequeued
    <2>2. one[m].to \in SUBSET Machines /\ a \in Nat \X Nat /\ one[m].result \in Int
      BY <1>4, <1>8 DEF OneRecords
    <2>. QED
      BY <2>1, <2>2, <1>10, Zenon DEF OneRecords
  <1>12. /\ one' \in [Machines -> OneRecords] /\ one'[m] = q
         /\ \A k \in Machines : k # m => one'[k] = one[k]
    BY <1>0, <1>9, <1>11 DEF CallTypes
  <1>13. /\ q.at = "parse" /\ q.text = Reply(ack[a]) \o tail /\ q.args = a
         /\ q.result = one[m].result
    BY <1>10
  <1>14. CallTypes'
    BY <1>0, <1>2, <1>3, <1>12 DEF CallTypes, SameBlocks
  <1>15. \A k, s \in Machines : Waits(k, s)' => k # m /\ Waits(k, s) /\ one'[k] = one[k]
    BY <1>12, <1>13 DEF Waits
  <1>16. \A k, s \in Machines : Waits(k, s) /\ k # m => Waits(k, s)' /\ one'[k] = one[k]
    BY <1>12 DEF Waits
  <1>17. \A s \in Machines : Waits(m, s) => s = t
    BY <1>5 DEF Waits
  <1>18. NetInv'
    <2> SUFFICES ASSUME NEW r \in net'
                 PROVE  \E k, s \in Machines :
                          /\ Waits(k, s)'
                          /\ r = Asks(k, s, one[k].args)' \/ r = Back(k, s, one[k].args)'
      BY DEF NetInv
    <2>1. r \in net /\ r # p
      BY <1>1
    <2>2. PICK k, s \in Machines :
            Waits(k, s) /\ (r = Asks(k, s, one[k].args) \/ r = Back(k, s, one[k].args))
      BY <2>1 DEF CallParts, NetInv
    <2>3. k # m
      <3>1. ~(Asks(m, t, a) \in net /\ Back(m, t, a) \in net)
        BY <1>4, <1>5 DEF CallParts, OnceInv
      <3>. QED
        BY <3>1, <2>1, <2>2, <1>4, <1>5, <1>17
    <2>4. Waits(k, s)' /\ one'[k] = one[k]
      BY <2>2, <2>3, <1>16
    <2>. QED
      BY <2>2, <2>4 DEF Asks, Back
  <1>19. OnceInv'
    <2> SUFFICES ASSUME NEW k \in Machines, NEW s \in Machines, Waits(k, s)'
                 PROVE  ~(Asks(k, s, one[k].args)' \in net' /\ Back(k, s, one[k].args)' \in net')
      BY DEF OnceInv
    <2>1. Waits(k, s) /\ one'[k] = one[k]
      BY <1>15
    <2>2. ~(Asks(k, s, one[k].args) \in net /\ Back(k, s, one[k].args) \in net)
      BY <2>1 DEF CallParts, OnceInv
    <2>. QED
      BY <2>1, <2>2, <1>1 DEF Asks, Back
  <1>20. ServeInv'
    <2> SUFFICES ASSUME NEW s \in Machines, two[s].at # "loop"
                 PROVE  \E k \in Machines : Serves(s, k)'
      BY <1>2 DEF ServeInv
    <2>1. PICK k \in Machines : Serves(s, k)
      BY DEF CallParts, ServeInv
    <2>2. k # m
      BY <2>1, <1>4, <1>5, <1>17 DEF Serves
    <2>3. Waits(k, s)' /\ one'[k] = one[k]
      BY <2>1, <2>2, <1>16 DEF Serves
    <2>4. Progress(s, one[k].args)'
      <3>1. Progress(s, one[k].args)
        BY <2>1 DEF Serves
      <3>. QED
        BY <3>1, <2>3, <1>2, ProgressSame
    <2>5. Asks(k, s, one[k].args) \notin net' /\ Back(k, s, one[k].args) \notin net'
      BY <2>1, <1>1 DEF Serves
    <2>6. Asks(k, s, one[k].args)' \notin net' /\ Back(k, s, one[k].args)' \notin net'
      BY <2>3, <2>5 DEF Asks, Back
    <2>7. two'[s].from = {k}
      BY <2>1, <1>2 DEF Serves
    <2>. QED
      BY <2>3, <2>4, <2>6, <2>7 DEF Serves
  <1>21. GetInv'
    <2> SUFFICES ASSUME NEW k \in Machines PROVE Gets(k)'
      BY DEF GetInv
    <2>1. Gets(k)
      BY DEF CallParts, GetInv
    <2>2. CASE k # m
      BY <2>1, <2>2, <1>2, <1>12, GetsSame
    <2>3. CASE k = m
      <3>1. one[m].result = -1
        BY <2>1, <2>3, <1>1 DEF Gets
      <3>. QED
        BY <3>1, <2>3, <1>12, <1>13 DEF Gets
    <2>. QED
      BY <2>2, <2>3
  <1>22. BlocksInv'
    BY <1>2, <1>3, BlocksKept
  <1>. QED
    BY <1>14, <1>18, <1>19, <1>20, <1>21, <1>22

\* Core 1, which does not wait, has no packet under way when it sends a request.
LEMMA CallKeeps ==
  ASSUME CallParts, NEW m \in Machines, Call(m), ApartInv'
  PROVE  CallTypes' /\ NetInv' /\ OnceInv' /\ ServeInv' /\ GetInv' /\ BlocksInv'
  <1>0. CallTypes
    BY DEF CallParts
  <1>1. PICK t \in arrow[m], a \in Arguments :
          /\ one[m].at = "loop"
          /\ one' = [one EXCEPT ![m] = [CoreOne EXCEPT !.at = "wait", !.to = {t}, !.args = a]]
          /\ sendIPIoE_Packet(m, t, 2, Request(a))
    BY Zenon DEF Call
  <1>2. /\ two' = two /\ arrow' = arrow /\ damaged' = damaged
        /\ sys_xml_confg' = sys_xml_confg /\ tagDirectory' = tagDirectory /\ value' = value
    BY DEF Call, xml
  <1>3. SameBlocks
    <2>1. kmalloc(m, 1, <<Large, Large>>) /\ <<Large, Large>> \in {<<Large>>, <<Large, Large>>}
      BY Zenon DEF Call
    <2>2. blocks[m] = <<>>
      BY <2>1, <1>2, OneAllocates
    <2>. QED
      BY <2>1, <2>2, <1>0, NoBlock
  <1>4. t \in Machines
    BY <1>0 DEF CallTypes
  <1>5. net' = net \cup {Asks(m, t, a)}
    BY <1>1 DEF sendIPIoE_Packet, Asks
  <1>6. PICK q : q = [CoreOne EXCEPT !.at = "wait", !.to = {t}, !.args = a]
    OBVIOUS
  <1>7. q = [at |-> "wait", text |-> <<>>, to |-> {t}, args |-> a, result |-> -1]
    BY <1>6 DEF CoreOne
  <1>8. q \in OneRecords
    <2>1. "wait" \in OneLabels /\ <<>> \in Dequeued /\ {t} \in SUBSET Machines
      BY <1>4 DEF OneLabels, Dequeued
    <2>2. a \in Nat \X Nat /\ -1 \in Int
      BY CallAssumption
    <2>. QED
      BY <2>1, <2>2, <1>7, Zenon DEF OneRecords
  <1>9. /\ one' \in [Machines -> OneRecords] /\ one'[m] = q
        /\ \A k \in Machines : k # m => one'[k] = one[k]
    BY <1>0, <1>1, <1>6, <1>8 DEF CallTypes
  <1>10. q.at = "wait" /\ q.to = {t} /\ q.args = a /\ q.result = -1
    BY <1>7
  <1>11. CallTypes'
    BY <1>0, <1>2, <1>3, <1>9 DEF CallTypes, SameBlocks
  <1>12. \A k, s \in Machines : Waits(k, s) => k # m /\ Waits(k, s)' /\ one'[k] = one[k]
    BY <1>1, <1>9 DEF Waits
  <1>13. \A k, s \in Machines : Waits(k, s)' /\ k # m => Waits(k, s) /\ one'[k] = one[k]
    BY <1>9 DEF Waits
  <1>14. Waits(m, t)' /\ \A s \in Machines : Waits(m, s)' => s = t
    BY <1>9, <1>10 DEF Waits
  <1>15. \A k, s \in Machines : k # m => Asks(k, s, one[k].args) # Asks(m, t, a)
    BY PacketFields
  <1>16. \A k, s \in Machines : \A b : Back(k, s, b) # Asks(m, t, a)
    BY PacketFields
  <1>17. Asks(m, t, a) \notin net /\ Back(m, t, a) \notin net
    BY <1>1, <1>4, Nothing
  <1>18. NetInv'
    <2> SUFFICES ASSUME NEW r \in net'
                 PROVE  \E k, s \in Machines :
                          /\ Waits(k, s)'
                          /\ r = Asks(k, s, one[k].args)' \/ r = Back(k, s, one[k].args)'
      BY DEF NetInv
    <2>1. CASE r \in net
      <3>1. PICK k, s \in Machines :
              Waits(k, s) /\ (r = Asks(k, s, one[k].args) \/ r = Back(k, s, one[k].args))
        BY <2>1 DEF CallParts, NetInv
      <3>2. Waits(k, s)' /\ one'[k] = one[k]
        BY <3>1, <1>12
      <3>. QED
        BY <3>1, <3>2 DEF Asks, Back
    <2>2. CASE r = Asks(m, t, a)
      <3>1. r = Asks(m, t, one[m].args)'
        BY <2>2, <1>9, <1>10 DEF Asks
      <3>. QED
        BY <3>1, <1>4, <1>14
    <2>. QED
      BY <2>1, <2>2, <1>5
  <1>19. OnceInv'
    <2> SUFFICES ASSUME NEW k \in Machines, NEW s \in Machines, Waits(k, s)'
                 PROVE  ~(Asks(k, s, one[k].args)' \in net' /\ Back(k, s, one[k].args)' \in net')
      BY DEF OnceInv
    <2>1. CASE k = m
      <3>1. s = t
        BY <2>1, <1>14
      <3>2. Back(k, s, one[k].args)' = Back(m, t, a)
        BY <2>1, <3>1, <1>9, <1>10 DEF Back
      <3>. QED
        BY <3>2, <1>4, <1>5, <1>16, <1>17
    <2>2. CASE k # m
      <3>1. Waits(k, s) /\ one'[k] = one[k]
        BY <2>2, <1>13
      <3>2. ~(Asks(k, s, one[k].args) \in net /\ Back(k, s, one[k].args) \in net)
        BY <3>1 DEF CallParts, OnceInv
      <3>3. ~(Asks(k, s, one[k].args) \in net' /\ Back(k, s, one[k].args) \in net')
        BY <2>2, <3>2, <1>5, <1>15, <1>16
      <3>. QED
        BY <3>1, <3>3 DEF Asks, Back
    <2>. QED
      BY <2>1, <2>2
  <1>20. ServeInv'
    <2> SUFFICES ASSUME NEW s \in Machines, two[s].at # "loop"
                 PROVE  \E k \in Machines : Serves(s, k)'
      BY <1>2 DEF ServeInv
    <2>1. PICK k \in Machines : Serves(s, k)
      BY DEF CallParts, ServeInv
    <2>2. k # m /\ Waits(k, s)' /\ one'[k] = one[k]
      BY <2>1, <1>12 DEF Serves
    <2>3. Progress(s, one[k].args)'
      <3>1. Progress(s, one[k].args)
        BY <2>1 DEF Serves
      <3>. QED
        BY <3>1, <2>2, <1>2, ProgressSame
    <2>4. Asks(k, s, one[k].args) \notin net' /\ Back(k, s, one[k].args) \notin net'
      BY <2>1, <2>2, <1>5, <1>15, <1>16 DEF Serves
    <2>5. Asks(k, s, one[k].args)' \notin net' /\ Back(k, s, one[k].args)' \notin net'
      BY <2>2, <2>4 DEF Asks, Back
    <2>6. two'[s].from = {k}
      BY <2>1, <1>2 DEF Serves
    <2>. QED
      BY <2>2, <2>3, <2>5, <2>6 DEF Serves
  <1>21. GetInv'
    <2> SUFFICES ASSUME NEW k \in Machines PROVE Gets(k)'
      BY DEF GetInv
    <2>1. CASE k # m
      <3>1. Gets(k)
        BY DEF CallParts, GetInv
      <3>. QED
        BY <3>1, <2>1, <1>2, <1>9, GetsSame
    <2>2. CASE k = m
      BY <2>2, <1>9, <1>10 DEF Gets
    <2>. QED
      BY <2>1, <2>2
  <1>22. BlocksInv'
    BY <1>2, <1>3, BlocksKept
  <1>. QED
    BY <1>11, <1>18, <1>19, <1>20, <1>21, <1>22

\* The invariant of the calls holds at first ...
LEMMA CallStarts ==
  ASSUME CallInit
  PROVE  CallInv
  <1>1. /\ arrow = [m \in Machines |-> {}] /\ net = {}
        /\ one = [m \in Machines |-> CoreOne] /\ two = [m \in Machines |-> CoreTwo]
        /\ blocks = [m \in Machines |-> <<>>] /\ damaged = FALSE
    BY Zenon DEF CallInit
  <1>2. CoreOne \in OneRecords /\ CoreTwo \in TwoRecords
    <2>1. /\ "loop" \in OneLabels /\ "loop" \in TwoLabels /\ <<>> \in Dequeued
          /\ {} \in SUBSET Machines
      BY DEF OneLabels, TwoLabels, Dequeued
    <2>2. 0 \in Nat /\ -1 \in Int /\ <<0, 0>> \in Nat \X Nat
      OBVIOUS
    <2>. QED
      BY <2>1, <2>2, Zenon DEF OneRecords, TwoRecords, CoreOne, CoreTwo
  <1>3. CoreOne.at = "loop" /\ CoreOne.result = -1 /\ CoreTwo.at = "loop"
    BY DEF CoreOne, CoreTwo
  <1>4. \A m \in Machines : one[m] = CoreOne /\ two[m] = CoreTwo /\ blocks[m] = <<>>
    BY <1>1
  <1>5. CallTypes
    <2>1. /\ DOMAIN sys_xml_confg = Machines /\ DOMAIN tagDirectory = Machines
          /\ DOMAIN value = Machines /\ DOMAIN blocks = Machines
      BY Zenon DEF CallInit
    <2>. QED
      BY <2>1, <1>1, <1>2 DEF CallTypes
  <1>6. NetInv /\ OnceInv
    BY <1>1 DEF NetInv, OnceInv
  <1>7. ServeInv
    BY <1>3, <1>4 DEF ServeInv
  <1>8. GetInv
    BY <1>3, <1>4 DEF GetInv, Gets
  <1>9. BlocksInv
    BY <1>1, <1>3, <1>4 DEF BlocksInv, OwnBlocks
  <1>10. ApartInv
    BY <1>3, <1>4 DEF ApartInv, Overlap
  <1>. QED
    BY <1>5, <1>6, <1>7, <1>8, <1>9, <1>10 DEF CallInv, CallParts

\* ... and every step keeps it, one lemma above for each.
LEMMA CallStep ==
  ASSUME CallInv, [CallNext]_callVars
  PROVE  CallInv'
  <1> SUFFICES ASSUME ~overlapped' PROVE CallParts'
    BY DEF CallInv
  <1>1. CASE UNCHANGED callVars
    <2>1. /\ net' = net /\ one' = one /\ two' = two /\ arrow' = arrow /\ blocks' = blocks
          /\ damaged' = damaged /\ overlapped' = overlapped
          /\ sys_xml_confg' = sys_xml_confg /\ tagDirectory' = tagDirectory /\ value' = value
      BY <1>1 DEF callVars, xml
    <2>2. CallParts
      BY <2>1 DEF CallInv
    <2>3. /\ net' \subseteq net /\ {} \in SUBSET Machines
          /\ \A k \in Machines : k \notin {} => two'[k] = two[k]
      BY <2>1
    <2>4. NetInv' /\ OnceInv' /\ GetInv' /\ ServeInv'
      <3>1. /\ NetInv' /\ OnceInv' /\ GetInv'
            /\ \A t \in Machines : t \notin {} /\ two'[t].at # "loop"
                                     => \E m \in Machines : Serves(t, m)'
        BY <2>1, <2>2, <2>3, FewerPackets
      <3>. QED
        BY <3>1 DEF ServeInv
    <2>5. CallTypes'
      BY <2>1, <2>2 DEF CallParts, CallTypes
    <2>6. BlocksInv'
      BY <2>1, <2>2, <2>5, BlocksKept DEF CallTypes, SameBlocks
    <2>7. ApartInv'
      BY <2>1, <2>2 DEF CallParts, ApartInv, Overlap
    <2>. QED
      BY <2>4, <2>5, <2>6, <2>7 DEF CallParts
  <1>2. CASE CallNext
    <2>1. CallParts
      BY <1>2 DEF CallNext, CallInv
    <2>2. ApartInv'
      BY <1>2 DEF CallNext, ApartInv
    <2> DEFINE Kept == CallTypes' /\ NetInv' /\ OnceInv' /\ ServeInv' /\ GetInv' /\ BlocksInv'
    <2>3. ASSUME NEW m \in Machines, Core1(m) PROVE Kept
      BY <2>1, <2>2, <2>3, PressKeeps, CallKeeps, AnswerKeeps, OneParsesKeeps,
         OneNamesKeeps, OneQueriesKeeps, PrintsKeeps
         DEF Core1
    <2>4. ASSUME NEW m \in Machines, Core2(m) PROVE Kept
      <3>1. ASSUME TwoNames(m, 1, "tag1", "query1") \/ TwoNames(m, 2, "tag2", "query2")
            PROVE  Kept
        <4>1. PICK i, from, to :
                /\ TwoNames(m, i, from, to)
                /\ \/ i = 1 /\ from = "tag1" /\ to = "query1"
                   \/ i = 2 /\ from = "tag2" /\ to = "query2"
          BY <3>1, Zenon
        <4>. QED
          BY <4>1, <2>1, TwoNamesKeeps
      <3>2. ASSUME TwoQueries(m, "query1", "atoi1") \/ TwoQueries(m, "query2", "atoi2")
            PROVE  Kept
        <4>1. PICK from, to :
                /\ TwoQueries(m, from, to)
                /\ (from = "query1" /\ to = "atoi1") \/ (from = "query2" /\ to = "atoi2")
          BY <3>2, Zenon
        <4>. QED
          BY <4>1, <2>1, TwoQueriesKeeps
      <3>3. ASSUME \/ Serve(m) \/ TwoParses(m) \/ TwoConverts(m) \/ CallAckermannFunction(m)
                   \/ ConvertEncodes(m) \/ ConvertDecodes(m) \/ ConvertWrites(m)
                   \/ SendsReply(m)
            PROVE  Kept
        BY <2>1, <3>3, ServeKeeps, TwoParsesKeeps, TwoConvertsKeeps,
           CallAckermannKeeps, ConvertEncodesKeeps, ConvertDecodesKeeps,
           ConvertWritesKeeps, SendsReplyKeeps
      <3>. QED
        BY <2>4, <3>1, <3>2, <3>3 DEF Core2
    <2>5. ASSUME Lose PROVE Kept
      BY <2>1, <2>5, LoseKeeps
    <2>6. Kept
      BY <1>2, <2>3, <2>4, <2>5 DEF CallNext
    <2>. QED
      BY <2>2, <2>6 DEF CallParts
  <1>. QED
    BY <1>1, <1>2

\* While the cores of no machine have overlapped, every call is in one place, with
\* the arguments and the result that belong to it, and core 2's blocks are its own.
THEOREM CallInvariant == CallSpec => []CallInv
  <1>. QED
    BY CallStarts, CallStep, PTL DEF CallSpec

\* The number core 1 prints is the function's value for the arguments it sent: what
\* the request carries, parse_xml finds in it, the reply encodes and core 1 decodes.
THEOREM AnswerIsRight == CallSpec => []AnswerRight
  <1>1. ASSUME CallInv PROVE AnswerRight
    <2> SUFFICES ASSUME ~overlapped, NEW m \in Machines
                 PROVE  one[m].result = -1 \/ one[m].result = Ackermann(one[m].args)
      BY DEF AnswerRight
    <2>1. Gets(m)
      BY <1>1 DEF CallInv, CallParts, GetInv
    <2>. QED
      BY <2>1, ResultAssumption DEF Gets
  <1>. QED
    BY <1>1, CallInvariant, PTL

\* The reply, written past the end of its buffer, stays in blocks of core 2's own.
THEOREM ReplyIsContained == CallSpec => []ReplyContained
  <1>1. ASSUME CallInv PROVE ReplyContained
    BY <1>1 DEF CallInv, CallParts, BlocksInv, ReplyContained
  <1>. QED
    BY <1>1, CallInvariant, PTL

=============================================================================
