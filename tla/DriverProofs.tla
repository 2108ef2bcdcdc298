----------------------------- MODULE DriverProofs -----------------------------
(***************************************************************************)
(* Proofs about the drivers of the network card and of the disks and about *)
(* how the boot finds them.                                                *)
(*                                                                         *)
(* The network card, for rings of any length, any number of sending cores  *)
(* and any number of packets: the card sends what e1000SendPacket was      *)
(* given, and e1000HandleReceive handles the packets the card stored, each *)
(* once and in the order they came.                                        *)
(*                                                                         *)
(* The disks, for any disk, requests, length of a chunk, width of the      *)
(* count register and length of a region: a request is served the sectors  *)
(* it asked for, in whatever number of chunks and after whatever retries.  *)
(*                                                                         *)
(* The start of both, for up to 255 functions at any addresses, any        *)
(* drives and any list of models: each known card is started once, each    *)
(* ATA drive has its disk.                                                 *)
(***************************************************************************)
EXTENDS E1000, ATADisk, Devices, FiniteSetTheorems, WellFoundedInduction, TLAPS

(* The next index of the transmit ring, as e1000SendPacket and the card    *)
(* compute it.                                                             *)
LEMMA TxStep ==
  ASSUME NEW i \in Tx
  PROVE  (i + 1) % TxDesc = TxNext(i) /\ TxNext(i) \in Tx
<1>1. CASE i = TxDesc - 1
  BY <1>1, RingAssumption DEF Tx, TxNext
<1>2. CASE i # TxDesc - 1
  BY <1>2, RingAssumption DEF Tx, TxNext
<1> QED
  BY <1>1, <1>2

(* The index before the next one is the index itself.                      *)
LEMMA TxBack ==
  ASSUME NEW i \in Tx
  PROVE  (TxNext(i) + TxDesc - 1) % TxDesc = i
<1>1. CASE i = TxDesc - 1
  BY <1>1, RingAssumption DEF Tx, TxNext
<1>2. CASE i # TxDesc - 1
  <2>1. i \in 0 .. TxDesc - 1 /\ TxNext(i) + TxDesc - 1 = i + TxDesc
    BY <1>2, RingAssumption DEF Tx, TxNext
  <2>2. (i + TxDesc) % TxDesc = i
    BY <2>1, RingAssumption
  <2> QED
    BY <2>1, <2>2
<1> QED
  BY <1>1, <1>2

(* A place k steps after i in the receive ring.                            *)
LEMMA RxWrap ==
  ASSUME NEW i \in Rx, NEW k \in 0 .. RxDesc
  PROVE  /\ (i + k) % RxDesc = IF i + k < RxDesc THEN i + k ELSE i + k - RxDesc
         /\ (i + k) % RxDesc \in Rx
<1>1. CASE i + k < RxDesc
  BY <1>1, RingAssumption DEF Rx
<1>2. CASE ~(i + k < RxDesc)
  <2>1. i + k - RxDesc \in 0 .. RxDesc - 1
    BY <1>2, RingAssumption DEF Rx
  <2>2. (i + k - RxDesc + RxDesc) % RxDesc = i + k - RxDesc
    BY <2>1, RingAssumption
  <2> QED
    BY <1>2, <2>1, <2>2, RingAssumption DEF Rx
<1> QED
  BY <1>1, <1>2

(* The indices of the driver and the registers of the card stay inside the *)
(* rings, whatever the interleaving of the cores and the card.             *)
THEOREM TypeCorrect == Spec => []TypeOK
<1> USE RingAssumption DEF Cores, Data
<1>1. Init => TypeOK
  <2> SUFFICES ASSUME Init PROVE TypeOK
    OBVIOUS
  <2> USE DEF Init, RXInit, TXInit
  <2>1. irq \in BOOLEAN /\ alarm \in BOOLEAN /\ rx_descs \in [Rx -> BOOLEAN]
    BY Zenon
  <2>2. Out \in Packet
    BY DEF Out, Packet
  <2>3. {tx_cur, old_cur, TDH, TDT} \subseteq Tx
    BY DEF Tx
  <2>4. {rx_cur, rx_old, RDH, RDT} \subseteq Rx
    BY DEF Rx
  <2>5. tx_descs \in [Tx -> [rx : Rx \cup {None}, data : Packet, dd : BOOLEAN]]
    BY <2>2
  <2> QED
    BY <2>1, <2>2, <2>3, <2>4, <2>5 DEF TypeOK, Lock!Init
<1>2. TypeOK /\ [Next]_vars => TypeOK'
  <2> SUFFICES ASSUME TypeOK, [Next]_vars PROVE TypeOK'
    OBVIOUS
  <2>0. Out \in Packet /\ \A p \in Packet : Reply(p) \in Packet
    BY DEF Out, Packet, Reply
  <2> USE DEF TypeOK, txvars, cardtx, rxvars, cardrx, Goto
  <2>1. ASSUME NEW c \in Cores, Call(c) PROVE TypeOK'
    BY <2>0, <2>1 DEF Call
  <2>2. ASSUME NEW c \in Cores, Acquire(c) PROVE TypeOK'
    BY <2>2 DEF Acquire, Lock!Acquire
  <2>3. ASSUME NEW c \in Cores, Fill(c) PROVE TypeOK'
    <3>1. tx_descs' \in [Tx -> [rx : Rx \cup {None}, data : Packet,
                                dd : BOOLEAN]]
      BY <2>3 DEF Fill
    <3> QED
      BY <2>3, <3>1 DEF Fill
  <2>4. ASSUME NEW c \in Cores, ReadHead(c) PROVE TypeOK'
    <3>1. alarm' \in BOOLEAN
      BY <2>4, Zenon DEF ReadHead
    <3> QED
      BY <2>4, <3>1 DEF ReadHead
  <2>5. ASSUME NEW c \in Cores, SetTail(c) PROVE TypeOK'
    BY <2>5, TxStep DEF SetTail
  <2>6. ASSUME NEW c \in Cores, Poll(c) PROVE TypeOK'
    BY <2>6 DEF Poll, Lock!Release
  <2>7. CASE TakeInterrupt
    BY <2>7 DEF TakeInterrupt
  <2>8. CASE ReadICR \/ CheckHead \/ LoopEnds \/ ClearICR
    <3>1. CASE ReadICR
      BY <3>1 DEF ReadICR
    <3>2. CASE CheckHead
      BY <3>2 DEF CheckHead
    <3>3. CASE LoopEnds
      BY <3>3 DEF LoopEnds
    <3>4. CASE ClearICR
      BY <3>4 DEF ClearICR
    <3> QED
      BY <2>8, <3>1, <3>2, <3>3, <3>4
  <2>9. CASE TakePacket
    <3>1. (rx_cur + 1) % RxDesc \in Rx
      BY RxWrap
    <3> QED
      BY <2>9, <3>1 DEF TakePacket
  <2>10. CASE Answer
    <3>0. rxbuf[rx_old] \in Packet /\ Reply(rxbuf[rx_old]) \in Packet
      BY <2>0
    <3>1. rxbuf' \in [Rx -> Packet]
      BY <3>0, <2>10 DEF Answer
    <3>2. req' \in [Cores -> Data]
      BY <3>0, <2>10 DEF Answer
    <3> QED
      BY <2>10, <3>1, <3>2 DEF Answer
  <2>11. CASE Consume \/ ReturnDesc
    <3>1. CASE Consume
      BY <3>1 DEF Consume
    <3>2. CASE ReturnDesc
      BY <3>2 DEF ReturnDesc
    <3> QED
      BY <2>11, <3>1, <3>2
  <2>12. CASE CardReceive
    <3>1. In(arrived + 1) \in Packet
      BY <2>12 DEF CardReceive, In, Packet
    <3> QED
      BY <2>12, <3>1 DEF CardReceive
  <2>13. CASE CardRaise
    <3>1. (RDH + 1) % RxDesc \in Rx
      BY RxWrap
    <3>2. irq' \in BOOLEAN
      BY <2>13, Zenon DEF CardRaise, Raise
    <3> QED
      BY <2>13, <3>1, <3>2 DEF CardRaise, Raise
  <2>14. CASE CardLink
    <3>2. irq' \in BOOLEAN
      BY <2>14, Zenon DEF CardLink, Raise
    <3> QED
      BY <2>14, <3>2 DEF CardLink, Raise
  <2>15. CASE CardTransmit
    <3>1. tx_descs' \in [Tx -> [rx : Rx \cup {None}, data : Packet,
                                dd : BOOLEAN]]
      BY <2>0, <2>15 DEF CardTransmit
    <3> QED
      BY <2>15, <3>1 DEF CardTransmit
  <2>16. CASE CardWriteBack
    <3>0. InWork \in Tx
      BY RingAssumption DEF InWork, Tx
    <3>1. tx_descs' \in [Tx -> [rx : Rx \cup {None}, data : Packet,
                                dd : BOOLEAN]]
      <4> DEFINE new == [tx_descs[InWork] EXCEPT !.dd = TRUE]
      <4>0. tx_descs[InWork] \in [rx : Rx \cup {None}, data : Packet,
                                   dd : BOOLEAN]
        BY <3>0
      <4>1. new \in [rx : Rx \cup {None}, data : Packet, dd : BOOLEAN]
        BY <4>0
      <4>2. tx_descs' = [tx_descs EXCEPT ![InWork] = new]
        BY <2>16 DEF CardWriteBack
      <4> HIDE DEF new
      <4> QED
        BY <3>0, <4>1, <4>2
    <3>2. irq' \in BOOLEAN
      BY <2>16, Zenon DEF CardWriteBack, Raise
    <3> QED
      BY <2>16, <3>1, <3>2 DEF CardWriteBack, Raise
  <2>17. CASE CardAdvance
    BY <2>17, TxStep DEF CardAdvance
  <2>18. CASE UNCHANGED vars
    BY <2>18 DEF vars
  <2> QED
    BY <2>1, <2>2, <2>3, <2>4, <2>5, <2>6, <2>7, <2>8, <2>9, <2>10, <2>11,
       <2>12, <2>13, <2>14, <2>15, <2>16, <2>17, <2>18
       DEF Next, Sending, Handling, CardTx
<1> QED
  BY <1>1, <1>2, PTL DEF Spec

-----------------------------------------------------------------------------
(* The transmit ring.                                                      *)

(* The cores between spinlock_lock and spinlock_unlock of e1000SendPacket  *)
(* are the holder of the lock, and nobody else.                            *)
THEOREM SendLock == Spec => []LockInv
<1>1. Init => LockInv
  BY RingAssumption DEF Init, LockInv, InLock, Lock!Init, Cores
<1>2. TypeOK /\ LockInv /\ [Next]_vars => LockInv'
  <2> SUFFICES ASSUME TypeOK, LockInv, [Next]_vars PROVE LockInv'
    OBVIOUS
  <2>0. pc \in [Cores -> {"idle", "lock", "fill", "head", "tail", "poll", "icr",
                         "check", "loop", "process", "return", "clear"}]
    BY DEF TypeOK
  <2>1. Isr \in Cores /\ NoCore \notin Cores
    BY RingAssumption DEF Cores
  <2> USE <2>0, <2>1 DEF LockInv, InLock, Goto
  <2>2. ASSUME NEW c \in Cores, Call(c) \/ Fill(c) \/ ReadHead(c) \/ SetTail(c)
        PROVE  LockInv'
    BY <2>2 DEF Call, Fill, ReadHead, SetTail
  <2>3. ASSUME NEW c \in Cores, Acquire(c) PROVE LockInv'
    BY <2>3 DEF Acquire, Lock!Acquire
  <2>4. ASSUME NEW c \in Cores, Poll(c) PROVE LockInv'
    BY <2>4 DEF Poll, Lock!Release
  <2>5. CASE Handling
    BY <2>5 DEF Handling, TakeInterrupt, ReadICR, CheckHead, TakePacket,
                LoopEnds, Answer, Consume, ReturnDesc, ClearICR
  <2>6. CASE CardReceive \/ CardRaise \/ CardLink \/ CardTx
    BY <2>6 DEF CardReceive, CardRaise, CardLink, CardTx, CardTransmit,
                CardWriteBack, CardAdvance
  <2>7. CASE UNCHANGED vars
    BY <2>7 DEF vars
  <2> QED
    BY <2>2, <2>3, <2>4, <2>5, <2>6, <2>7 DEF Next, Sending
<1> QED
  BY <1>1, <1>2, TypeCorrect, PTL DEF Spec

(* Steps that leave the transmit ring and the requests of the cores in     *)
(* e1000SendPacket alone keep what is said about them.                     *)
LEMMA TxFrame ==
  ASSUME TxInv, UNCHANGED <<txvars, cardtx, alarm>>,
         \A c \in Cores :
           /\ pc'[c] \in {"head", "tail", "poll"} =>
                pc'[c] = pc[c] /\ req'[c] = req[c]
           /\ pc[c] = "poll" => pc'[c] = "poll"
  PROVE  TxInv'
<1>1. AllSent' = AllSent /\ LastQueued' = LastQueued
  BY DEF AllSent, LastQueued, txvars, cardtx
<1>2. \A d : \A c \in Cores : pc'[c] \in {"head", "tail", "poll"} =>
                              Carries(d, req[c])' = Carries(d, req[c])
  BY DEF Carries, txvars
<1>3. UNCHANGED <<tx_cur, old_cur, tx_descs, TDT, TDH, txstep, alarm>>
  BY DEF txvars, cardtx
<1>4. (\A c \in Cores : pc'[c] # "poll") => (\A c \in Cores : pc[c] # "poll")
  OBVIOUS
<1> QED
  BY <1>1, <1>2, <1>3, <1>4 DEF TxInv

(* At most one packet is in the ring, the one of the core that holds the   *)
(* lock: the next core fills a descriptor that the card is done with.      *)
THEOREM OnePacketQueued == Spec => []TxInv
<1> USE RingAssumption
<1>1. Init => TxInv
  BY DEF Init, TXInit, TxInv, AllSent, Cores
<1>2. TypeOK /\ LockInv /\ TxInv /\ [Next]_vars => TxInv'
  <2> SUFFICES ASSUME TypeOK, LockInv, TxInv, [Next]_vars PROVE TxInv'
    OBVIOUS
  <2>a. pc \in [Cores -> {"idle", "lock", "fill", "head", "tail", "poll", "icr",
                         "check", "loop", "process", "return", "clear"}]
    BY DEF TypeOK
  <2>b. Isr \in Cores
    BY DEF Cores
  <2>c. /\ tx_cur \in Tx /\ old_cur \in Tx /\ TDH \in Tx /\ TDT \in Tx
        /\ tx_descs \in [Tx -> [rx : Rx \cup {None}, data : Packet, dd : BOOLEAN]]
        /\ req \in [Cores -> Data] /\ txstep \subseteq {"dd", "head"}
    BY DEF TypeOK
  <2>d. \A c, e \in Cores : pc[c] \in InLock /\ pc[e] \in InLock => c = e
    BY DEF LockInv
  <2> USE <2>a, <2>b, <2>c, <2>d DEF InLock
  <2>1. ASSUME NEW c \in Cores, Call(c) \/ Acquire(c) PROVE TxInv'
    BY <2>1, TxFrame DEF Call, Acquire, Goto
  <2>2. ASSUME NEW c \in Cores, Fill(c) PROVE TxInv'
    <3>1. \A e \in Cores \ {c} : pc[e] \notin InLock
      BY <2>2 DEF Fill
    <3>2. AllSent /\ TDT = tx_cur /\ ~alarm
      BY <2>2, <3>1 DEF Fill, TxInv
    <3>3. Carries(tx_cur, req[c])'
      BY <2>2 DEF Fill, Carries
    <3>4. AllSent' /\ (TDT = tx_cur)' /\ ~alarm'
      BY <2>2, <3>2 DEF Fill, AllSent, cardtx
    <3> QED
      BY <2>2, <3>1, <3>3, <3>4 DEF Fill, Goto, TxInv
  <2>3. ASSUME NEW c \in Cores, ReadHead(c) PROVE TxInv'
    <3>1. \A e \in Cores \ {c} : pc[e] \notin InLock
      BY <2>3 DEF ReadHead
    <3>2. AllSent /\ TDT = tx_cur /\ ~alarm /\ Carries(tx_cur, req[c])
      BY <2>3, <3>1 DEF ReadHead, TxInv
    <3>3. tx_cur + 1 # TDH
      BY <3>2 DEF AllSent, TxNext, Tx
    <3>4. AllSent' /\ (TDT = tx_cur)' /\ ~alarm' /\ Carries(tx_cur, req[c])'
      BY <2>3, <3>2, <3>3 DEF ReadHead, AllSent, Carries, cardtx
    <3> QED
      BY <2>3, <3>1, <3>4 DEF ReadHead, Goto, TxInv
  <2>4. ASSUME NEW c \in Cores, SetTail(c) PROVE TxInv'
    <3>1. \A e \in Cores \ {c} : pc[e] \notin InLock
      BY <2>4 DEF SetTail
    <3>2. /\ AllSent /\ TDT = tx_cur /\ ~alarm /\ Carries(tx_cur, req[c])
          /\ old_cur = tx_cur
      BY <2>4, <3>1 DEF SetTail, TxInv
    <3>3. TDT' = TxNext(old_cur') /\ (TDT = tx_cur)' /\ ~alarm'
      BY <2>4, <3>2, TxStep DEF SetTail
    <3>4. LastQueued' /\ Carries(old_cur, req[c])'
      BY <2>4, <3>2 DEF SetTail, AllSent, LastQueued, Carries, cardtx
    <3> QED
      BY <2>4, <3>1, <3>3, <3>4 DEF SetTail, Goto, TxInv
  <2>5. ASSUME NEW c \in Cores, Poll(c) PROVE TxInv'
    <3>1. \A e \in Cores \ {c} : pc[e] \notin InLock
      BY <2>5 DEF Poll
    <3>2. AllSent /\ TDT = tx_cur /\ ~alarm
      BY <2>5 DEF Poll, TxInv, Carries
    <3>3. AllSent' /\ (TDT = tx_cur)' /\ ~alarm'
      BY <2>5, <3>2 DEF Poll, AllSent, cardtx, txvars
    <3> QED
      BY <2>5, <3>1, <3>3 DEF Poll, Goto, TxInv
  <2>6. CASE TakeInterrupt \/ ReadICR \/ CheckHead \/ TakePacket \/ LoopEnds
    BY <2>6, TxFrame DEF TakeInterrupt, ReadICR, CheckHead, TakePacket,
                         LoopEnds, Goto
  <2>7. CASE Answer \/ Consume \/ ReturnDesc \/ ClearICR
    BY <2>7, TxFrame DEF Answer, Consume, ReturnDesc, ClearICR, Goto
  <2>8. CASE CardReceive \/ CardRaise \/ CardLink \/ UNCHANGED vars
    BY <2>8, TxFrame DEF CardReceive, CardRaise, CardLink, vars
  <2>9. CASE CardTransmit
    BY <2>9 DEF CardTransmit, TxInv, AllSent, LastQueued, Carries, Tx, TxNext
  <2>10. CASE CardWriteBack
    BY <2>10, TxBack DEF CardWriteBack, InWork, TxInv, AllSent, LastQueued,
                         Carries
  <2>11. CASE CardAdvance
    BY <2>11, TxStep DEF CardAdvance, TxInv, AllSent, LastQueued, Carries,
                         txvars
  <2> QED
    BY <2>1, <2>2, <2>3, <2>4, <2>5, <2>6, <2>7, <2>8, <2>9, <2>10, <2>11
       DEF Next, Sending, Handling, CardTx
<1> QED
  BY <1>1, <1>2, TypeCorrect, SendLock, PTL DEF Spec

-----------------------------------------------------------------------------
(* The receive ring.                                                       *)

(* Counted from rx_cur, every descriptor of the receive ring has one place.*)
LEMMA RxPlaces ==
  ASSUME rx_cur \in Rx
  PROVE  /\ \A k \in 0 .. RxDesc - 1 : RxAt(k) \in Rx
         /\ \A j, k \in 0 .. RxDesc - 1 : RxAt(j) = RxAt(k) => j = k
         /\ \A k \in 0 .. RxDesc - 2 : (RxAt(k) + 1) % RxDesc = RxAt(k + 1)
         /\ (RxAt(RxDesc - 1) + 1) % RxDesc = rx_cur
         /\ RxAt(0) = rx_cur
<1> USE RingAssumption
<1>1. \A k \in 0 .. RxDesc - 1 : RxAt(k) \in Rx
  BY DEF RxAt, Rx
<1>2. \A k \in 0 .. RxDesc - 1 :
        (RxAt(k) + 1) % RxDesc = IF RxAt(k) + 1 < RxDesc THEN RxAt(k) + 1 ELSE 0
  <2> TAKE k \in 0 .. RxDesc - 1
  <2> DEFINE i == RxAt(k)
  <2>1. i \in Rx /\ 1 \in 0 .. RxDesc
    BY <1>1
  <2> HIDE DEF i
  <2>2. (i + 1) % RxDesc = IF i + 1 < RxDesc THEN i + 1 ELSE i + 1 - RxDesc
    BY <2>1, RxWrap
  <2>3. (i + 1) % RxDesc = IF i + 1 < RxDesc THEN i + 1 ELSE 0
    BY <2>1, <2>2 DEF Rx
  <2> QED
    BY <2>3 DEF i
<1>3. \A j, k \in 0 .. RxDesc - 1 : RxAt(j) = RxAt(k) => j = k
  BY DEF RxAt, Rx
<1>4. /\ \A k \in 0 .. RxDesc - 2 : (RxAt(k) + 1) % RxDesc = RxAt(k + 1)
      /\ (RxAt(RxDesc - 1) + 1) % RxDesc = rx_cur
  <2>1. ASSUME NEW k \in 0 .. RxDesc - 2
        PROVE  (RxAt(k) + 1) % RxDesc = RxAt(k + 1)
    <3>1. (RxAt(k) + 1) % RxDesc
            = IF RxAt(k) + 1 < RxDesc THEN RxAt(k) + 1 ELSE 0
      BY <1>2
    <3> QED
      BY <3>1 DEF RxAt, Rx
  <2>2. (RxAt(RxDesc - 1) + 1) % RxDesc
          = IF RxAt(RxDesc - 1) + 1 < RxDesc THEN RxAt(RxDesc - 1) + 1 ELSE 0
    BY <1>2
  <2>3. (RxAt(RxDesc - 1) + 1) % RxDesc = rx_cur
    BY <2>2 DEF RxAt, Rx
  <2> QED
    BY <2>1, <2>3
<1>5. RxAt(0) = rx_cur
  BY DEF RxAt, Rx
<1> QED
  BY <1>1, <1>3, <1>4, <1>5

(* Steps that leave the receive ring alone, and do not take core 0 into or *)
(* out of the handling of a packet, keep what is said about the ring.      *)
LEMMA RxFrame ==
  ASSUME RxInv, UNCHANGED <<rxvars, cardrx>>, InHand' <=> InHand,
         pc'[Isr] = "process" <=> pc[Isr] = "process"
  PROVE  RxInv'
<1>1. UNCHANGED <<rx_cur, rx_old, rx_descs, rxbuf, RDT, processed, RDH, rxstep,
                  arrived>>
  BY DEF rxvars, cardrx
<1>2. Taken' = Taken /\ Stored' = Stored
  BY <1>1 DEF Taken, Stored
<1>3. \A k \in 0 .. RxDesc : RxAt(k)' = RxAt(k)
  BY <1>1 DEF RxAt
<1> QED
  BY <1>1, <1>2, <1>3 DEF RxInv, RxAt

(* Between the driver's tail and the card's head: the descriptors the card *)
(* has filled hold the packets that arrived and were not taken, in order,  *)
(* and the card never writes to the one in hand.                           *)
THEOREM RingOrder == Spec => []RxInv
<1> USE RingAssumption
<1>1. Init => RxInv
  <2> SUFFICES ASSUME Init PROVE RxInv
    OBVIOUS
  <2>0. pc[Isr] = "idle" /\ arrived = 0 /\ processed = 0
    BY DEF Init, Cores
  <2>1. ~InHand /\ pc[Isr] = "idle" /\ Taken = 0 /\ Stored = 0
    BY <2>0 DEF InHand, InLock, Taken, Stored
  <2>2. \A k \in 0 .. RxDesc - 1 : RxAt(k) = k
    BY DEF Init, RXInit, RxAt
  <2>3. rxstep = "idle" /\ RDH = 0 /\ RDT = RxDesc - 1
        /\ \A k \in 0 .. RxDesc - 1 : ~rx_descs[k]
    BY DEF Init, RXInit, Rx
  <2>4. ASSUME NEW k \in 0 .. RxDesc - 1
        PROVE  (rx_descs[RxAt(k)] <=> k < Stored) /\ ~(k < Stored)
    BY <2>1, <2>2, <2>3
  <2>5. RDT = RxAt(RxDesc - 1) /\ RDH = RxAt(Stored) /\ Stored \in 0 .. RxDesc - 1
    BY <2>1, <2>2, <2>3
  <2> QED
    BY <2>1, <2>3, <2>4, <2>5 DEF RxInv
<1>2. TypeOK /\ RxInv /\ [Next]_vars => RxInv'
  <2> SUFFICES ASSUME TypeOK, RxInv, [Next]_vars PROVE RxInv'
    OBVIOUS
  <2>a. pc \in [Cores -> {"idle", "lock", "fill", "head", "tail", "poll", "icr",
                         "check", "loop", "process", "return", "clear"}]
    BY DEF TypeOK
  <2>b. Isr \in Cores
    BY DEF Cores
  <2>c. /\ rx_cur \in Rx /\ rx_old \in Rx /\ RDH \in Rx /\ RDT \in Rx
        /\ rx_descs \in [Rx -> BOOLEAN] /\ rxbuf \in [Rx -> Packet]
        /\ arrived \in Nat /\ processed \in Nat
        /\ rxstep \in {"idle", "written"}
    BY DEF TypeOK
  <2> USE <2>a, <2>b
  <2>1. ASSUME NEW c \in Cores, Call(c) \/ Acquire(c) \/ Sending(c)
        PROVE  RxInv'
    BY <2>1, RxFrame DEF Call, Acquire, Sending, Fill, ReadHead, SetTail,
                         Poll, Goto, InHand, InLock
  <2>2. CASE TakeInterrupt \/ ReadICR \/ CheckHead \/ LoopEnds \/ ClearICR
    BY <2>2, RxFrame DEF TakeInterrupt, ReadICR, CheckHead, LoopEnds,
                         ClearICR, Goto, InHand, InLock
  <2>3. CASE CardLink \/ CardTx \/ UNCHANGED vars
    BY <2>3, RxFrame DEF CardLink, CardTx, CardTransmit, CardWriteBack,
                         CardAdvance, vars, InHand
  <2>4. CASE TakePacket
    <3>1. /\ ~InHand /\ InHand' /\ Taken' = Taken + 1 /\ Stored' = Stored - 1
          /\ processed' = processed /\ pc'[Isr] = "process"
          /\ Taken = processed /\ Stored \in Int /\ Taken \in Nat
      BY <2>4, <2>c DEF TakePacket, Goto, InHand, InLock, Taken, Stored, cardrx
    <3>2. RxAt(0) = rx_cur /\ Stored > 0
      BY <2>4, <2>c DEF TakePacket, RxInv, RxAt, Rx
    <3>3. /\ rx_cur' = RxAt(1) /\ RxAt(RxDesc - 1)' = rx_cur
          /\ \A k \in 0 .. RxDesc - 2 : RxAt(k)' = RxAt(k + 1)
      <4>1. rx_cur' = IF rx_cur + 1 < RxDesc THEN rx_cur + 1
                      ELSE rx_cur + 1 - RxDesc
        BY <2>4, <2>c, RxWrap DEF TakePacket
      <4> QED
        BY <2>c, <4>1 DEF RxAt, Rx
    <3>4. /\ UNCHANGED <<RDT, RDH, rxstep, rxbuf>> /\ rx_old' = rx_cur
          /\ rx_descs' = [rx_descs EXCEPT ![rx_cur] = FALSE]
      BY <2>4 DEF TakePacket, cardrx
    <3>5. \A k \in 0 .. RxDesc - 2 : RxAt(k + 1) \in Rx /\ RxAt(k + 1) # rx_cur
      BY <2>c DEF RxAt, Rx
    <3>6. ASSUME NEW k \in 0 .. RxDesc - 1
          PROVE  /\ rx_descs'[RxAt(k)'] <=> k < Stored'
                 /\ k < Stored' => rxbuf'[RxAt(k)'] = In(Taken' + 1 + k)
      <4>1. CASE k = RxDesc - 1
        BY <2>c, <3>1, <3>3, <3>4, <4>1 DEF RxInv
      <4>2. CASE k \in 0 .. RxDesc - 2
        <5>1. /\ rx_descs[RxAt(k + 1)] <=> k + 1 < Stored
              /\ k + 1 < Stored => rxbuf[RxAt(k + 1)] = In(Taken + 1 + (k + 1))
          BY <4>2 DEF RxInv
        <5> QED
          BY <2>c, <3>1, <3>3, <3>4, <3>5, <4>2, <5>1
      <4> QED
        BY <4>1, <4>2
    <3>7. rxbuf'[rx_old'] = In(processed' + 1)
      <4>1. rxbuf[RxAt(0)] = In(Taken + 1 + 0)
        BY <3>1, <3>2 DEF RxInv
      <4> QED
        BY <3>1, <3>2, <3>4, <4>1
    <3>8. /\ Stored' \in 0 .. RxDesc - 2
          /\ RDT' = RxAt(RxDesc - 2)' /\ rx_old' = RxAt(RxDesc - 1)'
      BY <3>1, <3>2, <3>3, <3>4 DEF RxInv
    <3>9. rxstep' = "idle" => RDH' = RxAt(Stored)'
      BY <3>1, <3>2, <3>3, <3>4 DEF RxInv
    <3>10. rxstep' = "written" =>
             RDH' = RxAt((IF Stored = 0 THEN RxDesc ELSE Stored) - 1)'
      BY <3>1, <3>2, <3>3, <3>4 DEF RxInv
    <3> QED
      BY <3>1, <3>6, <3>7, <3>8, <3>9, <3>10 DEF RxInv
  <2>5. CASE Answer
    <3>1. /\ InHand /\ InHand' /\ Taken' = Taken /\ Stored' = Stored
          /\ pc'[Isr] # "process"
      BY <2>5, <2>c DEF Answer, Goto, InHand, InLock, Taken, Stored, cardrx
    <3>2. \A k \in 0 .. RxDesc : RxAt(k)' = RxAt(k)
      BY <2>5 DEF Answer, RxAt
    <3>3. /\ UNCHANGED <<rx_old, rx_descs, RDT, RDH, rxstep>>
          /\ \A d \in Rx \ {rx_old} : rxbuf'[d] = rxbuf[d]
      BY <2>5, <2>c DEF Answer, cardrx
    <3>4. rx_old = RxAt(RxDesc - 1) /\ Stored \in 0 .. RxDesc - 2
      BY <3>1 DEF RxInv
    <3>5. \A k \in 0 .. RxDesc - 1 : k < Stored => RxAt(k) \in Rx \ {rx_old}
      BY <3>4, <2>c, RxPlaces
    <3> QED
      BY <3>1, <3>2, <3>3, <3>4, <3>5 DEF RxInv
  <2>6. CASE Consume
    <3>1. /\ InHand /\ InHand' /\ Taken' = Taken /\ Stored' = Stored
          /\ pc'[Isr] # "process"
      BY <2>6, <2>c DEF Consume, Goto, InHand, InLock, Taken, Stored, cardrx
    <3>2. \A k \in 0 .. RxDesc : RxAt(k)' = RxAt(k)
      BY <2>6 DEF Consume, RxAt
    <3>3. UNCHANGED <<rx_old, rx_descs, rxbuf, RDT, RDH, rxstep>>
      BY <2>6 DEF Consume, cardrx
    <3>4. Stored \in 0 .. RxDesc - 2
      BY <3>1 DEF RxInv
    <3> QED
      BY <3>1, <3>2, <3>3, <3>4 DEF RxInv
  <2>7. CASE ReturnDesc
    <3>1. /\ InHand /\ ~InHand' /\ Taken' = Taken /\ Stored' = Stored
          /\ pc'[Isr] # "process"
      BY <2>7, <2>c DEF ReturnDesc, Goto, InHand, InLock, Taken, Stored, cardrx
    <3>2. \A k \in 0 .. RxDesc : RxAt(k)' = RxAt(k)
      BY <2>7 DEF ReturnDesc, RxAt
    <3>3. UNCHANGED <<rx_descs, rxbuf, RDH, rxstep>> /\ RDT' = rx_old
      BY <2>7 DEF ReturnDesc, cardrx
    <3>4. rx_old = RxAt(RxDesc - 1) /\ Stored \in 0 .. RxDesc - 2
      BY <3>1 DEF RxInv
    <3> QED
      BY <3>1, <3>2, <3>3, <3>4 DEF RxInv
  <2>8. CASE CardReceive
    <3>1. /\ InHand' = InHand /\ Taken' = Taken /\ Stored' = Stored + 1
          /\ pc' = pc /\ processed' = processed /\ Taken \in Nat
          /\ arrived = Taken + Stored
      BY <2>8, <2>c DEF CardReceive, InHand, Taken, Stored
    <3>2. \A k \in 0 .. RxDesc : RxAt(k)' = RxAt(k)
      BY <2>8 DEF CardReceive, RxAt
    <3>3. /\ UNCHANGED <<rx_old, RDT, RDH>> /\ rxstep' = "written"
          /\ rx_descs' = [rx_descs EXCEPT ![RDH] = TRUE]
          /\ rxbuf' = [rxbuf EXCEPT ![RDH] = In(arrived + 1)]
      BY <2>8 DEF CardReceive
    <3>4. RDH = RxAt(Stored) /\ RDH # RDT
      BY <2>8 DEF CardReceive, RxInv
    <3>5. Stored \in 0 .. RxDesc - 2 /\ (InHand => Stored < RxDesc - 2)
      BY <3>4 DEF RxInv
    <3>6. \A k \in 0 .. RxDesc - 1 : RxAt(k) \in Rx /\ (RxAt(k) = RDH => k = Stored)
      BY <3>4, <3>5, <2>c, RxPlaces
    <3>7. ASSUME NEW k \in 0 .. RxDesc - 1
          PROVE  /\ rx_descs'[RxAt(k)'] <=> k < Stored'
                 /\ k < Stored' => rxbuf'[RxAt(k)'] = In(Taken' + 1 + k)
      <4>1. CASE k = Stored
        <5>1. Taken + 1 + k = arrived + 1
          BY <3>1, <3>5, <4>1
        <5> QED
          BY <2>c, <3>1, <3>2, <3>3, <3>4, <3>5, <4>1, <5>1
      <4>2. CASE k # Stored
        <5>1. /\ rx_descs'[RxAt(k)] = rx_descs[RxAt(k)]
              /\ rxbuf'[RxAt(k)] = rxbuf[RxAt(k)]
          BY <2>c, <3>3, <3>6, <4>2
        <5>2. k < Stored' <=> k < Stored
          BY <3>1, <3>5, <4>2
        <5> QED
          BY <3>1, <3>2, <5>1, <5>2 DEF RxInv
      <4> QED
        BY <4>1, <4>2
    <3>8. InHand => rx_old = RxAt(RxDesc - 1) /\ rx_old # RDH
      BY <3>5, <3>6 DEF RxInv
    <3>9. pc[Isr] = "process" => InHand /\ rxbuf'[rx_old] = rxbuf[rx_old]
      BY <2>c, <3>3, <3>8 DEF InHand
    <3> QED
      BY <3>1, <3>2, <3>3, <3>4, <3>5, <3>7, <3>8, <3>9 DEF RxInv
  <2>9. CASE CardRaise
    <3>1. /\ InHand' = InHand /\ Taken' = Taken /\ Stored' = Stored
          /\ pc' = pc /\ processed' = processed
      BY <2>9, <2>c DEF CardRaise, InHand, Taken, Stored, rxvars
    <3>2. \A k \in 0 .. RxDesc : RxAt(k)' = RxAt(k)
      BY <2>9 DEF CardRaise, RxAt, rxvars
    <3>3. /\ UNCHANGED <<rx_old, rx_descs, rxbuf, RDT>> /\ rxstep' = "idle"
          /\ RDH' = (RDH + 1) % RxDesc
      BY <2>9 DEF CardRaise, rxvars
    <3>4. Stored \in 0 .. RxDesc - 1
      BY DEF RxInv
    <3>5. RDH' = RxAt(Stored)
      <4>1. CASE Stored = 0
        BY <2>9, <2>c, <3>3, <4>1, RxPlaces DEF CardRaise, RxInv
      <4>2. CASE Stored # 0
        <5>1. RDH = RxAt(Stored - 1) /\ Stored - 1 \in 0 .. RxDesc - 2
          BY <2>9, <3>4, <4>2 DEF CardRaise, RxInv
        <5>2. (RxAt(Stored - 1) + 1) % RxDesc = RxAt(Stored - 1 + 1)
          BY <2>c, <5>1, RxPlaces
        <5> QED
          BY <3>3, <3>4, <5>1, <5>2
      <4> QED
        BY <4>1, <4>2
    <3> QED
      BY <3>1, <3>2, <3>3, <3>4, <3>5 DEF RxInv
  <2> QED
    BY <2>1, <2>2, <2>3, <2>4, <2>5, <2>6, <2>7, <2>8, <2>9 DEF Next, Handling
<1> QED
  BY <1>1, <1>2, TypeCorrect, PTL DEF Spec

(* The packets the card has stored are handled each once and in the order  *)
(* they arrived; e1000HandleReceive misses, repeats and overwrites none.   *)
THEOREM PacketsInOrder == Spec => []ReceivedInOrder
<1>1. TypeOK /\ RxInv => ReceivedInOrder
  <2> SUFFICES ASSUME TypeOK, RxInv PROVE ReceivedInOrder
    OBVIOUS
  <2> DEFINE taken == IF pc[Isr] = "process" THEN 1 ELSE 0
             at(n) == (rx_cur + (n - processed - taken - 1)) % RxDesc
  <2>1. /\ rx_cur \in Rx /\ arrived \in Nat /\ processed \in Nat
        /\ Taken = processed + taken /\ Stored = arrived - Taken
        /\ Stored \in 0 .. RxDesc - 1 /\ taken \in {0, 1}
    BY RingAssumption DEF TypeOK, Taken, Stored, RxInv
  <2>2. ASSUME NEW n \in processed + taken + 1 .. arrived
        PROVE  rx_descs[at(n)] /\ rxbuf[at(n)] = In(n)
    <3> DEFINE k == n - processed - taken - 1
    <3>1. k \in 0 .. RxDesc - 1 /\ k < Stored /\ Taken + 1 + k = n
      <4> HIDE DEF taken
      <4> QED
        BY <2>1, RingAssumption
    <3>2. at(n) = RxAt(k)
      <4>1. at(n) = (rx_cur + k) % RxDesc
        OBVIOUS
      <4> HIDE DEF k, at
      <4>2. (rx_cur + k) % RxDesc = RxAt(k)
        BY <2>1, <3>1, RxWrap, RingAssumption DEF RxAt
      <4> QED
        BY <4>1, <4>2
    <3>3. rx_descs[RxAt(k)] /\ rxbuf[RxAt(k)] = In(Taken + 1 + k)
      BY <3>1 DEF RxInv
    <3> QED
      BY <3>1, <3>2, <3>3
  <2>3. pc[Isr] = "process" => rxbuf[rx_old] = In(processed + 1)
    BY DEF RxInv
  <2> QED
    BY <2>2, <2>3 DEF ReceivedInOrder
<1> QED
  BY <1>1, TypeCorrect, RingOrder, PTL

-----------------------------------------------------------------------------
(* Replies, which are sent from the receive buffers.                       *)

(* The card does not write to the descriptor in hand.                      *)
LEMMA InHandKept ==
  ASSUME TypeOK, RxInv, CardReceive, InHand
  PROVE  rx_old # RDH
<1> USE RingAssumption
<1>1. /\ RDH = RxAt(Stored) /\ RDT = RxAt(RxDesc - 2) /\ rx_old = RxAt(RxDesc - 1)
      /\ RDH # RDT /\ Stored \in 0 .. RxDesc - 2
  BY DEF CardReceive, RxInv
<1>2. rx_cur \in Rx
  BY DEF TypeOK
<1> QED
  BY <1>1, <1>2, RxPlaces

(* A reply under way is the contents of the receive buffer it is sent      *)
(* from; nothing else is sent from a receive buffer.                       *)
THEOREM ReplyKept == Spec => []ReplyInv
<1> USE RingAssumption
<1>1. Init => ReplyInv
  BY DEF Init, ReplyInv, InLock, Cores
<1>2. TypeOK /\ RxInv /\ ReplyInv /\ [Next]_vars => ReplyInv'
  <2> SUFFICES ASSUME TypeOK, RxInv, ReplyInv, [Next]_vars PROVE ReplyInv'
    OBVIOUS
  <2>a. pc \in [Cores -> {"idle", "lock", "fill", "head", "tail", "poll", "icr",
                         "check", "loop", "process", "return", "clear"}]
    BY DEF TypeOK
  <2>b. Isr \in Cores /\ Senders \subseteq Cores
    BY DEF Cores
  <2>c. rx_old \in Rx /\ RDH \in Rx /\ rxbuf \in [Rx -> Packet]
        /\ req \in [Cores -> Data]
    BY DEF TypeOK
  <2> USE <2>a, <2>b, <2>c DEF ReplyInv, InLock, Goto
  <2>1. ASSUME NEW c \in Cores, Call(c) PROVE ReplyInv'
    BY <2>1 DEF Call, rxvars
  <2>2. ASSUME NEW c \in Cores, Acquire(c) \/ Sending(c) PROVE ReplyInv'
    BY <2>2 DEF Acquire, Sending, Fill, ReadHead, SetTail, Poll, rxvars
  <2>3. CASE TakeInterrupt \/ ReadICR \/ CheckHead \/ LoopEnds \/ ClearICR
    BY <2>3 DEF TakeInterrupt, ReadICR, CheckHead, LoopEnds, ClearICR, rxvars
  <2>4. CASE TakePacket \/ Consume \/ ReturnDesc
    BY <2>4 DEF TakePacket, Consume, ReturnDesc
  <2>5. CASE Answer
    <3>1. /\ req'[Isr].rx = rx_old /\ rx_old' = rx_old
          /\ req'[Isr].data = Reply(rxbuf[rx_old])
          /\ rxbuf'[rx_old] = Reply(rxbuf[rx_old])
      BY <2>5 DEF Answer
    <3>2. \A c \in Senders : req'[c] = req[c]
      BY <2>5 DEF Answer
    <3> QED
      BY <3>1, <3>2
  <2>6. CASE CardReceive
    <3>1. pc[Isr] \in {"lock"} \cup InLock => rxbuf'[rx_old] = rxbuf[rx_old]
      <4>1. pc[Isr] \in {"lock"} \cup InLock => rx_old # RDH
        BY <2>6, InHandKept DEF InHand
      <4> QED
        BY <2>6, <4>1 DEF CardReceive
    <3> QED
      BY <2>6, <3>1 DEF CardReceive
  <2>7. CASE CardRaise \/ CardLink \/ CardTx \/ UNCHANGED vars
    BY <2>7 DEF CardRaise, CardLink, CardTx, CardTransmit, CardWriteBack,
                CardAdvance, vars, rxvars
  <2> QED
    BY <2>1, <2>2, <2>3, <2>4, <2>5, <2>6, <2>7 DEF Next, Handling
<1> QED
  BY <1>1, <1>2, TypeCorrect, RingOrder, PTL DEF Spec

(* What goes out is what was handed to e1000SendPacket: the ring is never  *)
(* full, nothing is left in it when the lock is free, and a reply's buffer *)
(* is not reused before the card has sent it.                              *)
THEOREM PacketsIntact == Spec => []SentIntact
<1>1. TypeOK /\ LockInv /\ TxInv /\ ReplyInv => SentIntact
  <2> SUFFICES ASSUME TypeOK, LockInv, TxInv, ReplyInv, NEW d \in Tx, Pending(d)
               PROVE  /\ owner # NoCore
                      /\ tx_descs[d].rx # None =>
                           rxbuf[tx_descs[d].rx] = tx_descs[d].data
    BY DEF SentIntact, TxInv
  <2>1. txstep = {} /\ TDH # TDT /\ TDH \in Tx /\ TDT \in Tx /\ old_cur \in Tx
    BY RingAssumption DEF Pending, TypeOK, Tx
  <2>2. PICK c \in Cores : pc[c] = "poll"
    BY <2>1 DEF TxInv, AllSent
  <2>3. TDH = old_cur /\ TDT = TxNext(old_cur) /\ Carries(old_cur, req[c])
    BY <2>1, <2>2 DEF TxInv, AllSent, LastQueued
  <2>4. d = old_cur
    BY <2>1, <2>3, RingAssumption DEF Pending, TxNext, Tx
  <2>5. owner = c /\ owner # NoCore
    BY <2>2, RingAssumption DEF LockInv, InLock, Cores
  <2>6. req[c].rx # None => rxbuf[req[c].rx] = req[c].data
    BY <2>2 DEF ReplyInv, InLock, Cores
  <2> QED
    BY <2>3, <2>4, <2>5, <2>6 DEF Carries
<1> QED
  BY <1>1, TypeCorrect, SendLock, OnePacketQueued, ReplyKept, PTL

-----------------------------------------------------------------------------
(***************************************************************************)
(* The disks: the inductive invariant of a transfer.                       *)
(***************************************************************************)
Numbers == {current_read, total_read, target_read, current_write, total_write,
            target_write, begun, current_address} \subseteq Nat

Flags == {read, enabled, write_done, bm, irq14, fired} \subseteq BOOLEAN

Awaiting == {"clear", "test", "halt", "woken"}

\* Who may be where.  An interrupt that finds bit 2 of the status set is that of
\* the chunk in progress: the bit is cleared before a command is given, and
\* nothing is pending when a request begins.
Control ==
  /\ reqpc \in Awaiting \cup {"idle", "program", "poll", "hung", "done", "writing"}
  /\ hpc \in {"none", "program", "poll", "hung"}
  /\ dev \in {"idle", "busy", "drq", "err", "moving"}
  /\ hpc # "none" => reqpc \in Awaiting \cup {"writing"}
  /\ reqpc \in Awaiting \cup {"done"} => read
  /\ reqpc = "writing" => ~read
  /\ dev # "idle" => ~bm
  /\ reqpc \in {"idle", "done"} => dev = "idle" /\ ~irq14
  /\ (irq14 /\ bm) \/ dev = "moving" =>
        hpc = "none" /\ reqpc \in Awaiting \cup {"writing"}

\* A command that the drive has not finished is that of the chunk in progress.
CommandRight ==
  dev # "idle" =>
     LET count == IF read THEN current_read ELSE current_write
     IN  /\ prdt = Regions(count)
         /\ cmd = [to |-> IF read THEN "read" ELSE "write",
                   at |-> current_address, count |-> Asked(count)]

ReadSoFar == \A k \in 0 .. total_read - 1 : buffer[k] = disk[begun + k]

\* A read in progress: what has been handled is in the buffer, the chunk that
\* is next is known, and fired, once cleared, tells that there is none.
ReadInv ==
  read /\ reqpc # "idle" =>
     /\ total_read <= target_read /\ begun + target_read + Chunk <= DiskSize
     /\ ReadSoFar
     /\ total_read < target_read =>
           /\ current_read = MinOf(target_read - total_read, Chunk)
           /\ current_address = begun + total_read
     /\ total_read = target_read =>
           dev = "idle" /\ ~irq14 /\ hpc = "none" /\ reqpc \in Awaiting \cup {"done"}
     /\ reqpc = "done" => total_read = target_read
     /\ fired /\ reqpc \in {"test", "halt", "woken"} => total_read = target_read
     /\ irq14 /\ bm =>
           \A k \in 0 .. current_read - 1 : memory[k] = disk[current_address + k]

\* The sectors written when n of the request are: those, none in front of the
\* request, and none more than a chunk behind it.
Written(n) ==
  \A s \in Sectors :
    /\ s < begun \/ s >= begun + target_write + Chunk => disk[s] = Old(s)
    /\ s \in begun .. begun + n - 1 /\ s < begun + target_write =>
         disk[s] = New(s - begun)

\* A write in progress, or the one that is over.
WriteInv ==
  ~read /\ (reqpc # "idle" \/ write_done) =>
     /\ total_write <= target_write /\ begun + target_write + Chunk <= DiskSize
     /\ Written(total_write)
     /\ ~write_done =>
           /\ current_write = IF total_write = target_write THEN Chunk
                              ELSE MinOf(target_write - total_write, Chunk)
           /\ current_address = begun + total_write
           /\ memory = Copied(total_write, current_write, target_write)
     /\ write_done => /\ total_write = target_write
                      /\ dev = "idle" /\ ~irq14 /\ hpc = "none"
                      /\ reqpc \in {"idle", "writing"}
     /\ irq14 /\ bm => Written(total_write + current_write)

\* Before the write the disk is as it was.
Unwritten ==
  ~write_done /\ (read \/ reqpc = "idle") => \A s \in Sectors : disk[s] = Old(s)

TransferInv == /\ Numbers /\ Flags /\ Control /\ CommandRight
               /\ ReadInv /\ WriteInv /\ Unwritten

\* While the drive flushes its cache, and until that interrupt is taken,
\* nothing has been asked for since the write.
FlushInv ==
  flush # "none" => write_done /\ ~read /\ reqpc \in {"idle", "writing"}

\* Once a read has been begun too early nothing more is claimed of reads, and
\* there is no write any more.
DiskInv == IF stale THEN read /\ write_done ELSE TransferInv /\ FlushInv
-----------------------------------------------------------------------------
\* A number lies between two multiples of a divisor.
LEMMA DivMod ==
  ASSUME NEW k \in Nat, NEW d \in Nat, 0 < d
  PROVE  \E j \in Nat : j * d <= k /\ k < j * d + d
  <1>1. k % d \in 0 .. d - 1 /\ k \div d \in Nat
    BY SMT
  <1>2. k = d * (k \div d) + (k % d)
    BY SMT
  <1>3. (k \div d) * d \in Nat /\ (k \div d) * d = d * (k \div d)
    BY <1>1, SMT
  <1>4. (k \div d) * d <= k /\ k < (k \div d) * d + d
    BY <1>1, <1>2, <1>3, SMT
  <1>. QED
    BY <1>1, <1>4, Zenon

\* The registers hold the count of a chunk, the largest one included.
LEMMA AskedIsCount == \A n \in 1 .. Chunk : Asked(n) = n
  <1> SUFFICES ASSUME NEW n \in 1 .. Chunk PROVE Asked(n) = n
    OBVIOUS
  <1>1. n \in Nat /\ CountMod \in Nat /\ 0 < CountMod /\ n <= CountMod
    BY DiskAssumption
  <1>2. CASE n = CountMod
    <2>1. (n % CountMod) = 0
      BY <1>1, <1>2
    <2>. QED
      BY <2>1, <1>2 DEF Asked
  <1>3. CASE n < CountMod
    <2>1. (n % CountMod) = n
      BY <1>1, <1>3
    <2>. QED
      BY <2>1, <1>1 DEF Asked
  <1>. QED
    BY <1>1, <1>2, <1>3

\* A region that reaches k does not lie behind the last one.
LEMMA Multiples ==
  ASSUME NEW i \in Nat, NEW j \in Nat, NEW d \in Nat, j * d < i * d + d
  PROVE  j * d <= i * d
  <1>1. CASE j <= i
    BY <1>1, SMT
  <1>2. CASE i + 1 <= j
    <2>1. (i + 1) * d <= j * d
      BY <1>2, SMT
    <2>2. (i + 1) * d = i * d + d
      BY SMT
    <2>3. i * d \in Nat /\ j * d \in Nat
      BY SMT
    <2>. QED
      BY <2>1, <2>2, <2>3
  <1>. QED
    BY <1>1, <1>2

\* The regions of a chunk reach every sector of it.
LEMMA RegionsCover ==
  ASSUME NEW n \in Nat, prdt = Regions(n), cmd.count = n, NEW k \in 0 .. n - 1
  PROVE  Covered(k)
  <1>1. PrdMax \in Nat /\ 0 < PrdMax /\ k \in Nat /\ k < n
    BY DiskAssumption
  <1>2. PICK j \in Nat : j * PrdMax <= k /\ k < j * PrdMax + PrdMax
    BY <1>1, DivMod
  <1>3. j * PrdMax \in Nat
    BY <1>1, SMT
  <1>4. j <= j * PrdMax
    BY <1>1, SMT
  <1>5. j \in 0 .. n /\ j * PrdMax < n
    BY <1>1, <1>2, <1>3, <1>4
  <1> DEFINE r == [at |-> j * PrdMax, length |-> MinOf(PrdMax, n - j * PrdMax),
                   last |-> n - j * PrdMax <= PrdMax]
  <1>6. r \in prdt
    BY <1>5 DEF Regions
  <1>7. k \in r.at .. r.at + r.length - 1
    BY <1>1, <1>2, <1>3 DEF MinOf
  <1>8. ASSUME NEW q \in prdt, q.last PROVE r.at <= q.at
    <2>1. PICK i \in 0 .. n : q = [at |-> i * PrdMax,
                                   length |-> MinOf(PrdMax, n - i * PrdMax),
                                   last |-> n - i * PrdMax <= PrdMax]
      BY <1>8 DEF Regions
    <2>2. i * PrdMax \in Nat
      BY <1>1, SMT
    <2>5. n - i * PrdMax <= PrdMax
      BY <2>1, <1>8, Zenon
    <2>3. j * PrdMax < i * PrdMax + PrdMax
      BY <2>2, <2>5, <1>1, <1>3, <1>5
    <2>4. j * PrdMax <= i * PrdMax
      BY <2>3, <1>1, Multiples
    <2>. QED
      BY <2>1, <2>4
  <1>. QED
    BY <1>1, <1>6, <1>7, <1>8 DEF Covered

\* The chunk in progress has at least one sector and at most Chunk.
LEMMA ChunkCount ==
  ASSUME Numbers, Control, ReadInv, WriteInv, reqpc # "idle",
         read => total_read < target_read, ~read => ~write_done
  PROVE  (IF read THEN current_read ELSE current_write) \in 1 .. Chunk
  BY DiskAssumption DEF Numbers, Control, ReadInv, WriteInv, MinOf

\* An interrupt of a read puts the chunk behind what is there.
LEMMA ReadMore ==
  ASSUME TransferInv, FlushInv, HandleRead
  PROVE  /\ read /\ reqpc # "idle" /\ hpc = "none" /\ ~irq14' /\ dev = "idle"
         /\ reqpc \in Awaiting /\ reqpc' \in Awaiting
         /\ total_read < target_read /\ begun + target_read + Chunk <= DiskSize
         /\ current_read \in 1 .. Chunk /\ total_read + current_read <= target_read
         /\ current_address = begun + total_read
         /\ ReadSoFar'
  <1>1. /\ read /\ hpc = "none" /\ ~irq14' /\ dev = "idle" /\ reqpc \in Awaiting
        /\ reqpc' = IF reqpc = "halt" THEN "woken" ELSE reqpc
        /\ bm /\ irq14
    BY DEF TransferInv, FlushInv, HandleRead, IrqTaken, Control
  <1>2. reqpc # "idle" /\ reqpc' \in Awaiting
    BY <1>1 DEF Awaiting
  <1>3. total_read < target_read /\ begun + target_read + Chunk <= DiskSize
    BY <1>1, <1>2 DEF TransferInv, ReadInv, Numbers
  <1>4. /\ current_read = MinOf(target_read - total_read, Chunk)
        /\ current_address = begun + total_read
    BY <1>1, <1>2, <1>3 DEF TransferInv, ReadInv
  <1>5. /\ current_read \in 1 .. Chunk /\ total_read + current_read <= target_read
        /\ total_read \in Nat /\ target_read \in Nat /\ begun \in Nat
    BY <1>3, <1>4, DiskAssumption DEF TransferInv, MinOf, Numbers
  <1>6. ReadSoFar'
    <2>0. total_read' = total_read + current_read /\ begun' = begun /\ disk' = disk
      BY DEF HandleRead
    <2>1. SUFFICES ASSUME NEW k \in 0 .. total_read' - 1
                   PROVE  buffer'[k] = disk'[begun' + k]
      BY DEF ReadSoFar
    <2>5. k \in 0 .. total_read + current_read - 1
      BY <2>0, <2>1, <1>5
    <2>6. SUFFICES buffer'[k] = disk[begun + k]
      BY <2>0
    <2>2. k \in Sectors
      BY <2>5, <1>3, <1>5, DiskAssumption DEF Sectors
    <2>3. CASE k < total_read
      <3>1. buffer[k] = disk[begun + k]
        BY <2>3, <2>5, <1>1, <1>2, <1>5 DEF TransferInv, ReadInv, ReadSoFar
      <3>. QED
        BY <3>1, <2>2, <2>3, <2>5, <1>5 DEF HandleRead
    <2>4. CASE k >= total_read
      <3>1. k - total_read \in 0 .. current_read - 1
        BY <2>4, <2>5, <1>5
      <3>2. memory[k - total_read] = disk[current_address + (k - total_read)]
        BY <3>1, <1>1, <1>2 DEF TransferInv, ReadInv
      <3>3. current_address + (k - total_read) = begun + k
        BY <2>5, <1>4, <1>5
      <3>4. k \in total_read .. total_read + current_read - 1
        BY <2>4, <2>5, <1>5
      <3>. QED
        BY <3>2, <3>3, <3>4, <2>2 DEF HandleRead
    <2>. QED
      BY <2>3, <2>4, <2>5, <1>5
  <1>. QED
    BY <1>1, <1>2, <1>3, <1>4, <1>5, <1>6

\* The command the drive is working on, and the regions for it.
LEMMA CommandCovered ==
  ASSUME TransferInv, dev # "idle"
  PROVE  LET count == IF read THEN current_read ELSE current_write IN
         /\ reqpc # "idle"
         /\ read => total_read < target_read
         /\ ~read => ~write_done
         /\ count \in 1 .. Chunk
         /\ cmd.to = (IF read THEN "read" ELSE "write") /\ cmd.at = current_address
         /\ cmd.count = count
         /\ \A k \in 0 .. count - 1 : Covered(k)
  <1> DEFINE count == IF read THEN current_read ELSE current_write
  <1>2. reqpc # "idle"
    BY DEF TransferInv, Control
  <1>3. (read => total_read < target_read) /\ (~read => ~write_done)
    BY <1>2 DEF TransferInv, ReadInv, WriteInv, Numbers
  <1>4. count \in 1 .. Chunk
    BY <1>2, <1>3, ChunkCount DEF TransferInv
  <1>5. /\ prdt = Regions(count)
        /\ cmd = [to |-> IF read THEN "read" ELSE "write",
                  at |-> current_address, count |-> Asked(count)]
    BY DEF TransferInv, CommandRight
  <1>6. cmd.count = count
    BY <1>4, <1>5, AskedIsCount
  <1>7. count \in Nat
    BY <1>4, DiskAssumption
  <1> HIDE DEF count
  <1>8. \A k \in 0 .. count - 1 : Covered(k)
    BY <1>5, <1>6, <1>7, RegionsCover
  <1>. QED
    BY <1>2, <1>3, <1>4, <1>5, <1>6, <1>8 DEF count

\* The chunk of a write is on the disk when the drive has moved it.
LEMMA ChunkWritten ==
  ASSUME TransferInv, Move, ~read
  PROVE  Written(total_write)' /\ Written(total_write + current_write)'
  <1>1. /\ ~write_done /\ reqpc # "idle" /\ current_write \in 1 .. Chunk
        /\ cmd.to = "write" /\ cmd.at = current_address
        /\ \A k \in 0 .. current_write - 1 : Covered(k)
    BY CommandCovered DEF Move
  <1>2. /\ total_write <= target_write /\ current_address = begun + total_write
        /\ memory = Copied(total_write, current_write, target_write)
        /\ Written(total_write)
    BY <1>1 DEF TransferInv, WriteInv
  <1>3. /\ total_write \in Nat /\ begun \in Nat /\ target_write \in Nat
        /\ current_write \in Nat /\ Chunk \in Nat
    BY <1>1, DiskAssumption DEF TransferInv, Numbers
  <1>4. /\ begun' = begun /\ target_write' = target_write
        /\ total_write' = total_write /\ current_write' = current_write
        /\ disk' = [s \in Sectors |-> IF s >= cmd.at /\ Covered(s - cmd.at)
                                      THEN memory[s - cmd.at] ELSE disk[s]]
    BY <1>1 DEF Move, writing, request
  <1>5. ASSUME NEW s \in Sectors, s < begun + total_write PROVE disk'[s] = disk[s]
    <2>1. s \in Int /\ ~(s >= cmd.at)
      BY <1>1, <1>2, <1>3, <1>5, DiskAssumption DEF Sectors
    <2>. QED
      BY <2>1, <1>4
  <1>6. ASSUME NEW s \in Sectors, s >= begun + total_write,
               s < begun + total_write + current_write, s < begun + target_write
        PROVE  disk'[s] = New(s - begun)
    <2>1. s \in Int /\ s - cmd.at \in 0 .. current_write - 1 /\ s >= cmd.at
      BY <1>1, <1>2, <1>3, <1>6, DiskAssumption DEF Sectors
    <2>2. disk'[s] = memory[s - cmd.at]
      BY <2>1, <1>1, <1>4
    <2>3. /\ s - cmd.at \in 0 .. Chunk - 1 /\ ~(s - cmd.at >= current_write)
          /\ total_write + (s - cmd.at) = s - begun
          /\ total_write + (s - cmd.at) < target_write
      BY <2>1, <1>1, <1>2, <1>3, <1>6
    <2>4. memory[s - cmd.at] = New(total_write + (s - cmd.at))
      BY <2>3, <1>2 DEF Copied
    <2>. QED
      BY <2>2, <2>3, <2>4
  <1>7. ASSUME NEW s \in Sectors, s < begun \/ s >= begun + target_write + Chunk
        PROVE  disk'[s] = Old(s)
    <2>1. s \in Int /\ disk[s] = Old(s)
      BY <1>2, <1>7, DiskAssumption DEF Written, Sectors
    <2>2. CASE s < begun
      BY <2>1, <2>2, <1>3, <1>5
    <2>3. CASE s >= begun + target_write + Chunk
      <3>1. cmd.count = current_write
        BY CommandCovered DEF Move
      <3>2. ~(s - cmd.at < cmd.count)
        BY <3>1, <2>1, <2>3, <1>1, <1>2, <1>3
      <3>3. ~Covered(s - cmd.at)
        BY <3>2 DEF Covered
      <3>. QED
        BY <3>3, <2>1, <1>4
    <2>. QED
      BY <2>2, <2>3, <1>7
  <1>8. ASSUME NEW s \in Sectors, s \in begun .. begun + total_write - 1
        PROVE  disk'[s] = New(s - begun)
    <2>1. s < begun + total_write /\ s < begun + target_write
      BY <1>2, <1>3, <1>8
    <2>2. disk[s] = New(s - begun)
      BY <2>1, <1>2, <1>8 DEF Written
    <2>. QED
      BY <2>1, <2>2, <1>5
  <1>9. Written(total_write)'
    BY <1>4, <1>7, <1>8 DEF Written
  <1>10. ASSUME NEW s \in Sectors, s < begun + target_write,
                s \in begun .. begun + (total_write + current_write) - 1
         PROVE  disk'[s] = New(s - begun)
    <2>1. CASE s < begun + total_write
      BY <2>1, <1>3, <1>8, <1>10
    <2>2. CASE s >= begun + total_write
      BY <2>2, <1>3, <1>6, <1>10
    <2>. QED
      BY <2>1, <2>2, <1>3, <1>10
  <1>11. Written(total_write + current_write)'
    BY <1>4, <1>7, <1>10 DEF Written
  <1>. QED
    BY <1>9, <1>11

-----------------------------------------------------------------------------
\* The invariant holds when initATAManager has run, ...
LEMMA TransferInit == DiskInit => TransferInv
  <1> SUFFICES ASSUME DiskInit PROVE TransferInv
    OBVIOUS
  <1>1. Numbers /\ Control /\ CommandRight
    BY DEF DiskInit, Numbers, Control, CommandRight, Awaiting
  <1>3. Flags
    BY DEF DiskInit, Flags
  <1>2. ReadInv /\ WriteInv /\ Unwritten
    BY DEF DiskInit, ReadInv, WriteInv, Unwritten
  <1>. QED
    BY <1>1, <1>2, <1>3 DEF TransferInv

\* ... and every step of the request, the handler and the drive preserves it.
LEMMA TransferStep ==
  ASSUME TransferInv, FlushInv, [DiskNext]_diskVars, ~stale, ~stale'
  PROVE  TransferInv'
  <1> USE DEF TransferInv
  <1>0. ASSUME NEW r \in Requests
        PROVE  /\ r[1] \in Nat /\ r[2] \in Nat /\ 0 < r[2]
               /\ r[1] + r[2] + Chunk <= DiskSize
    BY <1>0, DiskAssumption
  <1>1. ASSUME NEW r \in Requests, BeginRead(r[1], r[2]) PROVE TransferInv'
    <2> DEFINE a == r[1]
               n == r[2]
    <2>0. /\ a \in Nat /\ n \in Nat /\ Chunk \in Nat
          /\ 0 < n /\ a + n + Chunk <= DiskSize
      BY <1>0, DiskAssumption
    <2>a. BeginRead(a, n)
      BY <1>1
    <2>b. flush = "none"
      BY <2>a DEF BeginRead
    <2> HIDE DEF a, n
    <2>1. Numbers' /\ Flags' /\ Control'
      <3>1. Numbers'
        BY <2>a, <2>0 DEF Numbers, BeginRead, MinOf, writing
      <3>2. Flags'
        BY <2>a DEF Flags, BeginRead, device, writing
      <3>3. Control'
        BY <2>a DEF Control, Awaiting, BeginRead, device
      <3>. QED
        BY <3>1, <3>2, <3>3
    <2>2. CommandRight'
      BY <2>a DEF CommandRight, Control, BeginRead, device, reading, writing,
                  request, core
    <2>3. ReadInv'
      BY <2>a, <2>0 DEF ReadInv, ReadSoFar, Control, Awaiting, BeginRead,
                        MinOf, device, reading, writing, request, core
    <2>4. WriteInv' /\ Unwritten'
      BY <2>a DEF WriteInv, Unwritten, BeginRead, device, reading, writing,
                  request, core
    <2>. QED
      BY <2>1, <2>2, <2>3, <2>4
  <1>2. ASSUME NEW r \in Requests, BeginWrite(r[1], r[2]) PROVE TransferInv'
    <2> DEFINE a == r[1]
               n == r[2]
    <2>0. /\ a \in Nat /\ n \in Nat /\ Chunk \in Nat
          /\ 0 < n /\ a + n + Chunk <= DiskSize
      BY <1>0, DiskAssumption
    <2>a. BeginWrite(a, n)
      BY <1>2
    <2> HIDE DEF a, n
    <2>1. Numbers' /\ Flags' /\ Control'
      <3>1. Numbers'
        BY <2>a, <2>0 DEF Numbers, BeginWrite, MinOf, writing
      <3>2. Flags'
        BY <2>a DEF Flags, BeginWrite, device, writing
      <3>3. Control'
        BY <2>a DEF Control, Awaiting, BeginWrite, device
      <3>. QED
        BY <3>1, <3>2, <3>3
    <2>2. CommandRight'
      BY <2>a DEF CommandRight, Control, BeginWrite, device, reading, writing,
                  request, core
    <2>3. ReadInv' /\ Unwritten'
      BY <2>a DEF ReadInv, Unwritten, BeginWrite, device, reading, writing,
                  request, core
    <2>4. WriteInv'
      <3>1. Written(0)'
        BY <2>a, <2>0 DEF Written, Unwritten, BeginWrite, Sectors, device,
                          reading, writing, request, core
      <3>2. total_write' = 0 /\ ~irq14' /\ ~write_done' /\ ~read'
        BY <2>a DEF Control, BeginWrite, device, reading, writing, request,
                    core
      <3>3. /\ total_write' <= target_write'
            /\ (begun + target_write + Chunk <= DiskSize)'
            /\ current_write' = MinOf(target_write' - total_write', Chunk)
            /\ total_write' # target_write'
            /\ current_address' = begun' + total_write'
        BY <2>a, <2>0 DEF BeginWrite, MinOf
      <3>4. memory' = Copied(total_write', current_write', target_write')
        BY <2>a, <2>0 DEF BeginWrite
      <3>. QED
        BY <3>1, <3>2, <3>3, <3>4 DEF WriteInv, Copied, Written
    <2>. QED
      BY <2>1, <2>2, <2>3, <2>4
  <1>3. CASE Start
    <2>1. Numbers' /\ Flags' /\ Control'
      BY <1>3 DEF Numbers, Flags, Control, Awaiting, ReadInv, Start, At,
                  device, reading, writing, request, core
    <2>2. CommandRight'
      BY <1>3 DEF CommandRight, Control, Start, At, device, reading, writing,
                  request, core
    <2>3. ReadInv'
      BY <1>3 DEF ReadInv, ReadSoFar, Control, Awaiting, Numbers, Flags,
                  Start, At, device, reading, writing, request, core
    <2>4. WriteInv'
      BY <1>3 DEF WriteInv, Written, Control, Awaiting, Start, At, device,
                  reading, writing, request, core
    <2>5. Unwritten'
      BY <1>3 DEF Unwritten, Control, Start, At, device, reading, writing,
                  request, core
    <2>. QED
      BY <2>1, <2>2, <2>3, <2>4, <2>5 DEF TransferInv
  <1>4. CASE Fail
    <2>1. Numbers' /\ Flags' /\ Control'
      BY <1>4 DEF Numbers, Flags, Control, Awaiting, ReadInv, Fail, At,
                  ContinueAt, device, reading, writing, request, core
    <2>2. CommandRight'
      BY <1>4 DEF CommandRight, Control, Fail, At, ContinueAt, device,
                  reading, writing, request, core
    <2>3. ReadInv'
      BY <1>4 DEF ReadInv, ReadSoFar, Control, Awaiting, Numbers, Flags, Fail,
                  At, ContinueAt, device, reading, writing, request, core
    <2>4. WriteInv'
      BY <1>4 DEF WriteInv, Written, Control, Awaiting, Fail, At, ContinueAt,
                  device, reading, writing, request, core
    <2>5. Unwritten'
      BY <1>4 DEF Unwritten, Control, Fail, At, ContinueAt, device, reading,
                  writing, request, core
    <2>. QED
      BY <2>1, <2>2, <2>3, <2>4, <2>5 DEF TransferInv
  <1>5. CASE GiveUp
    <2>1. Numbers' /\ Flags' /\ Control'
      BY <1>5 DEF Numbers, Flags, Control, Awaiting, ReadInv, GiveUp, At,
                  ContinueAt, device, reading, writing, request, core
    <2>2. CommandRight'
      BY <1>5 DEF CommandRight, Control, GiveUp, At, ContinueAt, device,
                  reading, writing, request, core
    <2>3. ReadInv'
      BY <1>5 DEF ReadInv, ReadSoFar, Control, Awaiting, Numbers, Flags,
                  GiveUp, At, ContinueAt, device, reading, writing, request,
                  core
    <2>4. WriteInv'
      BY <1>5 DEF WriteInv, Written, Control, Awaiting, GiveUp, At,
                  ContinueAt, device, reading, writing, request, core
    <2>5. Unwritten'
      BY <1>5 DEF Unwritten, Control, GiveUp, At, ContinueAt, device, reading,
                  writing, request, core
    <2>. QED
      BY <2>1, <2>2, <2>3, <2>4, <2>5 DEF TransferInv
  <1>6. CASE Ignore
    <2>1. Numbers' /\ Flags' /\ Control'
      BY <1>6 DEF Numbers, Flags, Control, Awaiting, ReadInv, Ignore,
                  IrqTaken, device, reading, writing, request, core
    <2>2. CommandRight'
      BY <1>6 DEF CommandRight, Control, Ignore, IrqTaken, device, reading,
                  writing, request, core
    <2>3. ReadInv'
      BY <1>6 DEF ReadInv, ReadSoFar, Control, Awaiting, Numbers, Flags,
                  Ignore, IrqTaken, device, reading, writing, request, core
    <2>4. WriteInv'
      BY <1>6 DEF WriteInv, Written, Control, Awaiting, Ignore, IrqTaken,
                  device, reading, writing, request, core
    <2>5. Unwritten'
      BY <1>6 DEF Unwritten, Control, Ignore, IrqTaken, device, reading,
                  writing, request, core
    <2>. QED
      BY <2>1, <2>2, <2>3, <2>4, <2>5 DEF TransferInv
  <1>7. CASE Clear
    <2>1. Numbers' /\ Flags' /\ Control'
      BY <1>7 DEF Numbers, Flags, Control, Awaiting, ReadInv, Clear, device,
                  reading, writing, request, core
    <2>2. CommandRight'
      BY <1>7 DEF CommandRight, Control, Clear, device, reading, writing,
                  request, core
    <2>3. ReadInv'
      BY <1>7 DEF ReadInv, ReadSoFar, Control, Awaiting, Numbers, Flags,
                  Clear, device, reading, writing, request, core
    <2>4. WriteInv'
      BY <1>7 DEF WriteInv, Written, Control, Awaiting, Clear, device,
                  reading, writing, request, core
    <2>5. Unwritten'
      BY <1>7 DEF Unwritten, Control, Clear, device, reading, writing,
                  request, core
    <2>. QED
      BY <2>1, <2>2, <2>3, <2>4, <2>5 DEF TransferInv
  <1>8. CASE Test
    <2>1. Numbers' /\ Flags' /\ Control'
      BY <1>8 DEF Numbers, Flags, Control, Awaiting, ReadInv, Test, device,
                  reading, writing, request, core
    <2>2. CommandRight'
      BY <1>8 DEF CommandRight, Control, Test, device, reading, writing,
                  request, core
    <2>3. ReadInv'
      BY <1>8 DEF ReadInv, ReadSoFar, Control, Awaiting, Numbers, Flags, Test,
                  device, reading, writing, request, core
    <2>4. WriteInv'
      BY <1>8 DEF WriteInv, Written, Control, Awaiting, Test, device, reading,
                  writing, request, core
    <2>5. Unwritten'
      BY <1>8 DEF Unwritten, Control, Test, device, reading, writing, request,
                  core
    <2>. QED
      BY <2>1, <2>2, <2>3, <2>4, <2>5 DEF TransferInv
  <1>9. CASE Cli
    <2>1. Numbers' /\ Flags' /\ Control'
      BY <1>9 DEF Numbers, Flags, Control, Awaiting, ReadInv, Cli, device,
                  reading, writing, request, core
    <2>2. CommandRight'
      BY <1>9 DEF CommandRight, Control, Cli, device, reading, writing,
                  request, core
    <2>3. ReadInv'
      BY <1>9 DEF ReadInv, ReadSoFar, Control, Awaiting, Numbers, Flags, Cli,
                  device, reading, writing, request, core
    <2>4. WriteInv'
      BY <1>9 DEF WriteInv, Written, Control, Awaiting, Cli, device, reading,
                  writing, request, core
    <2>5. Unwritten'
      BY <1>9 DEF Unwritten, Control, Cli, device, reading, writing, request,
                  core
    <2>. QED
      BY <2>1, <2>2, <2>3, <2>4, <2>5 DEF TransferInv
  <1>10. CASE Finish
    <2>1. Numbers' /\ Flags' /\ Control'
      BY <1>10 DEF Numbers, Flags, Control, Awaiting, ReadInv, Finish, device,
                   reading, writing, request, core
    <2>2. CommandRight'
      BY <1>10 DEF CommandRight, Control, Finish, device, reading, writing,
                   request, core
    <2>3. ReadInv'
      BY <1>10 DEF ReadInv, ReadSoFar, Control, Awaiting, Numbers, Flags,
                   Finish, device, reading, writing, request, core
    <2>4. WriteInv'
      BY <1>10 DEF WriteInv, Written, Control, Awaiting, Finish, device,
                   reading, writing, request, core
    <2>5. Unwritten'
      BY <1>10 DEF Unwritten, Control, Finish, device, reading, writing,
                   request, core
    <2>. QED
      BY <2>1, <2>2, <2>3, <2>4, <2>5 DEF TransferInv
  <1>11. CASE WriterWaits
    <2>1. Numbers' /\ Flags' /\ Control'
      BY <1>11 DEF Numbers, Flags, Control, Awaiting, ReadInv, WriterWaits,
                   device, reading, writing, request, core
    <2>2. CommandRight'
      BY <1>11 DEF CommandRight, Control, WriterWaits, device, reading,
                   writing, request, core
    <2>3. ReadInv'
      BY <1>11 DEF ReadInv, ReadSoFar, Control, Awaiting, Numbers, Flags,
                   WriterWaits, device, reading, writing, request, core
    <2>4. WriteInv'
      BY <1>11 DEF WriteInv, Written, Control, Awaiting, WriterWaits, device,
                   reading, writing, request, core
    <2>5. Unwritten'
      BY <1>11 DEF Unwritten, Control, WriterWaits, device, reading, writing,
                   request, core
    <2>. QED
      BY <2>1, <2>2, <2>3, <2>4, <2>5 DEF TransferInv
  <1>12. CASE WriterReturns
    <2>1. Numbers' /\ Flags' /\ Control'
      BY <1>12 DEF Numbers, Flags, Control, Awaiting, ReadInv, WriteInv,
                   WriterReturns, device, reading, writing, request, core
    <2>2. CommandRight'
      BY <1>12 DEF CommandRight, Control, WriterReturns, device, reading,
                   writing, request, core
    <2>3. ReadInv'
      BY <1>12 DEF ReadInv, ReadSoFar, Control, Awaiting, Numbers, Flags,
                   WriterReturns, device, reading, writing, request, core
    <2>4. WriteInv'
      BY <1>12 DEF WriteInv, Written, Control, Awaiting, WriterReturns,
                   device, reading, writing, request, core
    <2>5. Unwritten'
      BY <1>12 DEF Unwritten, Control, WriterReturns, device, reading,
                   writing, request, core
    <2>. QED
      BY <2>1, <2>2, <2>3, <2>4, <2>5
  <1>13. CASE Tick
    <2>1. Numbers' /\ Flags' /\ Control'
      BY <1>13 DEF Numbers, Flags, Control, Awaiting, ReadInv, Tick, device,
                   reading, writing, request, core
    <2>2. CommandRight'
      BY <1>13 DEF CommandRight, Control, Tick, device, reading, writing,
                   request, core
    <2>3. ReadInv'
      BY <1>13 DEF ReadInv, ReadSoFar, Control, Awaiting, Numbers, Flags,
                   Tick, device, reading, writing, request, core
    <2>4. WriteInv'
      BY <1>13 DEF WriteInv, Written, Control, Awaiting, Tick, device,
                   reading, writing, request, core
    <2>5. Unwritten'
      BY <1>13 DEF Unwritten, Control, Tick, device, reading, writing,
                   request, core
    <2>. QED
      BY <2>1, <2>2, <2>3, <2>4, <2>5 DEF TransferInv
  <1>14. CASE Accept
    <2>1. Numbers' /\ Flags' /\ Control'
      BY <1>14 DEF Numbers, Flags, Control, Awaiting, ReadInv, Accept, device,
                   reading, writing, request, core
    <2>2. CommandRight'
      BY <1>14 DEF CommandRight, Control, Accept, device, reading, writing,
                   request, core
    <2>3. ReadInv'
      BY <1>14 DEF ReadInv, ReadSoFar, Control, Awaiting, Numbers, Flags,
                   Accept, device, reading, writing, request, core
    <2>4. WriteInv'
      BY <1>14 DEF WriteInv, Written, Control, Awaiting, Accept, device,
                   reading, writing, request, core
    <2>5. Unwritten'
      BY <1>14 DEF Unwritten, Control, Accept, device, reading, writing,
                   request, core
    <2>. QED
      BY <2>1, <2>2, <2>3, <2>4, <2>5 DEF TransferInv
  <1>15. CASE Refuse
    <2>1. Numbers' /\ Flags' /\ Control'
      BY <1>15 DEF Numbers, Flags, Control, Awaiting, ReadInv, Refuse, device,
                   reading, writing, request, core
    <2>2. CommandRight'
      BY <1>15 DEF CommandRight, Control, Refuse, device, reading, writing,
                   request, core
    <2>3. ReadInv'
      BY <1>15 DEF ReadInv, ReadSoFar, Control, Awaiting, Numbers, Flags,
                   Refuse, device, reading, writing, request, core
    <2>4. WriteInv'
      BY <1>15 DEF WriteInv, Written, Control, Awaiting, Refuse, device,
                   reading, writing, request, core
    <2>5. Unwritten'
      BY <1>15 DEF Unwritten, Control, Refuse, device, reading, writing,
                   request, core
    <2>. QED
      BY <2>1, <2>2, <2>3, <2>4, <2>5 DEF TransferInv
  <1>16. CASE Program
    <2>1. Numbers' /\ Flags' /\ Control'
      BY <1>16 DEF Numbers, Flags, Control, Awaiting, ReadInv, WriteInv,
                   Program, At, ContinueAt, device, reading, writing, request,
                   core
    <2>2. CommandRight'
      BY <1>16 DEF CommandRight, Control, Program, At, ContinueAt, device,
                   reading, writing, request, core
    <2>3. ReadInv'
      BY <1>16 DEF ReadInv, ReadSoFar, Control, Awaiting, Numbers, Flags,
                   Program, At, ContinueAt, device, reading, writing, request,
                   core
    <2>4. WriteInv'
      BY <1>16 DEF WriteInv, Written, Control, Awaiting, Program, At,
                   ContinueAt, device, reading, writing, request, core
    <2>5. Unwritten'
      BY <1>16 DEF Unwritten, Control, Program, At, ContinueAt, device,
                   reading, writing, request, core
    <2>. QED
      BY <2>1, <2>2, <2>3, <2>4, <2>5
  <1>17. CASE ReadOn
    <2>0. /\ read /\ reqpc # "idle" /\ hpc = "none" /\ ~irq14' /\ dev = "idle"
          /\ reqpc' \in Awaiting /\ reqpc' # "idle" /\ reqpc' # "done" /\ ReadSoFar'
          /\ begun + target_read + Chunk <= DiskSize
          /\ current_read \in 1 .. Chunk /\ total_read + current_read <= target_read
          /\ current_address = begun + total_read
      BY <1>17, ReadMore DEF ReadOn, Awaiting
    <2>a. /\ total_read' = total_read + current_read /\ target_read' = target_read
          /\ total_read' < target_read /\ begun' = begun /\ hpc' = "program"
          /\ current_address' = current_address + current_read /\ fired' = fired
          /\ current_read' = MinOf(Chunk, target_read - total_read')
          /\ dev' = dev /\ read' = read /\ disk' = disk
          /\ reqpc' = IF reqpc = "halt" THEN "woken" ELSE reqpc
      BY <1>17 DEF ReadOn, HandleRead, IrqTaken
    <2>b. /\ total_read' \in Nat /\ current_address' \in Nat /\ total_read' # target_read
          /\ current_read' \in 1 .. Chunk /\ current_read' \in Nat
          /\ current_read' = MinOf(target_read - total_read', Chunk)
          /\ current_address' = begun + total_read'
      BY <2>0, <2>a, DiskAssumption DEF Numbers, MinOf
    <2>1. Numbers' /\ Flags' /\ Control'
      <3>1. Numbers'
        BY <1>17, <2>a, <2>b DEF Numbers, ReadOn, HandleRead, writing
      <3>2. Flags'
        BY <1>17 DEF Flags, ReadOn, HandleRead, IrqTaken, writing
      <3>3. Control'
        BY <2>0, <2>a DEF Control, Awaiting
      <3>. QED
        BY <3>1, <3>2, <3>3
    <2>2. CommandRight'
      BY <2>0, <2>a DEF CommandRight
    <2>3. ReadInv'
      <3>1. total_read < target_read
        BY <1>17, ReadMore DEF ReadOn
      <3>2. ~(fired' /\ reqpc' \in {"test", "halt", "woken"})
        BY <3>1, <2>0, <2>a DEF ReadInv, Numbers
      <3>. QED
        BY <3>2, <2>0, <2>a, <2>b DEF ReadInv
    <2>4. WriteInv'
      BY <2>0, <2>a DEF WriteInv
    <2>5. Unwritten'
      BY <1>17 DEF Unwritten, Control, ReadOn, HandleRead, IrqTaken, device,
                   reading, writing, request, core
    <2>. QED
      BY <2>1, <2>2, <2>3, <2>4, <2>5
  <1>18. CASE ReadLast
    <2>0. /\ read /\ reqpc # "idle" /\ hpc = "none" /\ ~irq14' /\ dev = "idle"
          /\ reqpc' \in Awaiting /\ reqpc' # "idle" /\ reqpc' # "done" /\ ReadSoFar'
          /\ begun + target_read + Chunk <= DiskSize
          /\ current_read \in 1 .. Chunk /\ total_read + current_read <= target_read
      BY <1>18, ReadMore DEF ReadLast, Awaiting
    <2>a. /\ total_read' = total_read + current_read /\ target_read' = target_read
          /\ total_read' >= target_read /\ begun' = begun /\ hpc' = hpc
          /\ current_address' = current_address /\ fired' = TRUE
          /\ current_read' = current_read
          /\ dev' = dev /\ read' = read /\ disk' = disk
      BY <1>18 DEF ReadLast, HandleRead, IrqTaken
    <2>b. total_read' = target_read /\ total_read' \in Nat
      BY <2>0, <2>a DEF Numbers
    <2>1. Numbers' /\ Flags' /\ Control'
      <3>1. Numbers'
        BY <1>18, <2>a, <2>b DEF Numbers, ReadLast, HandleRead, writing
      <3>2. Flags'
        BY <1>18 DEF Flags, ReadLast, HandleRead, IrqTaken, writing
      <3>3. Control'
        BY <2>0, <2>a DEF Control, Awaiting
      <3>. QED
        BY <3>1, <3>2, <3>3
    <2>2. CommandRight'
      BY <2>0, <2>a DEF CommandRight
    <2>3. ReadInv'
      <3>1. total_read' <= target_read' /\ ~(total_read' < target_read')
        BY <2>a, <2>b DEF Numbers
      <3>. QED
        BY <3>1, <2>0, <2>a, <2>b DEF ReadInv
    <2>4. WriteInv'
      BY <2>0, <2>a DEF WriteInv
    <2>5. Unwritten'
      BY <1>18 DEF Unwritten, Control, ReadLast, HandleRead, IrqTaken, device,
                   reading, writing, request, core
    <2>. QED
      BY <2>1, <2>2, <2>3, <2>4, <2>5
  <1>19. CASE WriteOn
    <2>0. /\ ~read /\ ~write_done /\ hpc = "none" /\ dev = "idle" /\ ~irq14'
          /\ reqpc = "writing" /\ reqpc' = "writing" /\ total_write < target_write
          /\ irq14 /\ bm
      BY <1>19 DEF WriteOn, IrqTaken, Control, FlushInv
    <2>a. /\ total_write' = total_write + current_write /\ target_write' = target_write
          /\ begun' = begun /\ hpc' = "program" /\ dev' = dev /\ read' = read
          /\ current_address' = current_address + current_write /\ disk' = disk
          /\ current_write' = IF target_write - total_write' = 0 THEN Chunk
                              ELSE MinOf(Chunk, target_write - total_write')
          /\ memory' = Copied(total_write', current_write', target_write)
          /\ write_done' = write_done
      BY <1>19 DEF WriteOn
    <2>b. /\ current_address = begun + total_write
          /\ begun + target_write + Chunk <= DiskSize
          /\ Written(total_write + current_write)
          /\ current_write = IF total_write = target_write THEN Chunk
                             ELSE MinOf(target_write - total_write, Chunk)
      BY <2>0 DEF WriteInv
    <2>c. current_write \in 1 .. Chunk /\ total_write + current_write <= target_write
      BY <2>0, <2>b, DiskAssumption DEF MinOf, Numbers
    <2>d. /\ total_write' \in Nat /\ current_address' \in Nat /\ current_write' \in Nat
          /\ total_write' <= target_write'
          /\ current_address' = begun' + total_write'
          /\ current_write' = IF total_write' = target_write' THEN Chunk
                              ELSE MinOf(target_write' - total_write', Chunk)
      BY <2>a, <2>b, <2>c, DiskAssumption DEF MinOf, Numbers
    <2>1. Numbers' /\ Flags' /\ Control'
      <3>1. Numbers'
        BY <1>19, <2>a, <2>d DEF Numbers, WriteOn, reading
      <3>2. Flags'
        BY <1>19 DEF Flags, WriteOn, IrqTaken
      <3>3. Control'
        BY <2>0, <2>a DEF Control, Awaiting
      <3>. QED
        BY <3>1, <3>2, <3>3
    <2>2. CommandRight'
      BY <2>0, <2>a DEF CommandRight
    <2>3. ReadInv'
      BY <2>0, <2>a DEF ReadInv
    <2>4. WriteInv'
      <3>1. Written(total_write)'
        BY <2>a, <2>b DEF Written
      <3>2. (memory = Copied(total_write, current_write, target_write))'
        BY <2>a DEF Copied
      <3>. QED
        BY <3>1, <3>2, <2>0, <2>a, <2>b, <2>d DEF WriteInv
    <2>5. Unwritten'
      BY <2>0, <2>a DEF Unwritten
    <2>. QED
      BY <2>1, <2>2, <2>3, <2>4, <2>5
  <1>20. CASE WriteLast
    <2>1. Numbers' /\ Flags' /\ Control'
      BY <1>20 DEF Numbers, Flags, Control, Awaiting, ReadInv, WriteInv,
                   WriteLast, IrqTaken, FlushInv, device, reading, writing,
                   request, core
    <2>2. CommandRight'
      BY <1>20 DEF CommandRight, Control, WriteLast, IrqTaken, device,
                   reading, writing, request, core
    <2>3. ReadInv'
      BY <1>20 DEF ReadInv, ReadSoFar, Control, Awaiting, Numbers, Flags,
                   WriteLast, IrqTaken, device, reading, writing, request,
                   core
    <2>4. WriteInv'
      <3>1. /\ ~read /\ ~write_done /\ hpc = "none" /\ dev = "idle" /\ ~irq14'
            /\ reqpc = "writing" /\ reqpc' = "writing" /\ irq14 /\ bm
        BY <1>20 DEF WriteLast, IrqTaken, Control, FlushInv
      <3>2. /\ total_write = target_write /\ Written(total_write)
            /\ begun + target_write + Chunk <= DiskSize
        BY <3>1, <1>20 DEF WriteInv, WriteLast, Numbers
      <3>3. /\ total_write' = total_write /\ target_write' = target_write
            /\ begun' = begun /\ disk' = disk /\ hpc' = hpc /\ dev' = dev
            /\ read' = read /\ write_done'
        BY <1>20 DEF WriteLast, request
      <3>4. Written(total_write)'
        BY <3>2, <3>3 DEF Written
      <3>. QED
        BY <3>1, <3>2, <3>3, <3>4 DEF WriteInv, Numbers
    <2>5. Unwritten'
      BY <1>20 DEF Unwritten, Control, WriteLast, IrqTaken, device, reading,
                   writing, request, core
    <2>. QED
      BY <2>1, <2>2, <2>3, <2>4, <2>5
  <1>21. CASE Move
    <2>0. /\ hpc = "none" /\ reqpc \in Awaiting \cup {"writing"} /\ reqpc # "idle"
          /\ (read => total_read < target_read) /\ (~read => ~write_done)
      BY <1>21, CommandCovered DEF Move, Control, Awaiting
    <2>a. /\ reading' = reading /\ writing' = writing /\ request' = request
          /\ core' = core /\ buffer' = buffer /\ dev' = "idle" /\ irq14' /\ bm'
      BY <1>21 DEF Move
    <2>1. Numbers' /\ Flags' /\ Control'
      BY <1>21 DEF Numbers, Flags, Control, Awaiting, ReadInv, WriteInv, Move,
                   device, reading, writing, request, core
    <2>2. CommandRight'
      BY <2>a DEF CommandRight
    <2>3. ReadInv'
      <3> SUFFICES ASSUME read PROVE ReadInv'
        BY <2>a DEF ReadInv, request
      <3>1. /\ current_read \in 1 .. Chunk /\ total_read < target_read
            /\ cmd.to = "read" /\ cmd.at = current_address
            /\ \A k \in 0 .. current_read - 1 : Covered(k)
        BY <1>21, CommandCovered DEF Move
      <3>2. disk' = disk /\ memory' = [k \in 0 .. Chunk - 1 |->
                            IF Covered(k) THEN disk[cmd.at + k] ELSE memory[k]]
        BY <1>21, <3>1 DEF Move
      <3>3. \A k \in 0 .. current_read - 1 : memory'[k] = disk'[current_address + k]
        <4> SUFFICES ASSUME NEW k \in 0 .. current_read - 1
                     PROVE  memory'[k] = disk'[current_address + k]
          OBVIOUS
        <4>1. k \in 0 .. Chunk - 1 /\ Covered(k)
          BY <3>1, DiskAssumption
        <4>. QED
          BY <4>1, <3>1, <3>2
      <3>4. ReadSoFar'
        BY <2>0, <2>a, <3>2 DEF ReadInv, ReadSoFar, reading, request
      <3>. QED
        BY <2>0, <2>a, <3>1, <3>3, <3>4
           DEF ReadInv, Awaiting, Numbers, reading, request, core
    <2>4. WriteInv'
      <3> SUFFICES ASSUME ~read PROVE WriteInv'
        BY <2>a DEF WriteInv, request
      <3>1. Written(total_write)' /\ Written(total_write + current_write)'
        BY <1>21, ChunkWritten
      <3>2. memory' = memory
        BY <1>21, CommandCovered DEF Move
      <3>3. ~write_done
        BY <2>0
      <3>. QED
        BY <2>0, <2>a, <3>1, <3>2, <3>3
           DEF WriteInv, Copied, writing, request, core
    <2>5. Unwritten'
      <3> SUFFICES ASSUME read PROVE Unwritten'
        BY <2>0, <2>a DEF Unwritten, request, core
      <3>1. disk' = disk
        BY <1>21, CommandCovered DEF Move
      <3>. QED
        BY <3>1, <2>a DEF Unwritten, request, writing, core
    <2>. QED
      BY <2>1, <2>2, <2>3, <2>4, <2>5
  <1>23. CASE Flushed
    BY <1>23 DEF Flushed, device, reading, writing, request, core, Numbers,
                 Flags, Control, CommandRight, ReadInv, ReadSoFar, WriteInv,
                 Written, Unwritten
  <1>22. CASE UNCHANGED diskVars
    BY <1>22 DEF diskVars, device, reading, writing, request, core, Numbers,
                 Flags, Control, CommandRight, ReadInv, ReadSoFar, WriteInv,
                 Written, Unwritten
  <1>. QED
    BY <1>1, <1>2, <1>3, <1>4, <1>5, <1>6, <1>7, <1>8, <1>9, <1>10, <1>11,
       <1>12, <1>13, <1>14, <1>15, <1>16, <1>17, <1>18, <1>19, <1>20, <1>21,
       <1>22, <1>23
       DEF DiskNext, Core0, Handler, Drive

\* So is what is known of a flush.
LEMMA FlushStep ==
  ASSUME TransferInv, FlushInv, [DiskNext]_diskVars, ~stale, ~stale'
  PROVE  FlushInv'
  <1> USE DEF FlushInv
  <1>1. Control /\ WriteInv
    BY DEF TransferInv
  <1>2. ASSUME NEW r \in Requests, BeginRead(r[1], r[2]) PROVE FlushInv'
    BY <1>2 DEF BeginRead, device
  <1>3. ASSUME NEW r \in Requests, BeginWrite(r[1], r[2]) PROVE FlushInv'
    BY <1>3 DEF BeginWrite, device
  <1>4. CASE Program
    BY <1>1, <1>4 DEF Program, At, ContinueAt, Control, WriteInv, writing,
                      request
  <1>5. CASE Start \/ Fail \/ GiveUp
    BY <1>1, <1>5 DEF Start, Fail, GiveUp, At, ContinueAt, Control, WriteInv,
                      device, writing, request
  <1>6. CASE Ignore
    BY <1>6 DEF Ignore, IrqTaken, FlushTaken, writing, request
  <1>7. CASE ReadOn \/ ReadLast
    BY <1>7 DEF ReadOn, ReadLast, HandleRead, IrqTaken, FlushTaken, writing
  <1>8. CASE WriteOn
    BY <1>8 DEF WriteOn, FlushTaken
  <1>9. CASE WriteLast
    BY <1>1, <1>9 DEF WriteLast, IrqTaken, Control, request
  <1>10. CASE Clear \/ Test \/ Cli \/ Finish \/ Tick
    BY <1>10 DEF Clear, Test, Cli, Finish, Tick, device, writing, request
  <1>11. CASE WriterWaits \/ WriterReturns
    BY <1>11 DEF WriterWaits, WriterReturns, device, writing, request
  <1>12. CASE Accept \/ Refuse \/ Flushed \/ Move
    BY <1>12 DEF Accept, Refuse, Flushed, Move, FlushTaken, writing, request,
                 core
  <1>13. CASE UNCHANGED diskVars
    BY <1>13 DEF diskVars, device, writing, request, core
  <1>. QED
    BY <1>2, <1>3, <1>4, <1>5, <1>6, <1>7, <1>8, <1>9, <1>10, <1>11, <1>12,
       <1>13
       DEF DiskNext, Core0, Handler, Drive

\* Only the beginning of a request changes what was asked for.
LEMMA RequestKept ==
  ASSUME [DiskNext]_diskVars,
         ~(\E r \in Requests : BeginRead(r[1], r[2]) \/ BeginWrite(r[1], r[2]))
  PROVE  stale' = stale /\ read' = read /\ (write_done => write_done')
  <1> DEFINE Kept == /\ stale' = stale /\ read' = read
                     /\ write_done' = write_done \/ write_done' = TRUE
  <1>1. Program \/ Start \/ Fail \/ GiveUp => Kept
    BY DEF Program, Start, Fail, GiveUp, writing, request
  <1>2. Ignore \/ ReadOn \/ ReadLast => Kept
    BY DEF Ignore, ReadOn, ReadLast, HandleRead, writing, request
  <1>3. WriteOn \/ WriteLast => Kept
    BY DEF WriteOn, WriteLast, request
  <1>4. Clear \/ Test \/ Cli \/ Finish \/ Tick => Kept
    BY DEF Clear, Test, Cli, Finish, Tick, writing, request
  <1>5. WriterWaits \/ WriterReturns => Kept
    BY DEF WriterWaits, WriterReturns, writing, request
  <1>6. Accept \/ Refuse \/ Move \/ Flushed => Kept
    BY DEF Accept, Refuse, Flushed, Move, writing, request
  <1>7. UNCHANGED diskVars => Kept
    BY DEF diskVars, writing, request
  <1>8. Kept
    BY <1>1, <1>2, <1>3, <1>4, <1>5, <1>6, <1>7
       DEF DiskNext, Core0, Handler, Drive
  <1>. QED
    BY <1>8

\* A read begun too early is the last anybody hears of writes, ...
LEMMA StaleStep ==
  ASSUME DiskInv, [DiskNext]_diskVars, stale'
  PROVE  read' /\ write_done'
  <1>1. ASSUME NEW r \in Requests, BeginRead(r[1], r[2])
        PROVE  read' /\ write_done'
    BY <1>1 DEF DiskInv, BeginRead, FlushInv, writing
  <1>2. ASSUME NEW r \in Requests, BeginWrite(r[1], r[2])
        PROVE  read' /\ write_done'
    BY <1>2 DEF DiskInv, BeginWrite
  <1>3. CASE ~(\E r \in Requests :
                 BeginRead(r[1], r[2]) \/ BeginWrite(r[1], r[2]))
    <2>1. stale' = stale /\ read' = read /\ (write_done => write_done')
      BY <1>3, RequestKept, Zenon
    <2>2. stale
      BY <2>1
    <2>3. read /\ write_done
      BY <2>2 DEF DiskInv
    <2>. QED
      BY <2>1, <2>3
  <1>. QED
    BY <1>1, <1>2, <1>3

\* ... and its mark is never taken back.
LEMMA StaleStays ==
  ASSUME [DiskNext]_diskVars, stale
  PROVE  stale'
  <1>1. ASSUME NEW r \in Requests,
               BeginRead(r[1], r[2]) \/ BeginWrite(r[1], r[2])
        PROVE  stale'
    BY <1>1 DEF BeginRead, BeginWrite
  <1>2. CASE ~(\E r \in Requests :
                 BeginRead(r[1], r[2]) \/ BeginWrite(r[1], r[2]))
    BY <1>2, RequestKept, Zenon
  <1>. QED
    BY <1>1, <1>2

(* Every reachable state of the transfers satisfies the invariant: the     *)
(* chunk in progress, the command the drive was given and what has been    *)
(* moved agree, whatever the number of chunks, errors and retries, until a *)
(* read is begun while the drive still flushes its cache.                  *)
THEOREM DiskInvariant == DiskSpec => []DiskInv
  <1>1. DiskInit => DiskInv
    BY TransferInit DEF DiskInv, FlushInv, DiskInit
  <1>2. DiskInv /\ [DiskNext]_diskVars => DiskInv'
    <2> SUFFICES ASSUME DiskInv, [DiskNext]_diskVars PROVE DiskInv'
      OBVIOUS
    <2>1. CASE stale'
      BY <2>1, StaleStep DEF DiskInv
    <2>2. CASE ~stale'
      <3>1. ~stale
        BY <2>2, StaleStays
      <3>2. TransferInv /\ FlushInv
        BY <3>1 DEF DiskInv
      <3>3. TransferInv' /\ FlushInv'
        BY <2>2, <3>1, <3>2, TransferStep, FlushStep
      <3>. QED
        BY <2>2, <3>3 DEF DiskInv
    <2>. QED
      BY <2>1, <2>2
  <1>. QED
    BY <1>1, <1>2, PTL DEF DiskSpec

(* When the wait of read_nBlocks is over, by the IPI or by the second test *)
(* of its loop, the buffer has exactly the sectors asked for, for every    *)
(* disk, request, chunk, count register and region length.                 *)
THEOREM ReadIsServed == DiskSpec => []ReadServed
  <1>1. DiskInv => ReadServed
    <2> SUFFICES ASSUME DiskInv, reqpc = "done",
                        ~stale, NEW k \in 0 .. target_read - 1
                 PROVE  buffer[k] = disk[begun + k]
      BY DEF ReadServed
    <2>1. read /\ total_read = target_read /\ ReadSoFar
      BY DEF DiskInv, TransferInv, Control, ReadInv
    <2>. QED
      BY <2>1 DEF ReadSoFar
  <1>. QED
    BY <1>1, DiskInvariant, PTL

(* When write_done is set, the sectors asked for are on the disk and those *)
(* in front of them are as they were, although the handler goes on for a   *)
(* chunk more than was asked for.                                          *)
THEOREM WriteIsServed == DiskSpec => []WriteServed
  <1>1. DiskInv => WriteServed
    <2> SUFFICES ASSUME DiskInv, write_done, ~read, NEW s \in Sectors
                 PROVE  /\ s \in begun .. begun + target_write - 1 =>
                             disk[s] = New(s - begun)
                        /\ s < begun => disk[s] = Old(s)
      BY DEF WriteServed
    <2>1. total_write = target_write /\ Written(total_write)
      BY DEF DiskInv, TransferInv, WriteInv
    <2>2. begun \in Nat /\ target_write \in Nat
      BY DEF DiskInv, TransferInv, Numbers
    <2>3. s \in begun .. begun + target_write - 1 => s < begun + target_write
      BY <2>2
    <2>. QED
      BY <2>1, <2>3 DEF Written
  <1>. QED
    BY <1>1, DiskInvariant, PTL

(* What the chunk too many can do is bounded: no sector that lies a chunk  *)
(* or more behind a write is changed.                                      *)
THEOREM DamageBounded ==
  DiskSpec => [](write_done /\ ~read =>
                   \A s \in Sectors :
                     s >= begun + target_write + Chunk => disk[s] = Old(s))
  <1>1. DiskInv => (write_done /\ ~read =>
                      \A s \in Sectors :
                        s >= begun + target_write + Chunk => disk[s] = Old(s))
    BY DEF DiskInv, TransferInv, WriteInv, Written
  <1>. QED
    BY <1>1, DiskInvariant, PTL

(* Every command that readDMADiskSectors and writeDMADiskSectors give, the *)
(* retries included, asks for sectors of the disk, and the PRD table has a *)
(* place for each of them, until a read is begun before a flush is over.   *)
THEOREM CommandsInRange ==
  DiskSpec => [](dev # "idle" /\ ~stale =>
                   /\ cmd.count \in 1 .. Chunk /\ cmd.at + cmd.count <= DiskSize
                   /\ \A k \in 0 .. cmd.count - 1 : Covered(k))
  <1>1. ASSUME DiskInv, ~stale, dev # "idle"
        PROVE  /\ cmd.count \in 1 .. Chunk /\ cmd.at + cmd.count <= DiskSize
               /\ \A k \in 0 .. cmd.count - 1 : Covered(k)
    <2>1. /\ reqpc # "idle" /\ cmd.at = current_address
          /\ (read => total_read < target_read) /\ (~read => ~write_done)
          /\ cmd.count = (IF read THEN current_read ELSE current_write)
          /\ cmd.count \in 1 .. Chunk
          /\ \A k \in 0 .. cmd.count - 1 : Covered(k)
      BY <1>1, CommandCovered DEF DiskInv
    <2>2. Numbers /\ ReadInv /\ WriteInv
      BY <1>1 DEF DiskInv, TransferInv
    <2>3. CASE read
      <3>1. /\ current_address = begun + total_read /\ total_read <= target_read
            /\ begun + target_read + Chunk <= DiskSize
        BY <2>1, <2>2, <2>3 DEF ReadInv
      <3>2. cmd.at + cmd.count <= DiskSize
        BY <2>1, <2>2, <3>1, DiskAssumption DEF Numbers
      <3>. QED
        BY <2>1, <3>2
    <2>4. CASE ~read
      <3>1. /\ current_address = begun + total_write /\ total_write <= target_write
            /\ begun + target_write + Chunk <= DiskSize
        BY <2>1, <2>2, <2>4 DEF WriteInv
      <3>2. cmd.at + cmd.count <= DiskSize
        BY <2>1, <2>2, <3>1, DiskAssumption DEF Numbers
      <3>. QED
        BY <2>1, <3>2
    <2>. QED
      BY <2>3, <2>4
  <1>. QED
    BY <1>1, DiskInvariant, PTL

--------------------------------------------------------------------------------
(***************************************************************************)
(* The start of the devices.                                               *)
(***************************************************************************)
Phases  == {"collect_hw", "detect", "disks", "scan", "hung", "done"}
Devs    == pciService.pciDevices
Started == [slot : 1..Slots, mac : {"eeprom", "set", "none"}]

\* The list of the PCI service has every function that answers, each once.
Lists(devs) ==
  /\ devs \in Seq(1..Slots)
  /\ \A e, f \in 1..Len(devs) : devs[e] = devs[f] => e = f
  /\ \A s \in 1..Slots : (bus[s] # Absent) <=> (\E e \in 1..Len(devs) : devs[e] = s)

\* e1000Scan has come past entry e.
Past(e) ==
  \E i \in 1..Len(e1000_models) :
    /\ e \in Matching(e1000_models[i])
    /\ i < looked[1] \/ (i = looked[1] /\ Earlier(e1000_models[i], e) < looked[2])

\* The cards started are those it has come past, each once, and they may use the bus.
CardsInv ==
  /\ \A c \in 1..Len(cards) :
       /\ "master" \in bus[cards[c].slot].config["command"].low
       /\ \E e \in 1..Len(Devs) : Past(e) /\ cards[c].slot = Devs[e]
  /\ \A e \in 1..Len(Devs) : Past(e) => \E c \in 1..Len(cards) : cards[c].slot = Devs[e]
  /\ \A c, b \in 1..Len(cards) : cards[c].slot = cards[b].slot => c = b

\* A port of bus mastering is that of a disk controller; the disks are the ATA drives.
PortInv(p) == p # NULL => p \in 1..Slots /\ bus[p].class = "ide"

DisksInv ==
  \A i \in 1..4 : ataManager.ataDisks[i] =
    IF drives[Places[i]] = "ata" THEN <<initATADisk(Places[i])>> ELSE <<>>

DevicesInv ==
  /\ phase \in Phases /\ bus \in [1..Slots -> PciFunction \cup {Absent}]
  /\ cards \in Seq(Started) /\ looked \in (Nat \ {0}) \X Nat
  /\ phase = "collect_hw" => pciService = [total_pci_devices |-> 0, pciDevices |-> <<>>]
  /\ phase # "collect_hw" => Lists(Devs)
  /\ phase \in {"collect_hw", "detect", "disks"} => cards = <<>> /\ looked = <<1, 0>>
  /\ phase \in {"scan", "done"} => CardsInv
  /\ phase \in {"scan", "hung", "done"} => DisksInv
  /\ phase = "done" => looked[1] > Len(e1000_models)
  /\ PortInv(ataManager.dma_port_address)
  /\ ataManager = [dma_port_address |-> ataManager.dma_port_address,
                   dma_mmio_address |-> ataManager.dma_mmio_address,
                   ataDisks |-> ataManager.ataDisks]

\* A set of numbers that is not empty has a least one.
LEMMA LeastOf ==
  ASSUME NEW S \in SUBSET Nat, S # {}
  PROVE  \E k \in S : \A l \in S : k <= l
  <1> DEFINE R == OpToRel(<, Nat)
  <1>1. IsWellFoundedOn(R, Nat)
    BY NatLessThanWellFounded, Zenon
  <1>2. \A k, l \in Nat : <<k, l>> \in R <=> k < l
    BY DEF OpToRel
  <1> HIDE DEF R
  <1>3. PICK k \in S : \A l \in S : ~(<<l, k>> \in R)
    BY <1>1, WFMin
  <1>4. ASSUME NEW l \in S PROVE k <= l
    <2>1. k \in Nat /\ l \in Nat
      OBVIOUS
    <2>2. ~(l < k)
      BY <1>2, <1>3, <2>1, Zenon
    <2> QED
      BY <2>1, <2>2
  <1> QED
    BY <1>4

\* A turn of ScanBusesForAllocation, and the lists after each of the first m addresses.
Entry(list, s, total) ==
  IF Len(list) < total /\ bus[s] # Absent THEN Append(list, s) ELSE list

ListRun(f, total, m) ==
  f = [n \in 0..m |-> IF n = 0 THEN <<>> ELSE Entry(f[n - 1], n, total)]

\* Its recursion is well defined.
LEMMA ListDefined ==
  ASSUME NEW total
  PROVE  \E f : ListRun(f, total, Slots) /\ ScanBusesForAllocation(total) = f[Slots]
  <1>1. Slots \in Nat
    BY DevicesAssumption
  <1> DEFINE D(m, f) == ListRun(f, total, m)
             Bad == {m \in 0..Slots : ~ \E f : D(m, f)}
  <1>2. ASSUME Bad = {} PROVE \E f : D(Slots, f)
    BY <1>1, <1>2
  <1>3. ASSUME Bad # {} PROVE FALSE
    <2>4. PICK m \in Bad : \A l \in Bad : m <= l
      <3>1. Bad \in SUBSET Nat
        BY <1>1
      <3>. QED
        BY <1>3, <3>1, LeastOf
    <2>5. m \in 0..Slots /\ ~ \E f : D(m, f)
      BY <1>1, <2>4
    <2>6. CASE m = 0
      <3> DEFINE f == [n \in 0..0 |-> <<>>]
      <3>1. D(0, f)
        BY DEF ListRun
      <3>. QED
        BY <3>1, <2>5, <2>6
    <2>7. CASE m > 0
      <3>1. m - 1 \in 0..Slots /\ ~(m <= m - 1)
        BY <1>1, <2>5, <2>7
      <3>2. PICK f : D(m - 1, f)
        BY <3>1, <2>4
      <3> DEFINE h == [n \in 0..m |-> IF n = m THEN Entry(f[m - 1], m, total) ELSE f[n]]
      <3>3. ASSUME NEW n \in 0..m
            PROVE  h[n] = IF n = 0 THEN <<>> ELSE Entry(h[n - 1], n, total)
        <4>1. n \in Nat /\ m \in Nat
          BY <1>1, <2>5
        <4>2. CASE n = m
          BY <4>1, <4>2, <2>7
        <4>3. CASE n # m
          <5>1. n \in 0..(m - 1) /\ (n # 0 => n - 1 \in 0..m /\ n - 1 # m)
            BY <4>1, <4>3
          <5>2. f[n] = IF n = 0 THEN <<>> ELSE Entry(f[n - 1], n, total)
            BY <3>2, <5>1 DEF ListRun
          <5>3. h[n] = f[n] /\ (n # 0 => h[n - 1] = f[n - 1])
            BY <4>3, <5>1
          <5>. QED
            BY <5>2, <5>3
        <4>. QED
          BY <4>2, <4>3
      <3>4. D(m, h)
        BY <3>3 DEF ListRun
      <3>. QED
        BY <3>4, <2>5
    <2>. QED
      BY <1>1, <2>5, <2>6, <2>7
  <1>4. \E f : ListRun(f, total, Slots)
    BY <1>2, <1>3
  <1>5. ScanBusesForAllocation(total) = (CHOOSE f : ListRun(f, total, Slots))[Slots]
    BY DEF ScanBusesForAllocation, ListRun, Entry
  <1>. QED
    BY <1>4, <1>5

\* The addresses up to n where a function answers.
Answering(n) == {u \in 1..n : bus[u] # Absent}

\* A list of them, each once.
ListsUpTo(list, n) ==
  /\ list \in Seq(1..Slots) /\ Len(list) = Cardinality(Answering(n))
  /\ \A e, d \in 1..Len(list) : list[e] = list[d] => e = d
  /\ \A s \in 1..Slots : (s \in Answering(n)) <=> (\E e \in 1..Len(list) : list[e] = s)

\* They are finitely many.
LEMMA AnsweringFinite ==
  ASSUME NEW n \in Nat
  PROVE  IsFiniteSet(Answering(n)) /\ Cardinality(Answering(n)) \in Nat
  <1>1. IsFiniteSet(1..n)
    BY FS_Interval
  <1>2. Answering(n) \subseteq 1..n
    BY DEF Answering
  <1>. QED
    BY <1>1, <1>2, FS_Subset, FS_CardinalityType

\* One more address.
LEMMA ListedNext ==
  ASSUME NEW n \in Nat, n + 1 <= Slots, NEW list, ListsUpTo(list, n)
  PROVE  ListsUpTo(Entry(list, n + 1, Cardinality(Answering(Slots))), n + 1)
  <1>0. Slots \in Nat /\ n + 1 \in 1..Slots /\ n + 1 \in Nat
    BY DevicesAssumption
  <1>1. PICK m : m = n + 1
    OBVIOUS
  <1>2. CASE bus[m] = Absent
    <2>1. Answering(m) = Answering(n)
      BY <1>0, <1>1, <1>2 DEF Answering
    <2>2. Entry(list, m, Cardinality(Answering(Slots))) = list
      BY <1>2 DEF Entry
    <2>. QED
      BY <1>1, <2>1, <2>2 DEF ListsUpTo
  <1>3. CASE bus[m] # Absent
    <2>1. Answering(m) = Answering(n) \cup {m} /\ m \notin Answering(n)
      BY <1>0, <1>1, <1>3 DEF Answering
    <2>2. PICK k \in Nat : k = Cardinality(Answering(n))
      BY AnsweringFinite
    <2>3. Cardinality(Answering(m)) = k + 1
      BY <2>1, <2>2, AnsweringFinite, FS_AddElement
    <2>4. PICK total \in Nat : total = Cardinality(Answering(Slots))
      BY <1>0, AnsweringFinite
    <2>5. k + 1 <= total
      <3>1. Answering(m) \subseteq Answering(Slots)
        BY <1>0, <1>1 DEF Answering
      <3>. QED
        BY <3>1, <2>3, <2>4, <1>0, AnsweringFinite, FS_Subset
    <2>6. list \in Seq(1..Slots) /\ Len(list) = k
      BY <2>2 DEF ListsUpTo
    <2>7. Entry(list, m, total) = Append(list, m)
      BY <2>2, <2>4, <2>5, <2>6, <1>3 DEF Entry
    <2>8. PICK more : more = Append(list, m)
      OBVIOUS
    <2>9. /\ more \in Seq(1..Slots) /\ Len(more) = k + 1 /\ more[k + 1] = m
          /\ \A e \in 1..k : more[e] = list[e]
      BY <2>2, <2>6, <2>8, <1>0, <1>1
    <2>10. \A e \in 1..k : list[e] # m
      <3>1. \A s \in 1..Slots : (s \in Answering(n)) <=> (\E e \in 1..Len(list) : list[e] = s)
        BY DEF ListsUpTo
      <3>. QED
        BY <3>1, <2>1, <2>6, <1>0, <1>1
    <2>11. \A e, d \in 1..(k + 1) : more[e] = more[d] => e = d
      <3>1. \A e, d \in 1..k : list[e] = list[d] => e = d
        BY <2>6 DEF ListsUpTo
      <3>2. \A e \in 1..(k + 1) : e \in 1..k \/ e = k + 1
        BY <2>2
      <3>. QED
        BY <3>1, <3>2, <2>9, <2>10
    <2>12. ASSUME NEW s \in 1..Slots
           PROVE  (s \in Answering(m)) <=> (\E e \in 1..(k + 1) : more[e] = s)
      <3>1. (s \in Answering(n)) <=> (\E e \in 1..k : list[e] = s)
        BY <2>6 DEF ListsUpTo
      <3>2. \A e \in 1..(k + 1) : e \in 1..k \/ e = k + 1
        BY <2>2
      <3>3. \A e \in 1..k : e \in 1..(k + 1)
        BY <2>2
      <3>4. k + 1 \in 1..(k + 1)
        BY <2>2
      <3>5. (s \in Answering(m)) <=> (s \in Answering(n) \/ s = m)
        BY <2>1
      <3>. QED
        BY <3>1, <3>2, <3>3, <3>4, <3>5, <2>9
    <2>13. ListsUpTo(more, m)
      BY <2>3, <2>9, <2>11, <2>12 DEF ListsUpTo
    <2>. QED
      BY <2>4, <2>7, <2>8, <2>13, <1>1
  <1>. QED
    BY <1>2, <1>3

\* The list that is made with the count ScanBusesForCount found.
LEMMA Allocated ==
  ListsUpTo(ScanBusesForAllocation(Counted), Slots)
  <1>0. Slots \in Nat
    BY DevicesAssumption
  <1>1. PICK total : total = Cardinality(Answering(Slots)) /\ total = Counted
    BY DEF Answering, Counted
  <1>2. PICK f : ListRun(f, total, Slots) /\ ScanBusesForAllocation(total) = f[Slots]
    BY ListDefined
  <1> DEFINE Bad == {n \in 0..Slots : ~ListsUpTo(f[n], n)}
  <1>3. ASSUME Bad # {} PROVE FALSE
    <2>1. PICK n \in Bad : \A l \in Bad : n <= l
      <3>1. Bad \in SUBSET Nat
        BY <1>0
      <3>. QED
        BY <1>3, <3>1, LeastOf
    <2>2. n \in 0..Slots /\ n \in Nat /\ ~ListsUpTo(f[n], n)
      BY <1>0, <2>1
    <2>3. CASE n = 0
      <3>1. f[0] = <<>>
        BY <1>0, <1>2 DEF ListRun
      <3>2. Answering(0) = {}
        BY DEF Answering
      <3>3. Cardinality(Answering(0)) = 0
        BY <3>2, FS_EmptySet
      <3>4. PICK g : g = <<>>
        OBVIOUS
      <3>5. g \in Seq(1..Slots) /\ Len(g) = 0
        BY <3>4
      <3>7. \A e \in 1..Len(g) : FALSE
        BY <3>5
      <3>6. ListsUpTo(g, 0)
        BY <3>2, <3>3, <3>5, <3>7 DEF ListsUpTo
      <3>. QED
        BY <2>2, <2>3, <3>1, <3>4, <3>6
    <2>4. CASE n > 0
      <3>1. PICK r \in Nat : n = r + 1
        <4>1. n - 1 \in Nat /\ n = (n - 1) + 1
          BY <2>2, <2>4
        <4>. QED
          BY <4>1
      <3>2. r \in 0..Slots /\ ~(n <= r) /\ r + 1 <= Slots /\ n # 0 /\ n - 1 = r
        BY <1>0, <2>2, <3>1
      <3>3. ListsUpTo(f[r], r)
        BY <2>1, <3>2
      <3>4. f[n] = Entry(f[r], n, total)
        BY <1>2, <2>2, <3>2 DEF ListRun
      <3>5. ListsUpTo(Entry(f[r], r + 1, total), r + 1)
        BY <3>2, <3>3, <1>1, ListedNext
      <3>. QED
        BY <2>2, <3>1, <3>4, <3>5
    <2>. QED
      BY <2>2, <2>3, <2>4
  <1>4. ListsUpTo(f[Slots], Slots)
    BY <1>0, <1>3
  <1>. QED
    BY <1>1, <1>2, <1>4

\* c is b with the configuration space of the function at s written; a function that
\* could use the bus still can.
Rewritten(b, c, s) ==
  /\ c \in [1..Slots -> PciFunction \cup {Absent}] /\ c[s] \in PciFunction
  /\ c[s].vend_id = b[s].vend_id /\ c[s].dev_id = b[s].dev_id /\ c[s].class = b[s].class
  /\ "master" \in b[s].config["command"].low => "master" \in c[s].config["command"].low
  /\ \A u \in 1..Slots : u # s => c[u] = b[u]

\* A write of a word to the configuration space changes nothing else of a function.
LEMMA WordWritten ==
  ASSUME NEW b, NEW s \in 1..Slots, b \in [1..Slots -> PciFunction \cup {Absent}],
         b[s] \in PciFunction, NEW word \in SUBSET Bits, NEW p \in {"command", "timing"},
         p = "command" => "master" \in word, NEW c, c = PciConfigWriteWord(b, s, p, word)
  PROVE  Rewritten(b, c, s) /\ (p = "command" => "master" \in c[s].config["command"].low)
  <1>1. PICK w : w = [low |-> word, high |-> {}]
    OBVIOUS
  <1>2. w \in Word /\ w.low = word
    BY <1>1 DEF Word
  <1>3. PICK g : g = b[s] /\ g \in PciFunction
    OBVIOUS
  <1>4. PICK q : q = g.config /\ q \in [command : Word, timing : Word]
    BY <1>3 DEF PciFunction
  <1>5. PICK r : r = [q EXCEPT ![p] = w]
    OBVIOUS
  <1>6. /\ r \in [command : Word, timing : Word]
        /\ p = "command" => r["command"] = w
        /\ p # "command" => r["command"] = q["command"]
    BY <1>2, <1>4, <1>5
  <1>11. c = [b EXCEPT ![s] = [g EXCEPT !.config = r]]
    BY <1>1, <1>3, <1>4, <1>5 DEF PciConfigWriteWord
  <1>12. /\ "master" \in q["command"].low => "master" \in r["command"].low
         /\ p = "command" => "master" \in r["command"].low
    BY <1>2, <1>6
  <1>7. PICK h : h = [g EXCEPT !.config = r]
    OBVIOUS
  <1>8. /\ h \in PciFunction /\ h.vend_id = g.vend_id /\ h.dev_id = g.dev_id
        /\ h.class = g.class /\ h.config = r
    BY <1>3, <1>6, <1>7 DEF PciFunction
  <1>9. c[s] = h /\ \A u \in 1..Slots : u # s => c[u] = b[u]
    BY <1>7, <1>11
  <1>10. c \in [1..Slots -> PciFunction \cup {Absent}]
    BY <1>7, <1>8, <1>11
  <1>. QED
    BY <1>3, <1>4, <1>8, <1>9, <1>10, <1>12 DEF Rewritten

\* Nothing is no function.
LEMMA AbsentIsNone ==
  Absent \notin PciFunction
  <1>1. \A f \in PciFunction : f.vend_id # "0xFFFF"
    BY DEF PciFunction
  <1>2. Absent.vend_id = "0xFFFF"
    BY DEF Absent
  <1>. QED
    BY <1>1, <1>2

\* What identifies the functions stays as it is, and with it the list, the entries
\* of each model and their order.
IdsSame ==
  /\ bus' \in [1..Slots -> PciFunction \cup {Absent}]
  /\ \A d : Matching(d)' = Matching(d)
  /\ \A d, e : Earlier(d, e)' = Earlier(d, e)
  /\ Lists(Devs)'
  /\ \A u \in 1..Slots :
       /\ bus'[u].class = bus[u].class
       /\ "master" \in bus[u].config["command"].low
            => "master" \in bus'[u].config["command"].low

\* A write to the configuration space changes none of it.
LEMMA IdsKept ==
  ASSUME NEW s \in 1..Slots, bus[s] \in PciFunction, Lists(Devs), pciService' = pciService,
         Rewritten(bus, bus', s)
  PROVE  IdsSame
  <1>1. \A u \in 1..Slots : /\ bus'[u].vend_id = bus[u].vend_id /\ bus'[u].dev_id = bus[u].dev_id
                            /\ bus'[u].class = bus[u].class
    BY DEF Rewritten
  <1>2. \A u \in 1..Slots : "master" \in bus[u].config["command"].low
                              => "master" \in bus'[u].config["command"].low
    BY DEF Rewritten
  <1>3. \A u \in 1..Slots : (bus'[u] # Absent) <=> (bus[u] # Absent)
    BY AbsentIsNone DEF Rewritten
  <1>4. \A e \in 1..Len(Devs) : Devs[e] \in 1..Slots
    <2>1. PICK devs : devs = Devs
      OBVIOUS
    <2>2. devs \in Seq(1..Slots)
      BY <2>1 DEF Lists
    <2>4. PICK S : S = 1..Slots
      OBVIOUS
    <2>5. devs \in Seq(S)
      BY <2>2, <2>4
    <2>6. \A e \in 1..Len(devs) : devs[e] \in S
      BY <2>5
    <2>3. \A e \in 1..Len(devs) : devs[e] \in 1..Slots
      BY <2>4, <2>6
    <2>. QED
      BY <2>1, <2>3
  <1>5. Devs' = Devs
    BY DEF Devs
  <1>6. \A d : Matching(d)' = Matching(d)
    BY <1>1, <1>4 DEF Matching, Devs
  <1>7. \A d, e : Earlier(d, e)' = Earlier(d, e)
    BY <1>6 DEF Earlier
  <1>8. Lists(Devs)'
    BY <1>3, <1>5 DEF Lists
  <1>. QED
    BY <1>1, <1>2, <1>6, <1>7, <1>8 DEF IdsSame, Rewritten

\* Two writes are one.
LEMMA Rewrites ==
  ASSUME NEW b, NEW c, NEW d, NEW s \in 1..Slots, Rewritten(b, c, s), Rewritten(c, d, s)
  PROVE  Rewritten(b, d, s)
  BY DEF Rewritten

\* What was written to a half is a set of bits.
LEMMA HalvesAreSets ==
  ASSUME NEW f \in PciFunction, NEW p \in {"command", "timing"}, NEW half \in {"low", "high"}
  PROVE  f.config[p][half] \in SUBSET Bits
  <1>1. PICK q : q = f.config /\ q \in [command : Word, timing : Word]
    BY DEF PciFunction
  <1>2. PICK w : w = q[p] /\ w \in Word
    BY <1>1
  <1>3. w[half] \in SUBSET Bits
    BY <1>2 DEF Word
  <1>. QED
    BY <1>1, <1>2, <1>3

\* EnablePCIBusMastering lets a function use the bus.
LEMMA MasterEnabled ==
  ASSUME NEW b, NEW s \in 1..Slots, b \in [1..Slots -> PciFunction \cup {Absent}],
         b[s] \in PciFunction, NEW c, c = EnablePCIBusMastering(b, s)
  PROVE  Rewritten(b, c, s) /\ "master" \in c[s].config["command"].low
  <1>1. PICK word : word = b[s].config["command"].low \cup {"memory", "master"}
    OBVIOUS
  <1>2. word \in SUBSET Bits /\ "master" \in word
    <2>1. b[s].config["command"].low \in SUBSET Bits
      BY HalvesAreSets
    <2>2. "memory" \in Bits /\ "master" \in Bits
      BY DEF Bits
    <2>. QED
      BY <1>1, <2>1, <2>2
  <1>3. c = PciConfigWriteWord(b, s, "command", word)
    BY <1>1 DEF EnablePCIBusMastering
  <1>. QED
    BY <1>2, <1>3, WordWritten

\* PciConfigWriteCommand changes the timing register only.
LEMMA TimingWritten ==
  ASSUME NEW b, NEW s \in 1..Slots, b \in [1..Slots -> PciFunction \cup {Absent}],
         b[s] \in PciFunction, NEW half \in {"low", "high"}, NEW c,
         c = PciConfigWriteCommand(b, s, half)
  PROVE  Rewritten(b, c, s)
  <1>1. PICK word : word = b[s].config["timing"][half] \cup {"0xA344"}
    OBVIOUS
  <1>2. word \in SUBSET Bits
    <2>1. b[s].config["timing"][half] \in SUBSET Bits
      BY HalvesAreSets
    <2>2. "0xA344" \in Bits
      BY DEF Bits
    <2>. QED
      BY <1>1, <2>1, <2>2
  <1>3. c = PciConfigWriteWord(b, s, "timing", word)
    BY <1>1 DEF PciConfigWriteCommand
  <1>4. "timing" # "command"
    OBVIOUS
  <1>. QED
    BY <1>2, <1>3, <1>4, WordWritten

\* The entries of a model are in an order: each has its own number before it, and
\* fewer than there are.
LEMMA Ranks ==
  ASSUME Lists(Devs), NEW d
  PROVE  /\ GetPCIDeviceCount(d) \in Nat
         /\ \A e \in Matching(d) : /\ e \in 1..Len(Devs) /\ Earlier(d, e) \in Nat
                                   /\ Earlier(d, e) < GetPCIDeviceCount(d)
         /\ \A e, f \in Matching(d) : Earlier(d, e) = Earlier(d, f) => e = f
  <1>1. PICK n \in Nat : n = Len(Devs)
    BY DEF Lists
  <1>2. PICK M : M = Matching(d)
    OBVIOUS
  <1>3. M \subseteq 1..n
    BY <1>1, <1>2 DEF Matching, Devs
  <1>4. IsFiniteSet(M)
    <2>1. 1 \in Int /\ n \in Int
      BY <1>1
    <2>2. IsFiniteSet(1..n)
      BY <2>1, FS_Interval
    <2>. QED
      BY <1>3, <2>2, FS_Subset
  <1>12. \A e \in M : e \in Nat
    BY <1>1, <1>3
  <1>5. Cardinality(M) \in Nat
    BY <1>4, FS_CardinalityType
  <1> DEFINE L(e) == {k \in M : k < e}
  <1>6. \A e : L(e) \subseteq M /\ IsFiniteSet(L(e)) /\ Cardinality(L(e)) \in Nat
    <2>1. \A e : L(e) \subseteq M
      OBVIOUS
    <2>2. \A e : IsFiniteSet(L(e))
      BY <2>1, <1>4, FS_Subset
    <2>. QED
      BY <2>1, <2>2, FS_CardinalityType
  <1>7. ASSUME NEW e \in M, NEW S \in SUBSET M, L(e) \cup {e} \subseteq S
        PROVE  Cardinality(L(e)) < Cardinality(S)
    <2>1. e \notin L(e)
      BY <1>3
    <2>2. Cardinality(L(e) \cup {e}) = Cardinality(L(e)) + 1
      BY <2>1, <1>6, FS_AddElement
    <2>3. IsFiniteSet(S) /\ Cardinality(S) \in Nat
      BY <1>4, FS_Subset, FS_CardinalityType
    <2>4. Cardinality(L(e) \cup {e}) <= Cardinality(S)
      BY <2>3, <1>7, FS_Subset
    <2>. QED
      BY <2>2, <2>3, <2>4, <1>6
  <1>8. \A e \in M : Cardinality(L(e)) < Cardinality(M)
    <2>1. \A e \in M : L(e) \cup {e} \subseteq M
      OBVIOUS
    <2>. QED
      BY <2>1, <1>7
  <1>9. \A e, f \in M : e < f => Cardinality(L(e)) < Cardinality(L(f))
    <2>1. \A e, f \in M : e < f => L(e) \cup {e} \subseteq L(f)
      <3>1. \A e, f, k \in M : e < f /\ k < e => k < f
        BY <1>12
      <3>. QED
        BY <3>1
    <2>. QED
      BY <2>1, <1>6, <1>7
  <1>10. \A e, f \in M : Cardinality(L(e)) = Cardinality(L(f)) => e = f
    <2>1. \A e, f \in M : e = f \/ e < f \/ f < e
      BY <1>12
    <2>2. \A e, f \in M : e < f => Cardinality(L(e)) # Cardinality(L(f))
      BY <1>6, <1>9
    <2> HIDE DEF L
    <2>. QED
      BY <2>1, <2>2
  <1>11. \A e : Earlier(d, e) = Cardinality(L(e))
    BY <1>2 DEF Earlier
  <1> HIDE DEF L
  <1>13. GetPCIDeviceCount(d) = Cardinality(M)
    BY <1>2 DEF GetPCIDeviceCount
  <1>14. \A e \in M : e \in 1..Len(Devs)
    BY <1>1, <1>3
  <1>15. \A e \in M : Earlier(d, e) \in Nat /\ Earlier(d, e) < GetPCIDeviceCount(d)
    BY <1>6, <1>8, <1>11, <1>13
  <1>16. \A e, f \in M : Earlier(d, e) = Earlier(d, f) => e = f
    BY <1>10, <1>11
  <1>. QED
    BY <1>2, <1>5, <1>13, <1>14, <1>15, <1>16
\* So do they when nothing is written.
LEMMA IdsStay ==
  ASSUME bus \in [1..Slots -> PciFunction \cup {Absent}], Lists(Devs),
         bus' = bus, pciService' = pciService
  PROVE  IdsSame
  <1>1. Devs' = Devs
    BY DEF Devs
  <1>2. \A d : Matching(d)' = Matching(d)
    BY DEF Matching
  <1>3. \A d, e : Earlier(d, e)' = Earlier(d, e)
    BY <1>2 DEF Earlier
  <1>4. Lists(Devs)'
    BY <1>1 DEF Lists
  <1>. QED
    BY <1>2, <1>3, <1>4 DEF IdsSame

\* An entry of the list is an address where a function answers.
LEMMA EntryAnswers ==
  ASSUME bus \in [1..Slots -> PciFunction \cup {Absent}], Lists(Devs),
         NEW e \in 1..Len(Devs)
  PROVE  Devs[e] \in 1..Slots /\ Devs[e] # NULL /\ bus[Devs[e]] \in PciFunction
  <1>1. PICK devs, S : devs = Devs /\ S = 1..Slots
    OBVIOUS
  <1>2. devs \in Seq(S) /\ e \in 1..Len(devs)
    BY <1>1 DEF Lists
  <1>3. devs[e] \in S
    BY <1>2
  <1>4. \A s \in S : (bus[s] # Absent) <=> (\E f \in 1..Len(devs) : devs[f] = s)
    BY <1>1 DEF Lists
  <1>5. bus[devs[e]] # Absent
    BY <1>2, <1>3, <1>4
  <1>6. bus[devs[e]] \in PciFunction
    BY <1>1, <1>3, <1>5
  <1>7. devs[e] # 0
    BY <1>1, <1>3, DevicesAssumption
  <1>. QED
    BY <1>1, <1>3, <1>6, <1>7 DEF NULL

\* The controller that is found is a disk controller.
LEMMA ControllerFound ==
  ASSUME bus \in [1..Slots -> PciFunction \cup {Absent}], Lists(Devs),
         NEW s, s = getDiskPCIDevice, s # NULL
  PROVE  s \in 1..Slots /\ bus[s].class = "ide" /\ bus[s] \in PciFunction
  <1>1. PICK disks : disks = {e \in 1..Len(pciService.pciDevices) :
                                bus[pciService.pciDevices[e]].class = "ide"}
    OBVIOUS
  <1>2. disks # {} /\ s = Devs[Min(disks)]
    BY <1>1 DEF getDiskPCIDevice, Devs
  <1>3. disks \in SUBSET Nat
    <2>1. PICK n \in Nat : n = Len(Devs)
      BY DEF Lists
    <2>2. disks \subseteq 1..n
      BY <1>1, <2>1 DEF Devs
    <2>. QED
      BY <2>1, <2>2
  <1>4. Min(disks) \in disks
    <2>1. \E k \in disks : \A l \in disks : k <= l
      BY <1>2, <1>3, LeastOf
    <2>. QED
      BY <2>1 DEF Min
  <1>5. PICK e : e = Min(disks) /\ e \in 1..Len(Devs) /\ bus[Devs[e]].class = "ide"
    BY <1>1, <1>4 DEF Devs
  <1>. QED
    BY <1>2, <1>5, EntryAnswers

\* What e1000Scan has come past depends on the ids and on its loops only.
LEMMA PastSame ==
  ASSUME IdsSame, looked' = looked
  PROVE  \A e : Past(e)' <=> Past(e)
  BY DEF IdsSame, Past

\* The disks are made of what does not change afterwards.
LEMMA DisksSame ==
  ASSUME DisksInv, ataManager' = ataManager, drives' = drives
  PROVE  DisksInv'
  BY DEF DisksInv, initATADisk

\* A port stays that of a disk controller.
LEMMA PortSame ==
  ASSUME IdsSame, NEW p, PortInv(p)
  PROVE  (p # NULL => p \in 1..Slots /\ bus'[p].class = "ide")
  BY DEF IdsSame, PortInv

\* CollectHWInventory lists every function that answers.
LEMMA CollectKeeps ==
  ASSUME DevicesInv, CollectHWInventory
  PROVE  DevicesInv'
  <1>1. PICK list : list = ScanBusesForAllocation(Counted)
    OBVIOUS
  <1>2. ListsUpTo(list, Slots)
    BY <1>1, Allocated
  <1>3. Lists(list)
    BY <1>2 DEF ListsUpTo, Lists, Answering
  <1>4. Counted \in Nat
    <2>1. Counted = Cardinality(Answering(Slots))
      BY DEF Counted, Answering
    <2>. QED
      BY <2>1, AnsweringFinite, DevicesAssumption
  <1>5. pciService.total_pci_devices = 0
    BY DEF DevicesInv, CollectHWInventory
  <1>6. pciService' = [total_pci_devices |-> pciService.total_pci_devices + Counted,
                       pciDevices |->
                         ScanBusesForAllocation(pciService.total_pci_devices + Counted)]
    BY DEF CollectHWInventory
  <1>7. pciService.total_pci_devices + Counted = Counted
    BY <1>4, <1>5
  <1>8. pciService'.pciDevices = list
    BY <1>1, <1>6, <1>7
  <1>9. Lists(Devs)'
    BY <1>3, <1>8 DEF Lists, Devs, CollectHWInventory
  <1>10. phase = "collect_hw" /\ phase' = "detect"
    BY DEF CollectHWInventory
  <1>11. PortInv(ataManager.dma_port_address)'
    BY DEF DevicesInv, PortInv, CollectHWInventory
  <1>. QED
    BY <1>9, <1>10, <1>11 DEF DevicesInv, CollectHWInventory, Phases
\* identifyPCI writes the configuration space of the disk controller and keeps its port.
LEMMA IdentifyKeeps ==
  ASSUME DevicesInv, identifyPCI
  PROVE  DevicesInv'
  <1>1. PICK s : s = getDiskPCIDevice
    OBVIOUS
  <1>2. PICK mastering \in BOOLEAN : mastering <=> (s # NULL /\ bus[s].dma)
    OBVIOUS
  <1>3. /\ phase = "detect" /\ phase' = "disks" /\ UNCHANGED <<drives, pciService, cards, looked>>
        /\ bus' = IF mastering /\ bus[s].dev_id \in DmaModels
                  THEN PciConfigWriteCommand(
                         PciConfigWriteCommand(EnablePCIBusMastering(bus, s), s, "low"), s, "high")
                  ELSE bus
        /\ ataManager' = [ataManager EXCEPT
              !.dma_port_address = IF mastering /\ GetPCIBarType(s) = "ports" THEN s ELSE @,
              !.dma_mmio_address = IF mastering /\ GetPCIBarType(s) = "memory" THEN s ELSE @]
    BY <1>1, <1>2 DEF identifyPCI
  <1>4. bus \in [1..Slots -> PciFunction \cup {Absent}] /\ Lists(Devs)
    BY <1>3 DEF DevicesInv
  <1>5. mastering => s \in 1..Slots /\ bus[s].class = "ide" /\ bus[s] \in PciFunction
    BY <1>1, <1>2, <1>4, ControllerFound
  <1>6. IdsSame
    <2>1. CASE mastering /\ bus[s].dev_id \in DmaModels
      <3>1. PICK b1 : b1 = EnablePCIBusMastering(bus, s)
        OBVIOUS
      <3>2. PICK b2 : b2 = PciConfigWriteCommand(b1, s, "low")
        OBVIOUS
      <3>3. PICK b3 : b3 = PciConfigWriteCommand(b2, s, "high")
        OBVIOUS
      <3>4. bus' = b3
        BY <1>3, <2>1, <3>1, <3>2, <3>3
      <3>5. Rewritten(bus, b1, s)
        BY <1>4, <1>5, <2>1, <3>1, MasterEnabled
      <3>6. Rewritten(b1, b2, s)
        <4>1. b1 \in [1..Slots -> PciFunction \cup {Absent}] /\ b1[s] \in PciFunction
          BY <3>5 DEF Rewritten
        <4>2. "low" \in {"low", "high"}
          OBVIOUS
        <4>. QED
          BY <1>5, <2>1, <3>2, <4>1, <4>2, TimingWritten
      <3>7. Rewritten(b2, b3, s)
        <4>1. b2 \in [1..Slots -> PciFunction \cup {Absent}] /\ b2[s] \in PciFunction
          BY <3>6 DEF Rewritten
        <4>2. "high" \in {"low", "high"}
          OBVIOUS
        <4>. QED
          BY <1>5, <2>1, <3>3, <4>1, <4>2, TimingWritten
      <3>8. Rewritten(bus, b3, s)
        BY <1>5, <2>1, <3>5, <3>6, <3>7, Rewrites
      <3>. QED
        BY <1>3, <1>4, <1>5, <2>1, <3>4, <3>8, IdsKept
    <2>2. CASE ~(mastering /\ bus[s].dev_id \in DmaModels)
      BY <1>3, <1>4, <2>2, IdsStay
    <2>. QED
      BY <2>1, <2>2
  <1>7. PICK p, m, a : ataManager = [dma_port_address |-> p, dma_mmio_address |-> m,
                                     ataDisks |-> a]
    BY DEF DevicesInv
  <1>8. PICK q, r : ataManager' = [dma_port_address |-> q, dma_mmio_address |-> r,
                                   ataDisks |-> a] /\ (q = p \/ (mastering /\ q = s))
    BY <1>3, <1>7
  <1>9. PortInv(ataManager.dma_port_address)'
    <2>1. PortInv(p)
      BY <1>7 DEF DevicesInv
    <2>2. p # NULL => p \in 1..Slots /\ bus'[p].class = "ide"
      BY <1>6, <2>1, PortSame
    <2>3. mastering => s \in 1..Slots /\ bus'[s].class = "ide"
      BY <1>5, <1>6 DEF IdsSame
    <2>4. ataManager'.dma_port_address = q
      BY <1>8
    <2>. QED
      BY <1>8, <2>2, <2>3, <2>4 DEF PortInv
  <1>10. ataManager' = [dma_port_address |-> ataManager'.dma_port_address,
                        dma_mmio_address |-> ataManager'.dma_mmio_address,
                        ataDisks |-> ataManager'.ataDisks]
    BY <1>8
  <1>. QED
    BY <1>3, <1>6, <1>9, <1>10 DEF DevicesInv, IdsSame, Phases

\* No entry is behind e1000Scan when it starts.
LEMMA NonePast ==
  ASSUME Lists(Devs), looked = <<1, 0>>
  PROVE  \A e : ~Past(e)
  <1>1. looked[1] = 1 /\ looked[2] = 0
    OBVIOUS
  <1>2. ASSUME NEW e, Past(e) PROVE FALSE
    <2>1. PICK i \in 1..Len(e1000_models) :
             /\ e \in Matching(e1000_models[i])
             /\ i < 1 \/ (i = 1 /\ Earlier(e1000_models[i], e) < 0)
      BY <1>1, <1>2 DEF Past
    <2>2. Earlier(e1000_models[i], e) \in Nat
      BY <2>1, Ranks
    <2>3. Len(e1000_models) \in Nat
      BY DevicesAssumption
    <2>. QED
      BY <2>1, <2>2, <2>3
  <1>. QED
    BY <1>2

\* detectATADisks makes a disk of every ATA drive.
LEMMA DetectKeeps ==
  ASSUME DevicesInv, detectATADisks
  PROVE  DevicesInv'
  <1>1. /\ phase = "disks" /\ phase' = "scan"
        /\ UNCHANGED <<bus, drives, pciService, cards, looked>>
    BY DEF detectATADisks
  <1>2. PICK new : new = [i \in 1..4 |-> IF identifyDisk(Places[i])
                                         THEN <<initATADisk(Places[i])>> ELSE <<>>]
    OBVIOUS
  <1>3. ataManager' = [ataManager EXCEPT !.ataDisks = new]
    BY <1>2 DEF detectATADisks
  <1>4. PICK p, m, a : ataManager = [dma_port_address |-> p, dma_mmio_address |-> m,
                                     ataDisks |-> a]
    BY DEF DevicesInv
  <1>5. ataManager' = [dma_port_address |-> p, dma_mmio_address |-> m, ataDisks |-> new]
    BY <1>3, <1>4
  <1>6. /\ ataManager'.dma_port_address = ataManager.dma_port_address
        /\ ataManager'.dma_mmio_address = ataManager.dma_mmio_address
        /\ ataManager'.ataDisks = new
    BY <1>4, <1>5
  <1>7. DisksInv'
    BY <1>1, <1>2, <1>6 DEF DisksInv, identifyDisk, initATADisk
  <1>8. bus \in [1..Slots -> PciFunction \cup {Absent}] /\ Lists(Devs)
        /\ cards = <<>> /\ looked = <<1, 0>>
    BY <1>1 DEF DevicesInv
  <1>9. IdsSame
    BY <1>1, <1>8, IdsStay
  <1>10. \A e : ~Past(e)'
    BY <1>1, <1>8, <1>9, NonePast, PastSame
  <1>11. cards' = <<>> /\ Len(cards') = 0
    BY <1>1, <1>8
  <1>12. CardsInv'
    <2>1. \A c \in 1..Len(cards') : FALSE
      BY <1>11
    <2>. QED
      BY <1>10, <2>1 DEF CardsInv
  <1>13. PortInv(ataManager.dma_port_address)'
    BY <1>1, <1>6 DEF DevicesInv, PortInv
  <1>14. ataManager' = [dma_port_address |-> ataManager'.dma_port_address,
                        dma_mmio_address |-> ataManager'.dma_mmio_address,
                        ataDisks |-> ataManager'.ataDisks]
    BY <1>5
  <1>. QED
    BY <1>1, <1>7, <1>9, <1>12, <1>13, <1>14 DEF DevicesInv, IdsSame, Phases
\* The loops are in range.
LEMMA LookedTyped ==
  ASSUME DevicesInv
  PROVE  looked[1] \in Nat \ {0} /\ looked[2] \in Nat /\ Len(e1000_models) \in Nat
  <1>1. looked \in (Nat \ {0}) \X Nat
    BY DEF DevicesInv
  <1>2. Len(e1000_models) \in Nat
    BY DevicesAssumption
  <1>. QED
    BY <1>1, <1>2

\* An entry is of one model only.
LEMMA OneModel ==
  ASSUME NEW i \in 1..Len(e1000_models), NEW n \in 1..Len(e1000_models), NEW e,
         e \in Matching(e1000_models[i]), e \in Matching(e1000_models[n])
  PROVE  i = n
  <1>1. e1000_models[i] = e1000_models[n]
    BY DEF Matching
  <1>2. i \in DOMAIN e1000_models /\ n \in DOMAIN e1000_models
    BY DevicesAssumption
  <1>. QED
    BY <1>1, <1>2, DevicesAssumption

\* The next index comes past the entries that have this many before them.
LEMMA PastNext ==
  ASSUME DevicesInv, IdsSame, Lists(Devs), looked[1] <= Len(e1000_models),
         looked' = <<looked[1], looked[2] + 1>>, NEW e
  PROVE  Past(e)' <=> \/ Past(e)
                      \/ /\ e \in Matching(e1000_models[looked[1]])
                         /\ Earlier(e1000_models[looked[1]], e) = looked[2]
  <1>1. PICK n, j : n = looked[1] /\ j = looked[2]
    OBVIOUS
  <1>2. n \in 1..Len(e1000_models) /\ j \in Nat
    BY <1>1, LookedTyped
  <1>3. looked'[1] = n /\ looked'[2] = j + 1
    BY <1>1
  <1>4. \A d : \A f \in Matching(d) : Earlier(d, f) \in Nat
    BY Ranks
  <1>5. \A k \in Nat : k < j + 1 <=> (k < j \/ k = j)
    BY <1>2
  <1>6. Past(e) <=> \E i \in 1..Len(e1000_models) :
                       /\ e \in Matching(e1000_models[i])
                       /\ i < n \/ (i = n /\ Earlier(e1000_models[i], e) < j)
    BY <1>1 DEF Past
  <1>7. Past(e)' <=> \E i \in 1..Len(e1000_models) :
                       /\ e \in Matching(e1000_models[i])
                       /\ i < n \/ (i = n /\ Earlier(e1000_models[i], e) < j + 1)
    BY <1>3 DEF Past, IdsSame
  <1>. QED
    BY <1>1, <1>2, <1>4, <1>5, <1>6, <1>7

\* The next model comes past no more entries: the last had no others.
LEMMA PastModel ==
  ASSUME DevicesInv, IdsSame, Lists(Devs), looked[1] <= Len(e1000_models),
         looked[2] >= GetPCIDeviceCount(e1000_models[looked[1]]),
         looked' = <<looked[1] + 1, 0>>, NEW e
  PROVE  Past(e)' <=> Past(e)
  <1>1. PICK n, j : n = looked[1] /\ j = looked[2]
    OBVIOUS
  <1>2. n \in 1..Len(e1000_models) /\ j \in Nat /\ n \in Nat
    BY <1>1, LookedTyped
  <1>3. looked'[1] = n + 1 /\ looked'[2] = 0
    BY <1>1
  <1>4. \A d : \A f \in Matching(d) : Earlier(d, f) \in Nat /\ ~(Earlier(d, f) < 0)
    BY Ranks
  <1>5. \A f \in Matching(e1000_models[n]) : Earlier(e1000_models[n], f) < j
    <2>1. PICK d : d = e1000_models[n]
      OBVIOUS
    <2>2. GetPCIDeviceCount(d) \in Nat /\ GetPCIDeviceCount(d) <= j
      BY <1>1, <1>2, <2>1, Ranks
    <2>3. \A f \in Matching(d) : Earlier(d, f) \in Nat /\ Earlier(d, f) < GetPCIDeviceCount(d)
      BY Ranks
    <2>. QED
      BY <1>2, <2>1, <2>2, <2>3
  <1>6. \A i \in 1..Len(e1000_models) : i < n + 1 <=> (i < n \/ i = n)
    BY <1>2, LookedTyped
  <1>7. Past(e) <=> \E i \in 1..Len(e1000_models) :
                       /\ e \in Matching(e1000_models[i])
                       /\ i < n \/ (i = n /\ Earlier(e1000_models[i], e) < j)
    BY <1>1 DEF Past
  <1>8. Past(e)' <=> \E i \in 1..Len(e1000_models) :
                       /\ e \in Matching(e1000_models[i])
                       /\ i < n + 1 \/ (i = n + 1 /\ Earlier(e1000_models[i], e) < 0)
    BY <1>3 DEF Past, IdsSame
  <1>. QED
    BY <1>2, <1>4, <1>5, <1>6, <1>7, <1>8

\* Where nothing new is come past, the cards started stay the right ones.
LEMMA CardsSame ==
  ASSUME CardsInv, IdsSame, cards' = cards, pciService' = pciService,
         \A c \in 1..Len(cards) : cards[c].slot \in 1..Slots,
         \A e \in 1..Len(Devs) : Past(e)' <=> Past(e)
  PROVE  CardsInv'
  <1>1. Devs' = Devs
    BY DEF Devs
  <1>2. \A c \in 1..Len(cards) : "master" \in bus'[cards[c].slot].config["command"].low
    BY DEF CardsInv, IdsSame
  <1>3. \A c \in 1..Len(cards) :
          \E e \in 1..Len(Devs) : Past(e)' /\ cards[c].slot = Devs[e]
    BY DEF CardsInv
  <1>4. \A e \in 1..Len(Devs) :
          Past(e)' => \E c \in 1..Len(cards) : cards[c].slot = Devs[e]
    BY DEF CardsInv
  <1>5. \A c, b \in 1..Len(cards) : cards[c].slot = cards[b].slot => c = b
    BY DEF CardsInv
  <1>. QED
    BY <1>1, <1>2, <1>3, <1>4, <1>5 DEF CardsInv

\* The cards are at addresses.
LEMMA CardsTyped ==
  ASSUME DevicesInv
  PROVE  Len(cards) \in Nat /\ \A c \in 1..Len(cards) : cards[c].slot \in 1..Slots
  <1>1. cards \in Seq(Started)
    BY DEF DevicesInv
  <1>2. Len(cards) \in Nat /\ \A c \in 1..Len(cards) : cards[c] \in Started
    BY <1>1
  <1>3. \A x \in Started : x.slot \in 1..Slots
    BY DEF Started
  <1>. QED
    BY <1>2, <1>3
\* The next model.
LEMMA NextModelKeeps ==
  ASSUME DevicesInv, NextModel
  PROVE  DevicesInv'
  <1>1. /\ phase = "scan" /\ looked[1] <= Len(e1000_models)
        /\ looked[2] >= GetPCIDeviceCount(e1000_models[looked[1]])
        /\ looked' = <<looked[1] + 1, 0>>
        /\ UNCHANGED <<bus, drives, pciService, ataManager, cards, phase>>
    BY DEF NextModel
  <1>2. bus \in [1..Slots -> PciFunction \cup {Absent}] /\ Lists(Devs) /\ CardsInv /\ DisksInv
    BY <1>1 DEF DevicesInv
  <1>3. IdsSame
    BY <1>1, <1>2, IdsStay
  <1>4. CardsInv'
    BY <1>1, <1>2, <1>3, PastModel, CardsSame, CardsTyped
  <1>5. DisksInv'
    BY <1>1, <1>2, DisksSame
  <1>6. looked' \in (Nat \ {0}) \X Nat
    BY <1>1, LookedTyped
  <1>7. PortInv(ataManager.dma_port_address)'
    BY <1>1 DEF DevicesInv, PortInv
  <1>. QED
    BY <1>1, <1>3, <1>4, <1>5, <1>6, <1>7 DEF DevicesInv, IdsSame

\* The end of the scan, and steps of others.
LEMMA ScannedKeeps ==
  ASSUME DevicesInv, Scanned \/ UNCHANGED deviceVars
  PROVE  DevicesInv'
  <1>1. CASE UNCHANGED deviceVars
    <2>1. UNCHANGED <<bus, drives, pciService, ataManager, cards, looked, phase>>
      BY <1>1 DEF deviceVars
    <2>2. Devs' = Devs /\ (Lists(Devs) => Lists(Devs)')
      BY <2>1 DEF Lists, Devs
    <2>3. \A d : Matching(d)' = Matching(d)
      BY <2>1 DEF Matching
    <2>4. \A d, e : Earlier(d, e)' = Earlier(d, e)
      BY <2>3 DEF Earlier
    <2>5. \A e : Past(e)' <=> Past(e)
      BY <2>1, <2>3, <2>4 DEF Past
    <2>6. CardsInv => CardsInv'
      BY <2>1, <2>2, <2>5 DEF CardsInv
    <2>7. DisksInv => DisksInv'
      BY <2>1 DEF DisksInv, initATADisk
    <2>8. PortInv(ataManager.dma_port_address)'
      BY <2>1 DEF DevicesInv, PortInv
    <2>. QED
      BY <2>1, <2>2, <2>6, <2>7, <2>8 DEF DevicesInv
  <1>2. CASE Scanned
    <2>1. /\ phase = "scan" /\ looked[1] > Len(e1000_models) /\ phase' = "done"
          /\ UNCHANGED <<bus, drives, pciService, ataManager, cards, looked>>
      BY <1>2 DEF Scanned
    <2>2. bus \in [1..Slots -> PciFunction \cup {Absent}] /\ Lists(Devs) /\ CardsInv /\ DisksInv
      BY <2>1 DEF DevicesInv
    <2>3. IdsSame
      BY <2>1, <2>2, IdsStay
    <2>4. CardsInv'
      BY <2>1, <2>2, <2>3, PastSame, CardsSame, CardsTyped
    <2>5. DisksInv'
      BY <2>1, <2>2, DisksSame
    <2>7. PortInv(ataManager.dma_port_address)'
      BY <2>1 DEF DevicesInv, PortInv
    <2>. QED
      BY <2>1, <2>3, <2>4, <2>5, <2>7 DEF DevicesInv, IdsSame, Phases
  <1>. QED
    BY <1>1, <1>2

\* A card more, at the entry that is come past now.
LEMMA CardAdded ==
  ASSUME DevicesInv, CardsInv, IdsSame, pciService' = pciService, Lists(Devs),
         NEW n \in 1..Len(Devs), ~Past(n), NEW card \in Started, card.slot = Devs[n],
         cards' = Append(cards, card),
         "master" \in bus'[card.slot].config["command"].low,
         \A e \in 1..Len(Devs) : Past(e)' <=> (Past(e) \/ e = n)
  PROVE  CardsInv'
  <1>1. PICK devs : devs = Devs /\ Devs' = devs
    BY DEF Devs
  <1>2. PICK k \in Nat : k = Len(cards)
    BY CardsTyped
  <1>3. PICK list : list = Append(cards, card)
    OBVIOUS
  <1>4. /\ Len(list) = k + 1 /\ list[k + 1] = card /\ cards' = list
        /\ \A c \in 1..k : list[c] = cards[c]
    <2>1. cards \in Seq(Started)
      BY DEF DevicesInv
    <2>. QED
      BY <1>2, <1>3, <2>1
  <1>5. \A c \in 1..(k + 1) : c \in 1..k \/ c = k + 1
    BY <1>2
  <1>6. k + 1 \in 1..(k + 1) /\ \A c \in 1..k : c \in 1..(k + 1)
    BY <1>2
  <1>7. ASSUME NEW c \in 1..(k + 1)
        PROVE  /\ "master" \in bus'[list[c].slot].config["command"].low
               /\ \E e \in 1..Len(devs) : Past(e)' /\ list[c].slot = devs[e]
    <2>1. CASE c \in 1..k
      <3>1. list[c] = cards[c] /\ cards[c].slot \in 1..Slots
        BY <1>2, <1>4, <2>1, CardsTyped
      <3>2. /\ "master" \in bus[cards[c].slot].config["command"].low
            /\ \E e \in 1..Len(devs) : Past(e) /\ cards[c].slot = devs[e]
        BY <1>1, <1>2, <2>1 DEF CardsInv
      <3>3. "master" \in bus'[cards[c].slot].config["command"].low
        BY <3>1, <3>2 DEF IdsSame
      <3>. QED
        BY <1>1, <3>1, <3>2, <3>3
    <2>2. CASE c = k + 1
      BY <1>1, <1>4, <2>2
    <2>. QED
      BY <1>5, <2>1, <2>2
  <1>8. ASSUME NEW e \in 1..Len(devs), Past(e)'
        PROVE  \E c \in 1..(k + 1) : list[c].slot = devs[e]
    <2>1. CASE e = n
      BY <1>1, <1>4, <1>6, <2>1
    <2>2. CASE Past(e)
      <3>1. PICK c \in 1..k : cards[c].slot = devs[e]
        BY <1>1, <1>2, <2>2 DEF CardsInv
      <3>. QED
        BY <1>4, <1>6, <3>1
    <2>. QED
      BY <1>1, <1>8, <2>1, <2>2
  <1>9. \A c \in 1..k : cards[c].slot # devs[n]
    <2>1. ASSUME NEW c \in 1..k, cards[c].slot = devs[n] PROVE FALSE
      <3>1. PICK e \in 1..Len(devs) : Past(e) /\ cards[c].slot = devs[e]
        BY <1>1, <1>2 DEF CardsInv
      <3>3. \A x, y \in 1..Len(devs) : devs[x] = devs[y] => x = y
        BY <1>1 DEF Lists
      <3>2. e = n
        BY <1>1, <2>1, <3>1, <3>3
      <3>. QED
        BY <3>1, <3>2
    <2>. QED
      BY <2>1
  <1>10. \A c, b \in 1..(k + 1) : list[c].slot = list[b].slot => c = b
    <2>1. \A c, b \in 1..k : cards[c].slot = cards[b].slot => c = b
      BY <1>2 DEF CardsInv
    <2>2. \A c \in 1..k : list[c].slot # list[k + 1].slot
      BY <1>1, <1>4, <1>9
    <2>. QED
      BY <1>4, <1>5, <2>1, <2>2
  <1>11. \A c \in 1..Len(cards') :
           /\ "master" \in bus'[cards'[c].slot].config["command"].low
           /\ \E e \in 1..Len(Devs') : Past(e)' /\ cards'[c].slot = Devs'[e]
    BY <1>1, <1>4, <1>7
  <1>12. \A e \in 1..Len(Devs') :
           Past(e)' => \E c \in 1..Len(cards') : cards'[c].slot = Devs'[e]
    BY <1>1, <1>4, <1>8
  <1>13. \A c, b \in 1..Len(cards') : cards'[c].slot = cards'[b].slot => c = b
    BY <1>4, <1>10
  <1>. QED
    BY <1>11, <1>12, <1>13 DEF CardsInv
\* A card that is started: it may use the bus, or the boot hangs in its EEPROM.
LEMMA CardStarted ==
  ASSUME DevicesInv, phase = "scan", Lists(Devs), NEW n \in 1..Len(Devs), NEW s, s = Devs[n],
         ~Past(n), e1000Init(s), looked' \in (Nat \ {0}) \X Nat,
         IdsSame => \A e \in 1..Len(Devs) : Past(e)' <=> (Past(e) \/ e = n)
  PROVE  DevicesInv'
  <1>1. /\ bus \in [1..Slots -> PciFunction \cup {Absent}] /\ CardsInv /\ DisksInv
        /\ cards \in Seq(Started)
    BY DEF DevicesInv
  <1>2. s \in 1..Slots /\ bus[s] \in PciFunction
    BY <1>1, EntryAnswers
  <1>3. /\ bus' = EnablePCIBusMastering(bus, s)
        /\ drives' = drives /\ pciService' = pciService /\ ataManager' = ataManager
    BY DEF e1000Init
  <1>4. Rewritten(bus, bus', s) /\ "master" \in bus'[s].config["command"].low
    BY <1>1, <1>2, <1>3, MasterEnabled
  <1>5. IdsSame
    BY <1>2, <1>3, <1>4, IdsKept
  <1>6. DisksInv'
    BY <1>1, <1>3, DisksSame
  <1>7. PortInv(ataManager.dma_port_address)'
    <2>1. PICK p : p = ataManager.dma_port_address
      OBVIOUS
    <2>2. PortInv(p)
      BY <2>1 DEF DevicesInv
    <2>3. p # NULL => p \in 1..Slots /\ bus'[p].class = "ide"
      BY <1>5, <2>2, PortSame
    <2>4. ataManager'.dma_port_address = p
      BY <1>3, <2>1
    <2>. QED
      BY <2>3, <2>4 DEF PortInv
  <1>8. CASE phase' = "hung" /\ cards' = cards
    BY <1>1, <1>3, <1>5, <1>6, <1>7, <1>8 DEF DevicesInv, IdsSame, Phases
  <1>9. CASE phase' = phase /\ \E exists \in eerprom_exists(s) :
                                 cards' = Append(cards, [slot |-> s, mac |-> MacOf(s, exists)])
    <2>1. PICK exists : cards' = Append(cards, [slot |-> s, mac |-> MacOf(s, exists)])
      BY <1>9
    <2>2. MacOf(s, exists) \in {"eeprom", "set", "none"}
      <3>1. bus[s].registers \in {"set", "none"}
        BY <1>2 DEF PciFunction
      <3>. QED
        BY <3>1 DEF MacOf
    <2>3. PICK card : card = [slot |-> s, mac |-> MacOf(s, exists)]
      OBVIOUS
    <2>4. card \in Started /\ card.slot = s /\ cards' = Append(cards, card)
      BY <1>2, <2>1, <2>2, <2>3 DEF Started
    <2>5. "master" \in bus'[card.slot].config["command"].low /\ card.slot = Devs[n]
      BY <1>4, <2>4
    <2>6. \A e \in 1..Len(Devs) : Past(e)' <=> (Past(e) \/ e = n)
      BY <1>5
    <2>7. CardsInv'
      BY <1>1, <1>3, <1>5, <2>4, <2>5, <2>6, CardAdded
    <2>8. cards' \in Seq(Started)
      BY <1>1, <2>4
    <2>. QED
      BY <1>3, <1>5, <1>6, <1>7, <1>9, <2>7, <2>8
         DEF DevicesInv, IdsSame, Phases
  <1>. QED
    BY <1>8, <1>9 DEF e1000Init

\* A turn of the loop over the cards of a model.
LEMMA ScanKeeps ==
  ASSUME DevicesInv, e1000Scan
  PROVE  DevicesInv'
  <1>1. PICK d, j : d = e1000_models[looked[1]] /\ j = looked[2]
    OBVIOUS
  <1>2. PICK s : s = GetPCIDeviceAtIndex(d, j)
    OBVIOUS
  <1>3. /\ phase = "scan" /\ looked[1] <= Len(e1000_models)
        /\ looked' = <<looked[1], looked[2] + 1>>
        /\ IF s # NULL THEN e1000Init(s)
           ELSE UNCHANGED <<bus, drives, pciService, ataManager, cards, phase>>
    BY <1>1, <1>2 DEF e1000Scan
  <1>4. bus \in [1..Slots -> PciFunction \cup {Absent}] /\ Lists(Devs) /\ CardsInv /\ DisksInv
    BY <1>3 DEF DevicesInv
  <1>5. looked' \in (Nat \ {0}) \X Nat /\ looked[1] \in 1..Len(e1000_models)
    BY <1>3, LookedTyped
  <1>6. PICK found : found = {e \in Matching(d) : Earlier(d, e) = j}
    OBVIOUS
  <1>7. IdsSame => \A e : Past(e)' <=> (Past(e) \/ e \in found)
    BY <1>1, <1>3, <1>4, <1>6, PastNext
  <1>8. CASE found = {}
    <2>1. s = NULL
      BY <1>2, <1>6, <1>8 DEF GetPCIDeviceAtIndex
    <2>2. UNCHANGED <<bus, drives, pciService, ataManager, cards, phase>>
      BY <1>3, <2>1
    <2>3. IdsSame
      BY <1>4, <2>2, IdsStay
    <2>4. \A e : Past(e)' <=> Past(e)
      BY <1>7, <1>8, <2>3
    <2>5. CardsInv'
      BY <1>4, <2>2, <2>3, <2>4, CardsSame, CardsTyped
    <2>6. DisksInv'
      BY <1>4, <2>2, DisksSame
    <2>7. PortInv(ataManager.dma_port_address)'
      BY <2>2 DEF DevicesInv, PortInv
    <2>. QED
      BY <1>3, <1>5, <2>2, <2>3, <2>5, <2>6, <2>7 DEF DevicesInv, IdsSame
  <1>9. CASE found # {}
    <2>1. PICK n : n \in found /\ s = Devs[n]
      <3>1. s = pciService.pciDevices[CHOOSE e \in found : TRUE]
        BY <1>2, <1>6, <1>9 DEF GetPCIDeviceAtIndex
      <3>2. (CHOOSE e \in found : TRUE) \in found
        BY <1>9
      <3>. QED
        BY <3>1, <3>2 DEF Devs
    <2>2. n \in Matching(d) /\ Earlier(d, n) = j
      BY <1>6, <2>1
    <2>3. n \in 1..Len(Devs) /\ Earlier(d, n) \in Nat
      BY <1>4, <2>2, Ranks
    <2>4. \A e \in found : e = n
      <3>1. \A e, f \in Matching(d) : Earlier(d, e) = Earlier(d, f) => e = f
        BY <1>4, Ranks
      <3>. QED
        BY <1>6, <2>2, <3>1
    <2>5. ~Past(n)
      <3>1. ASSUME Past(n) PROVE FALSE
        <4>1. PICK i \in 1..Len(e1000_models) :
                 /\ n \in Matching(e1000_models[i])
                 /\ i < looked[1] \/ (i = looked[1] /\ Earlier(e1000_models[i], n) < looked[2])
          BY <3>1 DEF Past
        <4>2. i = looked[1]
          BY <1>1, <1>5, <2>2, <4>1, OneModel
        <4>3. i \in Nat /\ j \in Nat
          BY <1>1, <4>2, LookedTyped
        <4>. QED
          BY <1>1, <2>2, <4>1, <4>2, <4>3
      <3>. QED
        BY <3>1
    <2>6. s # NULL
      BY <1>4, <2>1, <2>3, EntryAnswers
    <2>7. IdsSame => \A e \in 1..Len(Devs) : Past(e)' <=> (Past(e) \/ e = n)
      BY <1>7, <2>1, <2>4
    <2>. QED
      BY <1>3, <1>4, <1>5, <2>1, <2>3, <2>5, <2>6, <2>7, CardStarted
  <1>. QED
    BY <1>8, <1>9

\* The boot of a machine with these functions and drives.
LEMMA DevicesStart ==
  ASSUME \E b \in Populations, d \in Cabling : DevicesInit(b, d)
  PROVE  DevicesInv
  <1>1. PICK b \in Populations, d \in Cabling : DevicesInit(b, d)
    OBVIOUS
  <1>2. bus \in [1..Slots -> PciFunction \cup {Absent}]
    <2>1. b \in [1..Slots -> Functions \cup {Absent}] /\ bus = b
      BY <1>1 DEF Populations, DevicesInit
    <2>. QED
      BY <2>1, DevicesAssumption
  <1>3. /\ phase = "collect_hw" /\ cards = <<>> /\ looked = <<1, 0>>
        /\ pciService = [total_pci_devices |-> 0, pciDevices |-> <<>>]
        /\ ataManager = [dma_port_address |-> NULL, dma_mmio_address |-> NULL,
                         ataDisks |-> [i \in 1..4 |-> <<>>]]
    BY <1>1 DEF DevicesInit
  <1>4. PortInv(ataManager.dma_port_address)
    BY <1>3 DEF PortInv
  <1>5. ataManager = [dma_port_address |-> ataManager.dma_port_address,
                      dma_mmio_address |-> ataManager.dma_mmio_address,
                      ataDisks |-> ataManager.ataDisks]
    BY <1>3
  <1>6. cards \in Seq(Started) /\ looked \in (Nat \ {0}) \X Nat
    BY <1>3
  <1>. QED
    BY <1>2, <1>3, <1>4, <1>5, <1>6 DEF DevicesInv, Phases

\* Whatever is plugged in where: the list of the PCI service has every function that
\* answers once; the cards e1000Scan has started are those it has come past, each
\* once and allowed to use the bus; the disks are the ATA drives, and a port given
\* for bus mastering is that of a disk controller.
THEOREM DevicesInvariant == DevicesSpec => []DevicesInv
  <1>1. (\E b \in Populations, d \in Cabling : DevicesInit(b, d)) => DevicesInv
    BY DevicesStart
  <1>2. DevicesInv /\ [DevicesNext]_deviceVars => DevicesInv'
    BY CollectKeeps, IdentifyKeeps, DetectKeeps, ScanKeeps, NextModelKeeps,
       ScannedKeeps
       DEF DevicesNext
  <1>. QED
    BY <1>1, <1>2, PTL DEF DevicesSpec

\* The boot that gets past e1000Scan has started every card of a known model once.
LEMMA KnownOnce ==
  ASSUME DevicesInv, phase = "done", NEW s \in 1..Slots, NEW times,
         times = Cardinality({i \in DOMAIN cards : cards[i].slot = s})
  PROVE  IF bus[s].vend_id = "INTEL_VEND"
            /\ \E i \in DOMAIN e1000_models : e1000_models[i] = bus[s].dev_id
         THEN times = 1 /\ "master" \in bus[s].config["command"].low
         ELSE times = 0
  <1>1. /\ bus \in [1..Slots -> PciFunction \cup {Absent}] /\ Lists(Devs) /\ CardsInv
        /\ looked[1] > Len(e1000_models) /\ cards \in Seq(Started)
    BY DEF DevicesInv
  <1>2. DOMAIN cards = 1..Len(cards) /\ DOMAIN e1000_models = 1..Len(e1000_models)
    BY <1>1, DevicesAssumption
  <1>3. PICK devs : devs = Devs
    OBVIOUS
  <1>4. PICK at : at = {i \in 1..Len(cards) : cards[i].slot = s}
    OBVIOUS
  <1>5. times = Cardinality(at)
    BY <1>2, <1>4
  <1>6. CASE bus[s].vend_id = "INTEL_VEND"
             /\ \E i \in DOMAIN e1000_models : e1000_models[i] = bus[s].dev_id
    <2>1. PICK i \in 1..Len(e1000_models) : e1000_models[i] = bus[s].dev_id
      BY <1>2, <1>6
    <2>2. bus[s] # Absent
      <3>1. Absent.vend_id = "0xFFFF"
        BY DEF Absent
      <3>. QED
        BY <1>6, <3>1
    <2>3. PICK e \in 1..Len(devs) : devs[e] = s
      BY <1>1, <1>3, <2>2 DEF Lists
    <2>4. e \in Matching(e1000_models[i])
      BY <1>3, <1>6, <2>1, <2>3 DEF Matching, Devs
    <2>5. Past(e)
      <3>1. i < looked[1]
        BY <1>1, <2>1, LookedTyped
      <3>. QED
        BY <2>4, <3>1 DEF Past
    <2>6. PICK c \in 1..Len(cards) : cards[c].slot = s
      BY <1>1, <1>3, <2>3, <2>5 DEF CardsInv
    <2>7. at = {c}
      <3>1. \A a \in at : a = c
        BY <1>1, <1>4, <2>6 DEF CardsInv
      <3>. QED
        BY <1>4, <2>6, <3>1
    <2>8. times = 1
      BY <1>5, <2>7, FS_Singleton
    <2>9. "master" \in bus[s].config["command"].low
      BY <1>1, <2>6 DEF CardsInv
    <2>. QED
      BY <1>6, <2>8, <2>9
  <1>7. CASE ~(bus[s].vend_id = "INTEL_VEND"
               /\ \E i \in DOMAIN e1000_models : e1000_models[i] = bus[s].dev_id)
    <2>1. ASSUME NEW c \in at PROVE FALSE
      <3>1. PICK e \in 1..Len(devs) : Past(e) /\ cards[c].slot = devs[e]
        BY <1>1, <1>3, <1>4 DEF CardsInv
      <3>2. PICK i \in 1..Len(e1000_models) : e \in Matching(e1000_models[i])
        BY <3>1 DEF Past
      <3>3. devs[e] = s
        BY <1>4, <3>1
      <3>4. bus[s].vend_id = "INTEL_VEND" /\ bus[s].dev_id = e1000_models[i]
        BY <1>3, <3>2, <3>3 DEF Matching, Devs
      <3>. QED
        BY <1>2, <1>7, <3>4
    <2>2. at = {}
      BY <2>1
    <2>3. times = 0
      BY <1>5, <2>2, FS_EmptySet
    <2>. QED
      BY <1>7, <2>3
  <1>. QED
    BY <1>6, <1>7

\* Every boot that gets past e1000Scan has its devices ready: a driver for every
\* known network card, once, a disk for every ATA drive, and no port of bus mastering
\* but a disk controller's.
THEOREM DevicesAreReady == DevicesSpec => []DevicesReady
  <1>1. ASSUME DevicesInv PROVE DevicesReady
    <2>1. SUFFICES ASSUME phase = "done" PROVE DevicesReady
      BY DEF DevicesReady
    <2>2. ASSUME NEW i \in 1..4
          PROVE  LET made == ataManager.ataDisks[i]
                 IN  /\ (made # <<>>) <=> (drives[Places[i]] = "ata")
                     /\ (made # <<>> /\ made[1].dma_port_address # NULL) =>
                           bus[made[1].dma_port_address].class = "ide"
      <3>1. PICK made : made = ataManager.ataDisks[i]
        OBVIOUS
      <3>2. made = IF drives[Places[i]] = "ata" THEN <<initATADisk(Places[i])>> ELSE <<>>
        BY <1>1, <2>1, <3>1 DEF DevicesInv, DisksInv
      <3>3. CASE drives[Places[i]] = "ata"
        <4>1. PICK p : p = ataManager.dma_port_address /\ PortInv(p)
          BY <1>1 DEF DevicesInv
        <4>2. PICK x : x = initATADisk(Places[i])
          OBVIOUS
        <4>3. x.dma_port_address = p
          BY <4>1, <4>2 DEF initATADisk
        <4>4. made = <<x>>
          BY <3>2, <3>3, <4>2
        <4>5. made # <<>> /\ made[1] = x
          BY <4>4
        <4>. QED
          BY <3>1, <3>3, <4>1, <4>3, <4>5 DEF PortInv
      <3>4. CASE drives[Places[i]] # "ata"
        BY <3>1, <3>2, <3>4
      <3>. QED
        BY <3>3, <3>4
    <2>3. \A s \in 1..Slots :
            LET times == Cardinality({i \in DOMAIN cards : cards[i].slot = s})
            IN  IF bus[s].vend_id = "INTEL_VEND"
                   /\ \E i \in DOMAIN e1000_models : e1000_models[i] = bus[s].dev_id
                THEN times = 1 /\ "master" \in bus[s].config["command"].low
                ELSE times = 0
      BY <1>1, <2>1, KnownOnce
    <2>. QED
      BY <2>2, <2>3 DEF DevicesReady
  <1>. QED
    BY <1>1, DevicesInvariant, PTL

=============================================================================
