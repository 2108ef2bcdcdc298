-------------------------------- MODULE E1000 --------------------------------
(***************************************************************************)
(* The network card driver (devices/network/E1000.c): e1000SendPacket, run *)
(* by several cores under its spinlock, and e1000InterruptHandler, run by  *)
(* the core the card interrupts, with e1000HandleReceive and the protocol  *)
(* handlers it calls (Ethernet.c, ARP.c, IP.c, ICMP.c), against the card,  *)
(* which reads and writes the two rings of descriptors on its own.         *)
(*                                                                         *)
(* An ARP request or an ICMP echo is turned into its reply in the receive  *)
(* buffer itself, and sent from there.  The card's steps are external: it  *)
(* moves the heads, the driver moves the tails.                            *)
(***************************************************************************)
EXTENDS Integers

CONSTANTS Senders,  \* cores 1 and 2, which send from their loops
          Isr,      \* core 0, which takes the card's interrupt
          NoCore, None,
          RxDesc,   \* E1000_NUM_RX_DESC
          TxDesc,   \* E1000_NUM_TX_DESC
          MaxIn,    \* bound on the packets that arrive
          LinkChanges  \* whether the link goes up and down

ASSUME RingAssumption == /\ RxDesc \in Nat /\ RxDesc > 1
                         /\ TxDesc \in Nat /\ TxDesc > 2
                         /\ MaxIn \in Nat /\ LinkChanges \in BOOLEAN
                         /\ Isr \notin Senders
                         /\ NoCore \notin Senders \cup {Isr}
                         /\ None \notin Nat

Cores == Senders \cup {Isr}
Rx == 0 .. RxDesc - 1
Tx == 0 .. TxDesc - 1
Packet == [kind : {"in", "reply", "out"}, id : 0 .. MaxIn]
In(n) == [kind |-> "in", id |-> n]
Reply(p) == [kind |-> "reply", id |-> p.id]
Out == [kind |-> "out", id |-> 0]

\* What a transmit descriptor points to: receive buffer rx, or memory of the
\* sender's own (rx = None).  data is what the sender put there; it is no
\* part of the descriptor, and forgotten once the card has sent it.
Data == [rx : Rx \cup {None}, data : Packet]

VARIABLES tx_cur, rx_cur, old_cur,
          tx_descs,  \* per descriptor: Data and the status bit dd
          rx_descs,  \* per descriptor: the status bit dd
          rxbuf,     \* the receive buffers
          owner,     \* holder of the send lock
          pc,        \* per core: its label
          req,       \* per core: what it sends
          rx_old,    \* old_cur of e1000HandleReceive
          TDH, TDT, RDH, RDT,  \* heads and tails, registers of the card
          ICR,       \* causes: "rx" (0x10, 0x80), "lsc" (0x04), "tx" (0x01)
          irq,       \* an interrupt is pending at core 0
          txstep, rxstep,      \* what the card has still to do
          arrived, processed,  \* history: number of packets
          alarm                \* "buffer overflow" was printed

txvars == <<tx_cur, old_cur, tx_descs, TDT>>
cardtx == <<TDH, txstep>>
rxvars == <<rx_cur, rx_old, rx_descs, rxbuf, RDT, processed>>
cardrx == <<RDH, rxstep, arrived>>
vars == <<txvars, cardtx, rxvars, cardrx, owner, pc, req, ICR, irq, alarm>>

Lock == INSTANCE Mutex

Goto(c, label) == pc' = [pc EXCEPT ![c] = label]

\* e1000RXInit: all descriptors but one are the card's.
RXInit == /\ rx_descs = [d \in Rx |-> FALSE]
          /\ rxbuf = [d \in Rx |-> Out]
          /\ RDH = 0 /\ RDT = RxDesc - 1
          /\ rx_cur = 0 /\ rx_old = 0

\* e1000TXInit: nothing to send.
TXInit == /\ tx_descs = [d \in Tx |-> [rx |-> None, data |-> Out, dd |-> TRUE]]
          /\ TDH = 0 /\ TDT = 0
          /\ tx_cur = 0 /\ old_cur = 0

Init == /\ RXInit /\ TXInit
        /\ Lock!Init
        /\ pc = [c \in Cores |-> "idle"]
        /\ req = [c \in Cores |-> [rx |-> None, data |-> Out]]
        /\ ICR = {} /\ irq = FALSE
        /\ txstep = {} /\ rxstep = "idle"
        /\ arrived = 0 /\ processed = 0 /\ alarm = FALSE

-----------------------------------------------------------------------------
(* e1000SendPacket                                                         *)

\* sendIPIoE_Packet builds a packet in memory of its own.
Call(c) == /\ c \in Senders /\ pc[c] = "idle"
           /\ req' = [req EXCEPT ![c] = [rx |-> None, data |-> Out]]
           /\ Goto(c, "lock")
           /\ UNCHANGED <<txvars, cardtx, rxvars, cardrx, owner, ICR, irq, alarm>>

Acquire(c) == /\ pc[c] = "lock"
              /\ Lock!Acquire(c)
              /\ Goto(c, "fill")
              /\ UNCHANGED <<txvars, cardtx, rxvars, cardrx, req, ICR, irq, alarm>>

\* The descriptor at tx_cur: address, length, command, status = 0
Fill(c) == /\ pc[c] = "fill"
           /\ tx_descs' = [tx_descs EXCEPT ![tx_cur] =
                             [rx |-> req[c].rx, data |-> req[c].data,
                              dd |-> FALSE]]
           /\ Goto(c, "head")
           /\ UNCHANGED <<tx_cur, old_cur, TDT, cardtx, rxvars, cardrx, owner,
                          req, ICR, irq, alarm>>

\* The head is read to tell whether the ring is full, and the answer printed.
ReadHead(c) == /\ pc[c] = "head"
               /\ old_cur' = tx_cur
               /\ alarm' = (alarm \/ tx_cur + 1 = TDH)
               /\ Goto(c, "tail")
               /\ UNCHANGED <<tx_cur, tx_descs, TDT, cardtx, rxvars, cardrx,
                              owner, req, ICR, irq>>

\* Mutant: the card is not told of the new tail.
SetTailQuietly(c) == /\ pc[c] = "tail"
                     /\ tx_cur' = (tx_cur + 1) % TxDesc
                     /\ Goto(c, "poll")
                     /\ UNCHANGED <<old_cur, tx_descs, TDT, cardtx, rxvars,
                                    cardrx, owner, req, ICR, irq, alarm>>

\* The card may send: REG_TXDESCTAIL = tx_cur.
SetTail(c) == /\ pc[c] = "tail"
              /\ tx_cur' = (tx_cur + 1) % TxDesc
              /\ TDT' = (tx_cur + 1) % TxDesc
              /\ Goto(c, "poll")
              /\ UNCHANGED <<old_cur, tx_descs, cardtx, rxvars, cardrx, owner,
                             req, ICR, irq, alarm>>

\* Mutant: return without waiting for the card.
PollNever(c) == /\ pc[c] = "poll"
                /\ Lock!Release(c)
                /\ Goto(c, IF c = Isr THEN "return" ELSE "idle")
                /\ UNCHANGED <<txvars, cardtx, rxvars, cardrx, req, ICR, irq,
                               alarm>>

\* Wait for the status, unlock and return.
Poll(c) == /\ pc[c] = "poll" /\ tx_descs[old_cur].dd
           /\ Lock!Release(c)
           /\ Goto(c, IF c = Isr THEN "return" ELSE "idle")
           /\ UNCHANGED <<txvars, cardtx, rxvars, cardrx, req, ICR, irq, alarm>>

-----------------------------------------------------------------------------
(* e1000InterruptHandler and e1000HandleReceive, on core 0                 *)

TakeInterrupt == /\ pc[Isr] = "idle" /\ irq
                 /\ irq' = FALSE
                 /\ Goto(Isr, "icr")
                 /\ UNCHANGED <<txvars, cardtx, rxvars, cardrx, owner, req, ICR,
                                alarm>>

\* Reading the causes clears them.  A change of the link is served alone, by
\* e1000StartLink, which is given a NetworkDriver where it expects an E1000:
\* what it then writes, and where, is not modelled.  A transmission is not
\* served at all.
ReadICR == /\ pc[Isr] = "icr"
           /\ ICR' = {}
           /\ Goto(Isr, IF "rx" \in ICR /\ "lsc" \notin ICR THEN "check"
                        ELSE "clear")
           /\ UNCHANGED <<txvars, cardtx, rxvars, cardrx, owner, req, irq, alarm>>

\* Nothing has come if the head is still at rx_cur.
CheckHead == /\ pc[Isr] = "check"
             /\ Goto(Isr, IF RDH = rx_cur THEN "clear" ELSE "loop")
             /\ UNCHANGED <<txvars, cardtx, rxvars, cardrx, owner, req, ICR, irq,
                            alarm>>

\* Mutant: the status of the descriptor is left set.
TakePacketUncleared == /\ pc[Isr] = "loop" /\ rx_descs[rx_cur]
                       /\ rx_old' = rx_cur
                       /\ rx_cur' = (rx_cur + 1) % RxDesc
                       /\ Goto(Isr, "process")
                       /\ UNCHANGED <<rx_descs, rxbuf, RDT, processed, txvars,
                                      cardtx, cardrx, owner, req, ICR, irq,
                                      alarm>>

TakePacket == /\ pc[Isr] = "loop" /\ rx_descs[rx_cur]
              /\ rx_descs' = [rx_descs EXCEPT ![rx_cur] = FALSE]
              /\ rx_old' = rx_cur
              /\ rx_cur' = (rx_cur + 1) % RxDesc
              /\ Goto(Isr, "process")
              /\ UNCHANGED <<rxbuf, RDT, processed, txvars, cardtx, cardrx,
                             owner, req, ICR, irq, alarm>>

LoopEnds == /\ pc[Isr] = "loop" /\ ~rx_descs[rx_cur]
            /\ Goto(Isr, "clear")
            /\ UNCHANGED <<txvars, cardtx, rxvars, cardrx, owner, req, ICR, irq,
                           alarm>>

\* processEthernetPacket: an ARP request or an ICMP echo becomes its reply in
\* place and is sent; ...
Answer == /\ pc[Isr] = "process"
          /\ processed' = processed + 1
          /\ rxbuf' = [rxbuf EXCEPT ![rx_old] = Reply(rxbuf[rx_old])]
          /\ req' = [req EXCEPT ![Isr] =
                       [rx |-> rx_old, data |-> Reply(rxbuf[rx_old])]]
          /\ Goto(Isr, "lock")
          /\ UNCHANGED <<rx_cur, rx_old, rx_descs, RDT, txvars, cardtx, cardrx,
                         owner, ICR, irq, alarm>>

\* ... anything else is copied (processIPIOEPacket) or dropped.
Consume == /\ pc[Isr] = "process"
           /\ processed' = processed + 1
           /\ Goto(Isr, "return")
           /\ UNCHANGED <<rx_cur, rx_old, rx_descs, rxbuf, RDT, txvars, cardtx,
                          cardrx, owner, req, ICR, irq, alarm>>

\* The descriptor goes back to the card: REG_RXDESCTAIL = old_cur.
ReturnDesc == /\ pc[Isr] = "return"
              /\ RDT' = rx_old
              /\ Goto(Isr, "loop")
              /\ UNCHANGED <<rx_cur, rx_old, rx_descs, rxbuf, processed, txvars,
                             cardtx, cardrx, owner, req, ICR, irq, alarm>>

\* All causes are cleared again, and the interrupt ends.
ClearICR == /\ pc[Isr] = "clear"
            /\ ICR' = {}
            /\ Goto(Isr, "idle")
            /\ UNCHANGED <<txvars, cardtx, rxvars, cardrx, owner, req, irq, alarm>>

-----------------------------------------------------------------------------
(* The card                                                                *)

Raise(cause) == /\ ICR' = ICR \cup {cause}
                /\ irq' = (irq \/ ICR = {})

\* A packet comes while the card has a descriptor (otherwise it is lost).
CardReceive == /\ rxstep = "idle" /\ RDH # RDT
               /\ arrived < MaxIn
               /\ arrived' = arrived + 1
               /\ rxbuf' = [rxbuf EXCEPT ![RDH] = In(arrived + 1)]
               /\ rx_descs' = [rx_descs EXCEPT ![RDH] = TRUE]
               /\ rxstep' = "written"
               /\ UNCHANGED <<rx_cur, rx_old, RDT, processed, RDH, txvars,
                              cardtx, owner, pc, req, ICR, irq, alarm>>

CardRaise == /\ rxstep = "written"
             /\ RDH' = (RDH + 1) % RxDesc
             /\ rxstep' = "idle"
             /\ Raise("rx")
             /\ UNCHANGED <<arrived, txvars, cardtx, rxvars, owner, pc,
                            req, alarm>>

CardLink == /\ LinkChanges /\ "lsc" \notin ICR
            /\ Raise("lsc")
            /\ UNCHANGED <<cardrx, txvars, cardtx, rxvars, owner, pc, req, alarm>>

\* A descriptor is read and its packet sent; then its status is written and
\* the head moved, in either order.
CardTransmit == /\ txstep = {} /\ TDH # TDT
                /\ txstep' = {"dd", "head"}
                /\ tx_descs' = [tx_descs EXCEPT ![TDH].data = Out]
                /\ UNCHANGED <<TDH, tx_cur, old_cur, TDT, rxvars, cardrx, owner, pc, req, ICR,
                               irq, alarm>>

InWork == IF "head" \in txstep THEN TDH ELSE (TDH + TxDesc - 1) % TxDesc

CardWriteBack == /\ "dd" \in txstep
                 /\ tx_descs' = [tx_descs EXCEPT ![InWork].dd = TRUE]
                 /\ txstep' = txstep \ {"dd"}
                 /\ Raise("tx")
                 /\ UNCHANGED <<TDH, tx_cur, old_cur, TDT, rxvars, cardrx, owner,
                                pc, req, alarm>>

CardAdvance == /\ "head" \in txstep
               /\ TDH' = (TDH + 1) % TxDesc
               /\ txstep' = txstep \ {"head"}
               /\ UNCHANGED <<txvars, rxvars, cardrx, owner, pc, req, ICR, irq,
                              alarm>>

-----------------------------------------------------------------------------
Sending(c) == Fill(c) \/ ReadHead(c) \/ SetTail(c) \/ Poll(c)
Handling == \/ TakeInterrupt \/ ReadICR \/ CheckHead \/ TakePacket \/ LoopEnds
            \/ Answer \/ Consume \/ ReturnDesc \/ ClearICR
CardTx == CardTransmit \/ CardWriteBack \/ CardAdvance

Next == \/ \E c \in Cores : Call(c) \/ Acquire(c) \/ Sending(c)
        \/ Handling
        \/ CardReceive \/ CardRaise \/ CardLink \/ CardTx

Spec == Init /\ [][Next]_vars

\* The cores keep executing, core 0 takes its interrupts, the card works.
FairSpec == /\ Spec
            /\ \A c \in Cores : WF_vars(Sending(c))
            /\ WF_vars(Acquire(Isr)) /\ WF_vars(Handling)
            /\ WF_vars(CardRaise) /\ WF_vars(CardTx)

-----------------------------------------------------------------------------
(* Types: heads, tails and indices stay inside their rings.                *)
TypeOK ==
  /\ {tx_cur, old_cur, TDH, TDT} \subseteq Tx
  /\ {rx_cur, rx_old, RDH, RDT} \subseteq Rx
  /\ tx_descs \in [Tx -> [rx : Rx \cup {None}, data : Packet, dd : BOOLEAN]]
  /\ rx_descs \in [Rx -> BOOLEAN] /\ rxbuf \in [Rx -> Packet]
  /\ owner \in Cores \cup {NoCore}
  /\ pc \in [Cores -> {"idle", "lock", "fill", "head", "tail", "poll", "icr",
                       "check", "loop", "process", "return", "clear"}]
  /\ req \in [Cores -> Data]
  /\ ICR \subseteq {"rx", "lsc", "tx"} /\ irq \in BOOLEAN /\ alarm \in BOOLEAN
  /\ txstep \subseteq {"dd", "head"} /\ rxstep \in {"idle", "written"}
  /\ arrived \in 0 .. MaxIn /\ processed \in Nat

\* The packet in a transmit descriptor is not sent yet.
Pending(d) == /\ txstep = {}
              /\ IF TDH <= TDT THEN TDH <= d /\ d < TDT
                 ELSE TDH <= d \/ d < TDT

(* What goes out is what was handed to e1000SendPacket: as long as the     *)
(* card has not sent a packet, its buffer, which may be a receive buffer,  *)
(* is not written to, and when the lock is free everything has been sent;  *)
(* so the ring, written without a look at who owns its descriptors, never  *)
(* overflows and "E1000 buffer overflow" is never printed.                 *)
SentIntact == /\ ~alarm
              /\ \A d \in Tx : Pending(d) =>
                   /\ owner # NoCore
                   /\ tx_descs[d].rx # None =>
                        rxbuf[tx_descs[d].rx] = tx_descs[d].data

(* No packet that the card has stored is lost, overwritten or handled out  *)
(* of order: the one in hand is the next that arrived, and those after it  *)
(* follow it in the ring.                                                  *)
ReceivedInOrder ==
  LET taken == IF pc[Isr] = "process" THEN 1 ELSE 0
      at(n) == (rx_cur + (n - processed - taken - 1)) % RxDesc
  IN /\ pc[Isr] = "process" => rxbuf[rx_old] = In(processed + 1)
     /\ \A n \in processed + taken + 1 .. arrived :
          rx_descs[at(n)] /\ rxbuf[at(n)] = In(n)

(* What makes the two inductive.  The lock is held from the descriptor to  *)
(* the end of the wait for the card; ...                                   *)
InLock == {"fill", "head", "tail", "poll"}

LockInv == \A c \in Cores : pc[c] \in InLock <=> owner = c

TxNext(i) == IF i = TxDesc - 1 THEN 0 ELSE i + 1

\* The card has sent everything; its head may be one behind.
AllSent == \/ txstep = {} /\ TDH = TDT
           \/ txstep = {"head"} /\ TxNext(TDH) = TDT

\* The card has not read the last descriptor.
LastQueued == \/ txstep = {} /\ TDH = old_cur
              \/ txstep = {"head"} /\ TxNext(TDH) = old_cur

Carries(d, r) == /\ tx_descs[d].rx = r.rx /\ tx_descs[d].data = r.data
                 /\ ~tx_descs[d].dd

(* ... the ring never holds more than the packet of the lock's holder: it  *)
(* is queued, or being sent, or sent and its status written; ...           *)
TxInv ==
  /\ ~alarm /\ TDT = tx_cur
  /\ (\A c \in Cores : pc[c] # "poll") => AllSent
  /\ \A c \in Cores :
       /\ pc[c] \in {"head", "tail"} => Carries(tx_cur, req[c])
       /\ pc[c] = "tail" => old_cur = tx_cur
       /\ pc[c] = "poll" =>
            /\ TDT = TxNext(old_cur)
            /\ \/ LastQueued /\ Carries(old_cur, req[c])
               \/ /\ "dd" \in txstep /\ ~tx_descs[old_cur].dd
                  /\ TDH = IF "head" \in txstep THEN old_cur ELSE TDT
               \/ AllSent /\ tx_descs[old_cur].dd

(* ... counted from rx_cur, the stored packets come first and the          *)
(* descriptor in hand, which the card may not use yet, comes last; ...     *)
RxAt(k) == IF rx_cur + k < RxDesc THEN rx_cur + k ELSE rx_cur + k - RxDesc

InHand == pc[Isr] \in {"process", "lock", "return"} \cup InLock
Taken == processed + IF pc[Isr] = "process" THEN 1 ELSE 0
Stored == arrived - Taken

RxInv ==
  /\ Stored \in 0 .. RxDesc - (IF InHand THEN 2 ELSE 1)
  /\ RDT = RxAt(RxDesc - IF InHand THEN 2 ELSE 1)
  /\ InHand => rx_old = RxAt(RxDesc - 1)
  /\ rxstep = "idle" => RDH = RxAt(Stored)
  /\ rxstep = "written" => RDH = RxAt((IF Stored = 0 THEN RxDesc ELSE Stored) - 1)
  /\ \A k \in 0 .. RxDesc - 1 :
       /\ rx_descs[RxAt(k)] <=> k < Stored
       /\ k < Stored => rxbuf[RxAt(k)] = In(Taken + 1 + k)
  /\ pc[Isr] = "process" => rxbuf[rx_old] = In(processed + 1)

(* ... and a reply is sent from the descriptor in hand, other packets from *)
(* memory that is not the card's.                                          *)
ReplyInv ==
  /\ \A c \in Senders : req[c].rx = None
  /\ pc[Isr] \in {"lock"} \cup InLock =>
       req[Isr].rx = rx_old /\ req[Isr].data = rxbuf[rx_old]

(* A packet that has the lock gets through e1000SendPacket.                *)
SendReturns == \A c \in Cores :
                 (pc[c] = "fill") ~> (pc[c] \in {"idle", "return"})

=============================================================================
