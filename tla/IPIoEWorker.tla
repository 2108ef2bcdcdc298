----------------------------- MODULE IPIoEWorker ----------------------------
(***************************************************************************)
(* The inbound message queue of one core (struct Worker of                 *)
(* devices/network/IPIoE.c) between the two parties that use it: the core  *)
(* that takes the network card's interrupt and runs processIPIOEPacket,    *)
(* and the core that owns the queue and runs its loop in KernelMain.c.     *)
(* The owner is core 2, which serves requests, or (requester) core 1,      *)
(* which sends a request and waits for the reply.                          *)
(*                                                                         *)
(* The queue is shared without a lock: Worker.lock is initialised and      *)
(* never taken.  The size is loaded and stored in separate steps.  A       *)
(* message has two parts, the header and addresses, and the data, copied   *)
(* one after the other.  Every packet carries messageID 1, so the test of  *)
(* the id in wait_IPIoE_messageId tells a used slot from a fresh one.      *)
(* is_running is written and read by nobody, and is left out.              *)
(*                                                                         *)
(* Whose flag fired_interrupts[IPIOE_IPI] is set, cleared and polled is    *)
(* decided by kernel.apicManager.returns.core_id, one variable in which    *)
(* every core leaves its id: a core can load another one's.  All that may  *)
(* then happen to this queue is modelled, and misread remembers that it    *)
(* did.  The other shared variable of an interrupt, its context, is the    *)
(* subject of KernelStart and left out here.                               *)
(***************************************************************************)
EXTENDS Naturals

CONSTANTS Msgs, NoMsg,
          QueueLength,  \* IPIoE_QUEUE_LENGTH
          Word,         \* values of a uint16_t: 2^16 in the code
          MaxOwed       \* bound on the replies under way

ASSUME SizeAssumption == /\ QueueLength \in Nat \ {0}
                         /\ Word \in Nat /\ Word > QueueLength
                         /\ MaxOwed \in Nat
                         /\ NoMsg \notin Msgs  \* a fresh slot has id 0

VARIABLES queue, queue_size, queue_index, queue_end,
          fired,   \* fired_interrupts[IPIOE_IPI] of the owner
          irr,     \* the IPI is pending in the owner's local APIC
          iflag,   \* the owner's interrupt flag
          ppc, packet, slot, preg,  \* processIPIOEPacket: label, locals
          cpc, entry, creg,         \* the owner: label, copied entry, local
          requester,  \* is the owner core 1?
          owed,    \* replies the network will still bring to the requester
          masked,  \* history: was iflag off when this round began?
          own,     \* does the wait poll the owner's own flag?
          misread  \* history: has a core used another core's id?

size == <<queue_size>>
processor == <<queue, queue_end, ppc, packet, slot, preg>>
owner == <<queue_index, cpc, entry, creg, iflag, masked>>
ids == <<own, misread>>
queuevars == <<queue, queue_size, queue_index, queue_end, fired, irr, iflag,
               ppc, packet, slot, preg, cpc, entry, creg, owed, masked, own,
               misread>>
vars == <<queuevars, requester>>

Slots == 0 .. QueueLength - 1
Part == Msgs \cup {NoMsg}
Entry == [head : Part, body : Part]
Empty == [head |-> NoMsg, body |-> NoMsg]

\* initialize_apic; an application core enters its loop with interrupts on
Init == /\ queue = [i \in Slots |-> Empty]
        /\ queue_size = 0 /\ queue_index = 0 /\ queue_end = 0
        /\ fired = FALSE /\ irr = FALSE /\ iflag = TRUE /\ masked = FALSE
        /\ ppc = "idle" /\ packet = NoMsg /\ slot = 0 /\ preg = 0
        /\ cpc = "top" /\ entry = Empty /\ creg = 0
        /\ owed = 0 /\ requester \in BOOLEAN
        /\ own = TRUE /\ misread = FALSE

\* returns.core_id is loaded: it holds the core's own id or another core's.
Loads(mine) == misread' = (misread \/ ~mine)

-----------------------------------------------------------------------------
(* processIPIOEPacket, on the core of the network card.                    *)

\* The network brings requests at any time, replies only to requests.
Arrives == IF requester THEN owed > 0 /\ owed' = owed - 1
           ELSE UNCHANGED owed

\* The queue is full: the packet is dropped.
Drop == /\ ppc = "idle" /\ queue_size = QueueLength
        /\ Arrives
        /\ UNCHANGED <<processor, size, owner, fired, irr, ids>>

\* The queue is not full: take the slot and move queue_end.
Claim == /\ ppc = "idle" /\ queue_size # QueueLength
         /\ Arrives
         /\ packet' \in Msgs
         /\ slot' = queue_end
         /\ queue_end' = (queue_end + 1) % QueueLength
         /\ ppc' = "load"
         /\ UNCHANGED <<queue, preg, size, owner, fired, irr, ids>>

\* queue_size++, before the slot is written
LoadSize == /\ ppc = "load"
            /\ preg' = queue_size
            /\ ppc' = "store"
            /\ UNCHANGED <<queue, queue_end, packet, slot, size, owner, fired,
                           irr, owed, ids>>

StoreSize == /\ ppc = "store"
             /\ queue_size' = (preg + 1) % Word
             /\ ppc' = "head"
             /\ UNCHANGED <<queue, queue_end, packet, slot, preg, owner, fired,
                            irr, owed, ids>>

WriteHead == /\ ppc = "head"
             /\ queue' = [queue EXCEPT ![slot].head = packet]
             /\ ppc' = "body"
             /\ UNCHANGED <<queue_end, packet, slot, preg, size, owner, fired,
                            irr, owed, ids>>

\* Mutant: the IPI goes out before the data is copied.
WriteBodyLate == /\ ppc = "body"
                 /\ irr' = TRUE
                 /\ ppc' = "ipi"
                 /\ UNCHANGED <<queue, queue_end, packet, slot, preg, size,
                                owner, fired, owed, ids>>

WriteBody == /\ ppc = "body"
             /\ queue' = [queue EXCEPT ![slot].body = packet]
             /\ ppc' = "ipi"
             /\ UNCHANGED <<queue_end, packet, slot, preg, size, owner, fired,
                            irr, owed, ids>>

\* Mutant: the IPI is not sent for the last free slot.
SendIPISkips == /\ ppc = "ipi"
                /\ irr' = (irr \/ queue_size # QueueLength)
                /\ ppc' = "idle"
                /\ UNCHANGED <<queue, queue_end, packet, slot, preg, size,
                               owner, fired, owed, ids>>

\* SendFixedIPI to another core: pending IPIs of one vector are one.  If
\* cur_core_id was loaded as the destination's, only its flag is set.
SendIPI == \E mine \in BOOLEAN :
             /\ ppc = "ipi"
             /\ Loads(mine)
             /\ irr' = (irr \/ mine)
             /\ fired' = (fired \/ ~mine)
             /\ ppc' = "idle"
             /\ UNCHANGED <<queue, queue_end, packet, slot, preg, size, owner,
                            own, owed>>

-----------------------------------------------------------------------------
(* The owner of the queue.                                                 *)

Goto(label) == cpc' = label

\* Core 2: wait only when the queue is empty.
Test == /\ cpc = "top" /\ ~requester
        /\ Goto(IF queue_size = 0 THEN "clear" ELSE "copy")
        /\ masked' = ~iflag
        /\ UNCHANGED <<processor, size, queue_index, entry, creg, iflag, fired,
                       irr, owed, ids>>

\* Core 1: sendIPIoE_Packet, then wait whatever the queue holds.
Ask == /\ cpc = "top" /\ requester
       /\ owed < MaxOwed
       /\ owed' = owed + 1
       /\ Goto("clear")
       /\ masked' = ~iflag
       /\ UNCHANGED <<processor, size, queue_index, entry, creg, iflag, fired,
                      irr, ids>>

\* wait_IPIoE, wait_IPIoE_messageId: fired = 0 of the core whose id is
\* loaded ...
Clear == /\ cpc = "clear"
         /\ own' \in BOOLEAN
         /\ Loads(own')
         /\ fired' = (fired /\ ~own')
         /\ Goto("while")
         /\ UNCHANGED <<processor, size, queue_index, entry, creg, iflag, masked,
                        irr, owed>>

MustWait == ~fired \/ (requester /\ queue[0].head = NoMsg)

\* Mutant: hlt without the sti before it.
HaltMasked == /\ cpc = "while" /\ (own => MustWait)
              /\ Goto("halted")
              /\ UNCHANGED <<processor, size, queue_index, entry, creg, iflag,
                             masked, fired, irr, owed, ids>>

\* ... and while it must wait: sti; hlt.  The sti takes effect after the hlt.
\* What another core's flag and queue say is not known here.
Halt == /\ cpc = "while" /\ (own => MustWait)
        /\ iflag' = TRUE
        /\ Goto("halted")
        /\ UNCHANGED <<processor, size, queue_index, entry, creg, masked, fired,
                       irr, owed, ids>>

\* IdtHandler for the IPI, between any two instructions that allow it; it
\* ends a hlt, and sets the flag of the core whose id it loads.
Interrupt == \E mine \in BOOLEAN :
               /\ irr /\ iflag
               /\ irr' = FALSE
               /\ Loads(mine)
               /\ fired' = (fired \/ mine)
               /\ Goto(IF cpc = "halted" THEN "woken" ELSE cpc)
               /\ UNCHANGED <<processor, size, queue_index, entry, creg, iflag,
                              masked, own, owed>>

\* Another core loads the owner's id: its handler of an IPI sets the owner's
\* flag, its wait clears it.
OtherCore == /\ fired' \in BOOLEAN
             /\ Loads(FALSE)
             /\ UNCHANGED <<processor, size, owner, irr, owed, own>>

\* Any other interrupt ends the hlt too (pit_fire sends IPIs every tick).
OtherInterrupt == /\ cpc = "halted"
                  /\ Goto("woken")
                  /\ UNCHANGED <<processor, size, queue_index, entry, creg,
                                 iflag, masked, fired, irr, owed, ids>>

\* wbinvd; cli; sendAPICEOI
Cli == /\ cpc = "woken"
       /\ iflag' = FALSE
       /\ Goto("while")
       /\ UNCHANGED <<processor, size, queue_index, entry, creg, masked, fired,
                      irr, owed, ids>>

\* The loop ends: fired = 0 and return.
Leave == /\ cpc = "while" /\ (own => ~MustWait)
         /\ fired' = (fired /\ ~own)
         /\ Goto("copy")
         /\ UNCHANGED <<processor, size, queue_index, entry, creg, iflag, masked,
                        irr, owed, ids>>

\* workerDequeue: copy the two parts of the entry, with no test for an empty
\* queue, ...
CopyHead == /\ cpc = "copy"
            /\ entry' = [entry EXCEPT !.head = queue[queue_index].head]
            /\ Goto("data")
            /\ UNCHANGED <<processor, size, queue_index, creg, iflag, masked,
                           fired, irr, owed, ids>>

CopyBody == /\ cpc = "data"
            /\ entry' = [entry EXCEPT !.body = queue[queue_index].body]
            /\ Goto("advance")
            /\ UNCHANGED <<processor, size, queue_index, creg, iflag, masked,
                           fired, irr, owed, ids>>

\* ... move queue_index and load the size for queue_size--, ...
Advance == /\ cpc = "advance"
           /\ queue_index' = (queue_index + 1) % QueueLength
           /\ creg' = queue_size
           /\ Goto("decrement")
           /\ UNCHANGED <<processor, size, entry, iflag, masked, fired, irr,
                          owed, ids>>

\* ... and store it; then the message is dispatched and answered.
Decrement == /\ cpc = "decrement"
             /\ queue_size' = (creg + Word - 1) % Word
             /\ Goto("top")
             /\ UNCHANGED <<processor, queue_index, entry, creg, iflag, masked,
                            fired, irr, owed, ids>>

-----------------------------------------------------------------------------
Process == \/ Drop \/ Claim \/ LoadSize \/ StoreSize \/ WriteHead \/ WriteBody
           \/ SendIPI
Finish == LoadSize \/ StoreSize \/ WriteHead \/ WriteBody \/ SendIPI
Loop == \/ Test \/ Ask \/ Clear \/ Halt \/ Cli \/ Leave
        \/ CopyHead \/ CopyBody \/ Advance \/ Decrement

Next == /\ Process \/ Loop \/ Interrupt \/ OtherInterrupt \/ OtherCore
        /\ UNCHANGED requester

Spec == Init /\ [][Next]_vars

\* Both cores keep executing, and a pending interrupt is taken when the core
\* accepts interrupts again and again.
FairSpec == /\ Spec
            /\ WF_queuevars(Finish) /\ WF_queuevars(Loop)
            /\ SF_queuevars(Interrupt)

-----------------------------------------------------------------------------
(* Types: the indices stay inside the queue, the size inside a uint16_t.   *)
TypeOK ==
  /\ queue \in [Slots -> Entry]
  /\ queue_size \in 0 .. Word - 1 /\ preg \in 0 .. Word - 1
  /\ creg \in 0 .. Word - 1
  /\ queue_index \in Slots /\ queue_end \in Slots /\ slot \in Slots
  /\ fired \in BOOLEAN /\ irr \in BOOLEAN /\ iflag \in BOOLEAN
  /\ masked \in BOOLEAN /\ own \in BOOLEAN /\ misread \in BOOLEAN
  /\ ppc \in {"idle", "load", "store", "head", "body", "ipi"}
  /\ packet \in Part /\ entry \in Entry
  /\ cpc \in {"top", "clear", "while", "halted", "woken", "copy", "data",
              "advance", "decrement"}
  /\ owed \in 0 .. MaxOwed /\ requester \in BOOLEAN

Waiting == {"clear", "while", "halted", "woken"}

(* No wakeup is lost once the core runs with interrupts off: a core that   *)
(* sleeps in wait_IPIoE with no IPI pending and no packet half way through *)
(* processIPIOEPacket has nothing in its queue.  The IPI may come before   *)
(* the hlt, several IPIs may be one, other interrupts may end the hlt.     *)
(* This, like the properties below, is claimed until a core has used       *)
(* another one's id (misread): after that it is false of the code.         *)
WakeupKept == (~misread /\ masked /\ cpc = "halted" /\ ~irr /\ ppc = "idle")
                => queue_size = 0

(* What makes WakeupKept inductive for core 2: a waiting round that        *)
(* no IPI has reached, or will reach, still has the empty queue it was     *)
(* begun with.                                                             *)
WakeupInv ==
  ~misread =>
    /\ own
    /\ (iflag /\ masked) => cpc \in {"halted", "woken"}
    /\ (~iflag /\ cpc # "while") => ~fired
    /\ (cpc = "halted" /\ ~requester) => ~fired
    /\ (~requester /\ masked /\ cpc \in Waiting /\ ~fired /\ ~irr
          /\ ppc \in {"idle", "load", "store"}) => queue_size = 0

(* Core 1, which dequeues only after the IPI of its reply, never reaches   *)
(* workerDequeue with an empty queue, for which the function has no test.  *)
NoUnderflow == (~misread /\ requester /\ cpc \in {"copy", "data", "advance"})
                 => queue_size # 0

(* The entry core 1 copies is one message, not the header of one and the   *)
(* data of another or of none.                                             *)
Untorn == (~misread /\ requester /\ cpc = "advance")
            => entry.head = entry.body /\ entry.head # NoMsg

(* What makes the two inductive: core 1 has at most one request under way, *)
(* so its reply is on the network, being stored, or in the queue, and only *)
(* a reply in the queue can set fired.                                     *)
Behind == queue_end = (queue_index + 1) % QueueLength

Quiet == /\ ppc = "idle" /\ ~irr /\ ~fired
         /\ queue_size = 0 /\ queue_end = queue_index

Storing == /\ ppc # "idle" /\ ~irr /\ ~fired
           /\ packet \in Msgs /\ slot = queue_index /\ Behind
           /\ queue_size = IF ppc \in {"load", "store"} THEN 0 ELSE 1
           /\ ppc = "store" => preg = 0
           /\ ppc \in {"body", "ipi"} => queue[slot].head = packet
           /\ ppc = "ipi" => queue[slot].body = packet

Stored == /\ ppc = "idle" /\ ~(irr /\ fired)
          /\ queue_size = 1 /\ Behind
          /\ queue[queue_index].head \in Msgs
          /\ queue[queue_index].body = queue[queue_index].head

RequestInv ==
  (requester /\ ~misread) =>
    /\ own
    /\ cpc = "top" => Quiet /\ owed = 0
    /\ cpc \in Waiting => \/ Quiet /\ owed = 1
                          \/ (Storing \/ Stored) /\ owed = 0
    /\ cpc \in {"copy", "data", "advance"} =>
         Stored /\ ~irr /\ ~fired /\ owed = 0
    /\ cpc \in {"data", "advance"} => entry.head = queue[queue_index].head
    /\ cpc = "advance" => entry.body = queue[queue_index].body
    /\ cpc = "decrement" => /\ ppc = "idle" /\ ~irr /\ ~fired /\ owed = 0
                            /\ queue_size = 1 /\ creg = 1
                            /\ queue_end = queue_index

(* The same of core 2: it never dequeues from an empty queue.              *)
WorkerNoUnderflow == (~misread /\ ~requester
                        /\ cpc \in {"copy", "data", "advance"})
                       => queue_size # 0

(* A core that waits with a message in its queue comes to dequeue it.      *)
Answered == (masked /\ cpc \in Waiting /\ queue_size # 0)
              ~> (cpc = "copy" \/ misread)
=============================================================================
