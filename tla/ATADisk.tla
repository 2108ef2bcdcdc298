------------------------------- MODULE ATADisk -------------------------------
(***************************************************************************)
(* Transfers between memory and a disk by DMA (devices/ata/ATADisk.c,      *)
(* devices/ata/ATAManager.c): a request longer than a chunk is begun by    *)
(* readDMADisk or writeDMADisk and continued, chunk by chunk, by           *)
(* ataHandleInterrupt, on the same core, while read_nBlocks                *)
(* (memory/BlockService.c) or parseAFile (xml/XMLService.c) waits.         *)
(*                                                                         *)
(* A sector is a value.  The requester holds dmaBuffer.spinlock, so there  *)
(* is one request at a time.  Nothing in the kernel calls writeDMADisk;    *)
(* its caller here sets enabled as read_nBlocks does and waits with        *)
(* interrupts on.  write_done is never reset, so there is one write.       *)
(* The drive is external.                                                  *)
(***************************************************************************)
EXTENDS Integers

CONSTANTS DiskSize,  \* sectors of the disk
          Requests,  \* set of <<first sector, number of sectors>>
          Chunk,     \* DMA_READ_CHUNK, DMA_WRITE_CHUNK: 256 or 65534
          CountMod,  \* 2^8 or 2^16: the width of the count register(s)
          PrdMax,    \* sectors of a region of the PRD table: 128
          MaxFails   \* bound on commands that fail or get stuck

ASSUME DiskAssumption ==
  /\ DiskSize \in Nat /\ MaxFails \in Nat
  /\ PrdMax \in Nat \ {0} /\ Chunk \in Nat \ {0} /\ CountMod \in Nat
  /\ Chunk <= CountMod
  /\ Requests \subseteq (0 .. DiskSize) \X (Nat \ {0})
  \* The disk goes on for a chunk behind every request (see WriteServed).
  /\ \A r \in Requests : r[1] + r[2] + Chunk <= DiskSize

Sectors == 0 .. DiskSize - 1
Value == [from : {"disk", "user", "junk", "zero"}, n : Nat]
Old(s) == [from |-> "disk", n |-> s]
New(k) == [from |-> "user", n |-> k]
Junk == [from |-> "junk", n |-> 0]
Zero == [from |-> "zero", n |-> 0]
MinOf(a, b) == IF a < b THEN a ELSE b

VARIABLES disk, memory,  \* the disk; the DMA memory of the channel
          buffer,        \* the reader's buffer: a function on sector numbers
          read, enabled, write_done, current_address,  \* kernel.dmaBuffer
          current_read, total_read, target_read,
          current_write, total_write, target_write,
          prdt,          \* regions of memory: first sector, length, last one?
          dev, cmd,      \* the drive, and the command it was given
          irq14, bm,     \* IRQ14 is pending; bit 2 of BM0_STATUS
          flush,         \* FLUSH CACHE: under way, or its IRQ14 is pending
          iflag, fired,  \* core 0: interrupt flag, fired_interrupts[ATA_IPI]
          reqpc, hpc,    \* the request; the interrupt handler
          begun,         \* history: first sector of the request
          stale,         \* history: was a read begun before a flush was over?
          fails          \* commands that failed

device == <<disk, dev, cmd, irq14, bm, flush>>
reading == <<current_read, total_read, target_read>>
writing == <<current_write, total_write, target_write, write_done>>
request == <<read, enabled, current_address, begun, stale>>
core == <<iflag, fired, reqpc, hpc>>
diskVars == <<device, memory, buffer, reading, writing, request, prdt, core, fails>>

DiskInit == /\ disk = [s \in Sectors |-> Old(s)]
            /\ memory = [k \in 0 .. Chunk - 1 |-> Zero]
            /\ buffer = [k \in Sectors |-> Junk]
            /\ read = FALSE /\ enabled = FALSE /\ write_done = FALSE
            /\ current_address = 0 /\ begun = 0
            /\ current_read = 0 /\ total_read = 0 /\ target_read = 0
            /\ current_write = 0 /\ total_write = 0 /\ target_write = 0
            /\ prdt = {} /\ dev = "idle" /\ cmd = [to |-> "read", at |-> 0, count |-> 0]
            /\ irq14 = FALSE /\ bm = FALSE /\ flush = "none" /\ stale = FALSE
            /\ iflag \in BOOLEAN /\ fired = FALSE
            /\ reqpc = "idle" /\ hpc = "none" /\ fails = 0

-----------------------------------------------------------------------------
(* The requests                                                            *)

\* read_nBlocks, readDMADisk
BeginRead(a, n) ==
  /\ reqpc = "idle" /\ hpc = "none"
  /\ enabled' = TRUE /\ read' = TRUE
  /\ buffer' = [k \in Sectors |-> Junk]
  /\ current_address' = a /\ begun' = a
  /\ stale' = (stale \/ flush # "none")
  /\ current_read' = MinOf(n, Chunk) /\ total_read' = 0 /\ target_read' = n
  /\ reqpc' = "program"
  /\ UNCHANGED <<device, memory, writing, prdt, iflag, fired, hpc, fails>>

\* count sectors of the writer's buffer from total on; behind the end of the
\* buffer, at target, lies anything.
Copied(total, count, target) ==
  [k \in 0 .. Chunk - 1 |-> IF k >= count THEN Zero
                           ELSE IF total + k < target THEN New(total + k)
                           ELSE Junk]

\* writeDMADisk
BeginWrite(a, n) ==
  /\ reqpc = "idle" /\ hpc = "none" /\ ~write_done
  /\ enabled' = TRUE /\ read' = FALSE
  /\ current_address' = a /\ begun' = a
  /\ current_read' = 0 /\ total_read' = 0 /\ target_read' = 0
  /\ current_write' = MinOf(n, Chunk) /\ total_write' = 0 /\ target_write' = n
  /\ memory' = Copied(0, MinOf(n, Chunk), n)
  /\ reqpc' = "program"
  /\ UNCHANGED <<device, buffer, write_done, stale, prdt, iflag, fired, hpc,
                 fails>>

-----------------------------------------------------------------------------
(* readDMADiskSectors and writeDMADiskSectors, called by a request or, for *)
(* the chunks after the first, by the handler                              *)

At(label) == \/ hpc = "none" /\ reqpc = label
             \/ hpc = label

ContinueAt(label) == IF hpc = "none" THEN reqpc' = label /\ hpc' = hpc
                                     ELSE hpc' = label /\ reqpc' = reqpc

Regions(count) ==
  {[at |-> k * PrdMax, length |-> MinOf(PrdMax, count - k * PrdMax),
    last |-> count - k * PrdMax <= PrdMax] :
     k \in {j \in 0 .. count : j * PrdMax < count}}

\* The number of sectors a command asks for: 0 in the register is 2^w.
Asked(count) == IF count % CountMod = 0 THEN CountMod ELSE count % CountMod

\* Stop the bus master, fill the PRD table, clear the status bits, and, once
\* the drive is ready, write the registers and the command.  A read clears the
\* DMA memory first.
Program ==
  /\ At("program")
  /\ LET count == IF read THEN current_read ELSE current_write
     IN /\ prdt' = Regions(count)
        /\ IF flush = "busy"
           THEN UNCHANGED <<cmd, dev, reqpc, hpc>>
           ELSE /\ cmd' = [to |-> IF read THEN "read" ELSE "write",
                           at |-> current_address, count |-> Asked(count)]
                /\ dev' = "busy"
                /\ ContinueAt("poll")
  /\ memory' = IF read THEN [k \in 0 .. Chunk - 1 |-> Zero] ELSE memory
  /\ bm' = FALSE
  /\ UNCHANGED <<disk, irq14, flush, buffer, reading, writing, request, iflag, fired,
                 fails>>

\* DRQ: start the bus master and return.
Start ==
  /\ At("poll") /\ dev = "drq"
  /\ dev' = "moving"
  /\ IF hpc = "none" THEN reqpc' = (IF read THEN "clear" ELSE "writing")
                          /\ hpc' = hpc
                     ELSE hpc' = "none" /\ reqpc' = reqpc
  /\ UNCHANGED <<disk, cmd, irq14, bm, flush, memory, buffer, reading, writing,
                 request, prdt, iflag, fired, fails>>

\* An error ends a read in an endless loop; a write is tried again.
Fail == /\ At("poll") /\ dev = "err"
        /\ ContinueAt(IF read THEN "hung" ELSE "program")
        /\ UNCHANGED <<device, memory, buffer, reading, writing, request, prdt,
                       iflag, fired, fails>>

\* No answer, or status 0: tried again.
GiveUp == /\ At("poll") /\ dev = "busy" /\ fails < MaxFails
          /\ fails' = fails + 1
          /\ ContinueAt("program")
          /\ UNCHANGED <<device, memory, buffer, reading, writing, request,
                         prdt, iflag, fired>>

-----------------------------------------------------------------------------
(* ataHandleInterrupt                                                      *)

\* IRQ14 is taken; it also ends a hlt.
IrqTaken == /\ irq14 \/ flush = "irq"
            /\ hpc = "none" /\ (iflag \/ reqpc = "halt")
            /\ irq14' = FALSE
            /\ iflag' = TRUE
            /\ reqpc' = IF reqpc = "halt" THEN "woken" ELSE reqpc

FlushTaken == flush' = IF flush = "irq" THEN "none" ELSE flush

\* Not ours, or nothing was transferred
Ignore == /\ IrqTaken
          /\ ~enabled \/ ~bm \/ (~read /\ write_done)
          /\ FlushTaken
          /\ UNCHANGED <<disk, dev, cmd, bm, memory, buffer, reading, writing,
                         request, prdt, fired, hpc, fails>>

\* ataHandleReadInterrupt: a chunk is there ...
HandleRead ==
  /\ IrqTaken /\ FlushTaken /\ enabled /\ bm /\ read
  /\ buffer' = [k \in Sectors |->
                  IF k \in total_read .. total_read + current_read - 1
                  THEN memory[k - total_read] ELSE buffer[k]]
  /\ total_read' = total_read + current_read
  /\ UNCHANGED <<disk, dev, cmd, bm, memory, writing, prdt, fails, target_read,
                 read, enabled, begun, stale>>

\* Mutant: the next chunk is read from where the last one was.
ReadOnInPlace == /\ HandleRead /\ total_read' < target_read
                 /\ current_read' = MinOf(Chunk, target_read - total_read')
                 /\ hpc' = "program"
                 /\ UNCHANGED <<current_address, fired>>

\* ... and there is another one to read ...
ReadOn == /\ HandleRead /\ total_read' < target_read
          /\ current_address' = current_address + current_read
          /\ current_read' = MinOf(Chunk, target_read - total_read')
          /\ hpc' = "program"
          /\ UNCHANGED fired

\* ... or not: the IPI to this core is taken when IdtHandler, about to
\* return, enables interrupts.
ReadLast == /\ HandleRead /\ total_read' >= target_read
            /\ fired' = TRUE
            /\ UNCHANGED <<current_address, current_read, hpc>>

\* Mutant: the DMA memory is filled before the count is advanced.
WriteOnStale ==
  /\ IrqTaken /\ FlushTaken /\ enabled /\ bm /\ ~read /\ ~write_done
  /\ total_write < target_write
  /\ total_write' = total_write + current_write
  /\ current_address' = current_address + current_write
  /\ LET left == target_write - total_write'
     IN current_write' = IF left = 0 THEN Chunk ELSE MinOf(Chunk, left)
  /\ memory' = Copied(total_write, current_write', target_write)
  /\ hpc' = "program"
  /\ UNCHANGED <<disk, dev, cmd, bm, buffer, reading, target_write, write_done,
                 read, enabled, begun, stale, prdt, fired, fails>>

\* ataHandleWriteInterrupt: as long as total_write, which does not count the
\* chunk just written, is less than the target, a chunk follows, a whole one
\* if nothing is left to write; ...
WriteOn ==
  /\ IrqTaken /\ FlushTaken /\ enabled /\ bm /\ ~read /\ ~write_done
  /\ total_write < target_write
  /\ total_write' = total_write + current_write
  /\ current_address' = current_address + current_write
  /\ LET left == target_write - total_write'
     IN current_write' = IF left = 0 THEN Chunk ELSE MinOf(Chunk, left)
  /\ memory' = Copied(total_write', current_write', target_write)
  /\ hpc' = "program"
  /\ UNCHANGED <<disk, dev, cmd, bm, buffer, reading, target_write, write_done,
                 read, enabled, begun, stale, prdt, fired, fails>>

\* ... and the interrupt of that one ends the request: FLUSH CACHE, write_done,
\* and the IPI to this core.
WriteLast ==
  /\ IrqTaken /\ enabled /\ bm /\ ~read /\ ~write_done
  /\ total_write >= target_write
  /\ flush' = "busy"
  /\ write_done' = TRUE /\ fired' = TRUE
  /\ UNCHANGED <<disk, dev, cmd, bm, memory, buffer, reading, current_write,
                 total_write, target_write, request, prdt, hpc, fails>>

-----------------------------------------------------------------------------
(* The wait in read_nBlocks                                                *)

Clear == /\ reqpc = "clear" /\ hpc = "none"
         /\ fired' = FALSE
         /\ reqpc' = "test"
         /\ UNCHANGED <<device, memory, buffer, reading, writing, request, prdt,
                        iflag, hpc, fails>>

\* while (fired == 0) { sti; hlt; ...
Test == /\ reqpc = "test" /\ hpc = "none"
        /\ reqpc' = (IF fired THEN "done" ELSE "halt")
        /\ UNCHANGED <<device, memory, buffer, reading, writing, request, prdt,
                       iflag, fired, hpc, fails>>

\* Another interrupt ends the hlt as well: the timer's, once enableAPICTimer
\* has started it, which is after the reads of the boot.
Tick == /\ reqpc = "halt" /\ hpc = "none"
        /\ reqpc' = "woken" /\ iflag' = TRUE
        /\ UNCHANGED <<device, memory, buffer, reading, writing, request, prdt,
                       fired, hpc, fails>>


\* ... cli; if (total_read == target_read) break; }
Cli == /\ reqpc = "woken" /\ hpc = "none"
       /\ iflag' = FALSE
       /\ reqpc' = (IF total_read = target_read THEN "done" ELSE "test")
       /\ UNCHANGED <<device, memory, buffer, reading, writing, request, prdt,
                      fired, hpc, fails>>

Finish == /\ reqpc = "done" /\ hpc = "none"
          /\ fired' = FALSE /\ enabled' = FALSE
          /\ reqpc' = "idle"
          /\ UNCHANGED <<device, memory, buffer, reading, writing, read,
                         current_address, begun, stale, prdt, iflag, hpc,
                         fails>>

\* The writer, with interrupts on, sees write_done.
WriterWaits == /\ reqpc = "writing" /\ hpc = "none" /\ ~iflag
               /\ iflag' = TRUE
               /\ UNCHANGED <<device, memory, buffer, reading, writing, request,
                              prdt, fired, reqpc, hpc, fails>>

WriterReturns == /\ reqpc = "writing" /\ hpc = "none" /\ write_done
                 /\ enabled' = FALSE
                 /\ reqpc' = "idle"
                 /\ UNCHANGED <<device, memory, buffer, reading, writing, read,
                                current_address, begun, stale, prdt, iflag,
                                fired, hpc, fails>>

-----------------------------------------------------------------------------
(* The drive and the bus master                                            *)

Accept == /\ dev = "busy"
          /\ dev' = "drq"
          /\ UNCHANGED <<disk, cmd, irq14, bm, flush, memory, buffer, reading,
                         writing, request, prdt, core, fails>>

Refuse == /\ dev = "busy" /\ fails < MaxFails
          /\ dev' = "err" /\ irq14' = TRUE
          /\ fails' = fails + 1
          /\ UNCHANGED <<disk, cmd, bm, flush, memory, buffer, reading, writing,
                         request, prdt, core>>

\* The cache is on the disk: an IRQ14 that is no transfer's.
Flushed == /\ flush = "busy"
           /\ flush' = "irq"
           /\ UNCHANGED <<disk, dev, cmd, irq14, bm, memory, buffer, reading,
                          writing, request, prdt, core, fails>>

\* Sector k of the transfer is sector k of memory if the regions up to the
\* last one reach it.
Covered(k) == \E r \in prdt : /\ k \in r.at .. r.at + r.length - 1
                              /\ k < cmd.count
                              /\ \A q \in prdt : q.last => r.at <= q.at

Move == /\ dev = "moving" /\ \E r \in prdt : r.last
        /\ IF cmd.to = "read"
           THEN /\ memory' = [k \in 0 .. Chunk - 1 |->
                                IF Covered(k) THEN disk[cmd.at + k]
                                ELSE memory[k]]
                /\ disk' = disk
           ELSE /\ disk' = [s \in Sectors |->
                              IF s >= cmd.at /\ Covered(s - cmd.at)
                              THEN memory[s - cmd.at] ELSE disk[s]]
                /\ memory' = memory
        /\ dev' = "idle" /\ bm' = TRUE /\ irq14' = TRUE
        /\ FlushTaken  \* the two are one pending interrupt
        /\ UNCHANGED <<cmd, buffer, reading, writing, request, prdt, core, fails>>

-----------------------------------------------------------------------------
Handler == Ignore \/ ReadOn \/ ReadLast \/ WriteOn \/ WriteLast
Core0 == \/ Program \/ Start \/ Fail \/ GiveUp \/ Handler
         \/ Clear \/ Test \/ Cli \/ Finish \/ WriterWaits \/ WriterReturns
Drive == Accept \/ Refuse \/ Move \/ Flushed

DiskNext == \/ \E r \in Requests : BeginRead(r[1], r[2]) \/ BeginWrite(r[1], r[2])
            \/ Core0 \/ Tick \/ Drive

DiskSpec == DiskInit /\ [][DiskNext]_diskVars

\* The core executes and takes a pending interrupt some time that it can, and
\* the drive works on its commands.  No tick may be counted on.
FairDiskSpec == /\ DiskSpec
                /\ WF_diskVars(Core0) /\ SF_diskVars(Handler)
                /\ WF_diskVars(Drive)

-----------------------------------------------------------------------------
(* When the wait of read_nBlocks is over, however it ended, the buffer has *)
(* exactly the sectors asked for, in order, whatever the number of chunks  *)
(* and of retries.  A read begun before the drive has flushed its cache is *)
(* left out: the flush's interrupt finds bit 2 of the last write still set *)
(* and passes for that of the read's first chunk.                          *)
ReadServed ==
  (reqpc = "done" /\ ~stale) =>
     \A k \in 0 .. target_read - 1 : buffer[k] = disk[begun + k]

(* When write_done is set, the sectors asked for are on the disk, and the  *)
(* sectors in front of them are as they were.  (Those behind are not: the  *)
(* handler writes a chunk too many.)                                       *)
WriteServed ==
  (write_done /\ ~read) =>
     \A s \in Sectors :
       /\ s \in begun .. begun + target_write - 1 => disk[s] = New(s - begun)
       /\ s < begun => disk[s] = Old(s)

Over == reqpc = "idle" \/ "hung" \in {reqpc, hpc}

\* Everything is read, nothing is left to come, and the core is in its hlt.
Stranded == /\ reqpc = "halt" /\ hpc = "none" /\ ~fired
            /\ dev = "idle" /\ ~irq14 /\ total_read = target_read

=============================================================================
