---------------------------- MODULE BlockService ----------------------------
(***************************************************************************)
(* Reading through the two buffers of memory/BlockService.c, by core 0     *)
(* while it boots (KernelMain.c).  The buffers keep the last two pieces    *)
(* that were read and serve the next call.  A sector is its number, a      *)
(* transfer from the disk one step (its own steps are in ATADisk).         *)
(*                                                                         *)
(* The user's buffer and the two buffers lie one behind the other on the   *)
(* kernel heap.  They are allocated by bytes where the transfers count     *)
(* sectors, so a transfer runs over the end of its buffer: the heap is one *)
(* array of sectors, and a buffer is the place where it begins.            *)
(***************************************************************************)
EXTENDS Integers, Sequences

CONSTANTS Unit,       \* sector_unit: sectors of a block, 2048
          Pieces,     \* blocks of a piece: 32
          Room,       \* sectors each buffer is allocated: 32 * Unit bytes
          UserRooms,  \* sectors the user's buffer may have been allocated
          Heap,       \* sectors of the heap from the user's buffer on
          Sector,     \* bytes of a sector: 512
          Reads       \* sequences of reads <<start_sector, blocks_to_read_number>>

chunck == Pieces * Unit
Minus1 == Sector * (Heap + chunck) * 1000   \* (uint64_t)-1: above every number used

\* Reads of which no sum of two bounds, in bytes or in sectors, reaches Minus1.
Ranged == {r \in Nat \X (Nat \ {0}) : 2 * (r[1] + r[2] * Unit * Sector) < Minus1}

ASSUME BlockAssumption ==
  /\ Unit \in Nat \ {0} /\ Pieces \in Nat \ {0} /\ Room \in Nat /\ Heap \in Nat
  /\ UserRooms \subseteq Nat /\ Sector \in Nat \ {0}
  /\ Reads \subseteq Seq(Ranged)
  \* What a transfer to either buffer runs over is still heap.
  /\ \A room \in UserRooms : room + Room + chunck <= Heap

VARIABLES heap,          \* the sector each place holds, -1 for anything else
          user_room,     \* places from the user's buffer to buffer[0]
          current_cache_index, primaryBuffer, skip_start, skip_end,
          total_read,    \* bytes of the current read done
          reads,         \* the reads to come, the current one first
          reader,        \* how far read_blocks is
          returned       \* history: the reads that have returned

blockVars == <<heap, user_room, current_cache_index, primaryBuffer, skip_start,
               skip_end, total_read, reads, reader, returned>>

start_sector == reads[1][1]
length       == reads[1][2] * Unit
end_sector   == start_sector + length
buffer(i)    == user_room + i * Room
Unset        == [i \in {0, 1} |-> Minus1]

-----------------------------------------------------------------------------
\* The user's buffer is allocated first, with the given room; then the reads.
init_BlockService(room, sequence) ==
  /\ heap = [p \in 0 .. Heap - 1 |-> -1]
  /\ user_room = room
  /\ current_cache_index = Unset /\ skip_start = Unset /\ skip_end = Unset
  /\ primaryBuffer = 0 /\ total_read = 0
  /\ reads = sequence /\ reader = "idle" /\ returned = <<>>

\* A copy from the front: with dest behind src it meets what it has written.
fast_memcpy(dest, src, n) ==
  [p \in DOMAIN heap |->
     IF p \notin dest .. dest + n - 1 THEN heap[p]
     ELSE LET k == p - dest
              q == src + (IF dest > src THEN k % (dest - src) ELSE k)
          IN IF q \in DOMAIN heap THEN heap[q] ELSE -1]

read_blocks ==
  /\ reader = "idle" /\ reads # <<>>
  /\ reader' = IF current_cache_index = Unset THEN "enter" ELSE "cache0"
  /\ total_read' = 0
  /\ UNCHANGED <<heap, user_room, current_cache_index, primaryBuffer, skip_start,
                 skip_end, reads, returned>>

\* How much of the buffer is taken, from user_start on.
Part(user_start) == IF end_sector - user_start > chunck THEN chunck - user_start
                    ELSE end_sector - user_start

\* The piece in buffer[i] began at or before the read.
Before(i) == /\ current_cache_index[i] <= start_sector
             /\ current_cache_index[i] + chunck > start_sector

\* It begins inside the read, as the code sees it.
Inside(i) == /\ current_cache_index[i] > start_sector
             /\ current_cache_index[i] < start_sector + end_sector

TakeFrom(i) ==
  \/ LET user_start == start_sector - current_cache_index[i] IN
       /\ Before(i)
       /\ heap' = fast_memcpy(0, buffer(i) + user_start, Part(user_start))
       /\ skip_start' = [skip_start EXCEPT ![i] = start_sector]
       /\ skip_end' = [skip_end EXCEPT ![i] = start_sector + Part(user_start)]
  \/ LET user_start == current_cache_index[i] - start_sector IN
       /\ ~Before(i) /\ Inside(i)
       /\ heap' = fast_memcpy(user_start, buffer(i), Part(user_start))
       /\ skip_start' = [skip_start EXCEPT ![i] = user_start]
       /\ skip_end' = [skip_end EXCEPT ![i] = user_start + Part(user_start)]
  \/ /\ ~Before(i) /\ ~Inside(i)
     /\ UNCHANGED <<heap, skip_start, skip_end>>

readCached ==
  /\ \/ reader = "cache0" /\ TakeFrom(0) /\ reader' = "cache1"
     \/ reader = "cache1" /\ TakeFrom(1) /\ reader' = "enter"
  /\ UNCHANGED <<user_room, current_cache_index, primaryBuffer, total_read, reads,
                 returned>>

\* The two tests on entry compare bytes with sectors.
SkipFirst(i, t) ==
  IF t + start_sector >= skip_start[i] /\ t < skip_end[i]
  THEN t + (skip_end[i] - start_sector) * Sector ELSE t

\* The tests of the loop scale the sum once more.
SkipOn(i, t) ==
  IF (t + start_sector) * Sector >= skip_start[i] * Sector /\ t < skip_end[i] * Sector
  THEN t + (skip_end[i] - (start_sector + t \div Sector)) * Sector ELSE t

read_nBlocks ==
  /\ reader = "enter" /\ reader' = "loop"
  /\ total_read' = SkipFirst(1, SkipFirst(0, 0))
  /\ UNCHANGED <<heap, user_room, current_cache_index, primaryBuffer, skip_start,
                 skip_end, reads, returned>>

target_read == length * Sector

\* Always a whole piece, whatever is left to read.
readPiece ==
  LET t == SkipOn(1, SkipOn(0, SkipOn(1, SkipOn(0, total_read))))
      first == start_sector + t \div Sector
  IN /\ reader = "loop" /\ total_read # target_read
     /\ total_read' = t
     /\ heap' = [p \in DOMAIN heap |->
                   IF p - buffer(primaryBuffer) \in 0 .. chunck - 1
                   THEN first + (p - buffer(primaryBuffer)) ELSE heap[p]]
     /\ reader' = "copy"
     /\ UNCHANGED <<user_room, current_cache_index, primaryBuffer, skip_start,
                    skip_end, reads, returned>>

\* Bytes copied; the difference is unsigned.
current_read == IF \/ total_read > target_read
                   \/ target_read - total_read > chunck * Sector
                THEN chunck * Sector ELSE target_read - total_read

\* Mutant: the buffers change places before the copy.
CopyOfOther ==
  /\ reader = "copy" /\ reader' = "loop"
  /\ heap' = fast_memcpy(total_read \div Sector, buffer(1 - primaryBuffer),
                         current_read \div Sector)
  /\ current_cache_index' =
       [current_cache_index EXCEPT ![primaryBuffer] = total_read \div Sector]
  /\ total_read' = total_read + current_read
  /\ primaryBuffer' = 1 - primaryBuffer
  /\ UNCHANGED <<user_room, skip_start, skip_end, reads, returned>>

\* The piece is remembered without the sector the read started at.
copyPiece ==
  /\ reader = "copy" /\ reader' = "loop"
  /\ heap' = fast_memcpy(total_read \div Sector, buffer(primaryBuffer),
                         current_read \div Sector)
  /\ current_cache_index' =
       [current_cache_index EXCEPT ![primaryBuffer] = total_read \div Sector]
  /\ total_read' = total_read + current_read
  /\ primaryBuffer' = 1 - primaryBuffer
  /\ UNCHANGED <<user_room, skip_start, skip_end, reads, returned>>

readEnds ==
  /\ reader = "loop" /\ total_read = target_read
  /\ skip_start' = Unset /\ skip_end' = Unset
  /\ returned' = Append(returned, reads[1]) /\ reads' = Tail(reads)
  /\ reader' = "idle"
  /\ UNCHANGED <<heap, user_room, current_cache_index, primaryBuffer, total_read>>

BlocksNext == \/ read_blocks \/ readCached \/ read_nBlocks \/ readPiece \/ copyPiece
              \/ readEnds

-----------------------------------------------------------------------------
Fits(read) == read[2] * Unit <= user_room

\* A first read of one piece, or into a buffer that is large enough.
FirstRead == /\ Len(returned) = 1
             /\ returned[1][2] <= Pieces \/ Fits(returned[1])

\* The first read filled one buffer from sector 0, the second lies in that
\* piece, and both fit: then the cache is right about the second.
CacheRead == /\ Len(returned) = 2
             /\ returned[1][1] = 0 /\ returned[1][2] <= Pieces
             /\ returned[2][1] + returned[2][2] * Unit <= chunck
             /\ Fits(returned[1]) /\ Fits(returned[2])

(* When read_blocks returns from such a read, the user's buffer holds the  *)
(* sectors asked for, in order: although a transfer runs over the end of   *)
(* its buffer and a copy over the end of the user's, into the buffers it   *)
(* is made from.  The two reads of the boot are <<52825, 10>>: the first   *)
(* is covered, the second is not, and is served other sectors.             *)
BlocksDelivered ==
  reader = "idle" /\ (FirstRead \/ CacheRead) =>
    LET read == returned[Len(returned)] IN
      \A k \in 0 .. read[2] * Unit - 1 : heap[k] = read[1] + k
=============================================================================
