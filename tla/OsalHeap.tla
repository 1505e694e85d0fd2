------------------------------ MODULE OsalHeap ------------------------------
(***************************************************************************)
(* The OSAL heap (src/Components/osal/common/OSAL_Memory.c): a first-fit    *)
(* allocator whose blocks are chained by the lengths in their headers.      *)
(* Free only clears a bit; the next search merges what lies side by side.   *)
(* Small requests are searched from ff1 on, through a bucket at the bottom  *)
(* of the heap; large ones start behind the bucket.                         *)
(*                                                                          *)
(* Lengths and addresses are in cells of one header.  A search runs under   *)
(* a critical section, one action per block it visits: nothing else touches *)
(* the heap meanwhile, so tasks and service routines are one caller here.   *)
(***************************************************************************)
EXTENDS Integers

CONSTANTS
  BucketLen,   \* OSALMEM_SMALLBLK_HDRCNT: cells of the small-block bucket
  Last,        \* OSALMEM_LASTBLK_IDX: the end mark
  SmallBlk,    \* OSALMEM_SMALL_BLKSZ, in cells
  MinBlk,      \* OSALMEM_MIN_BLKSZ, in cells
  HdrSz,       \* bytes of a header, and the alignment
  Sizes,       \* the sizes callers ask for, in bytes
  Data         \* a cell that is no header: contents of a block, or a header
               \* that was merged into the block before it

BigIdx == BucketLen + 1  \* OSALMEM_BIGBLK_IDX

ASSUME HeapAssumption ==
  /\ BucketLen \in Nat /\ Last \in Nat
  /\ MinBlk \in Nat /\ MinBlk >= 2
  /\ BucketLen >= MinBlk
  /\ Last >= BigIdx + MinBlk
  /\ SmallBlk \in Nat
  /\ HdrSz = 2
  /\ Sizes \subseteq 1 .. 2 * Last
  /\ Data \notin [len : Nat, used : BOOLEAN]

VARIABLES
  heap,         \* theHeap, cell by cell
  ff1,          \* first free block of the bucket, once kicked
  osalMemStat,  \* whether osal_mem_kick has been called
  pc,           \* "idle", "walk" and "take" in osal_mem_alloc, "kick" between
                \* the two halves of osal_mem_kick, "halted" by its HAL_ASSERT
  hdr, prev, coal, size, \* the variables of osal_mem_alloc
  kicking,      \* the running osal_mem_alloc was called by osal_mem_kick
  owned         \* the blocks in the hands of callers, with what they asked for

vars == <<heap, ff1, osalMemStat, pc, hdr, prev, coal, size, kicking, owned>>

Cells   == 0 .. Last
Headers == [len : 1 .. Last, used : BOOLEAN]
EndMark == [len |-> 0, used |-> FALSE]
Free(n) == [len |-> n, used |-> FALSE]
InUse(n) == [len |-> n, used |-> TRUE]

Blocks == {b \in Cells : heap[b] # Data /\ b # Last}
IsFree(b) == b \in Blocks /\ ~heap[b].used

\* osal_mem_init
Init ==
  /\ heap = [c \in Cells |->
               CASE c = Last      -> EndMark
                 [] c = 0         -> Free(BucketLen)
                 [] c = BucketLen -> InUse(1)
                 [] c = BigIdx    -> Free(Last - BigIdx)
                 [] OTHER         -> Data]
  /\ ff1 = 0
  /\ osalMemStat = FALSE
  /\ pc = "idle"
  /\ hdr = 0 /\ prev = 0 /\ coal = FALSE /\ size = 0 /\ kicking = FALSE
  /\ owned = {}

-----------------------------------------------------------------------------
(* osal_mem_alloc *)

\* The cells a request takes, with its header and rounded up.
CellsFor(bytes) == (bytes + HdrSz + ((bytes + HdrSz) % 2)) \div HdrSz

\* Seeded fault for TypeOK: the search begins behind the header of the big blocks.
MutSearchFrom(n) == IF ~osalMemStat THEN ff1 ELSE BigIdx + 1

\* Where the search for a block begins.
SearchFrom(n) == IF ~osalMemStat \/ n <= SmallBlk THEN ff1 ELSE BigIdx

Begin(bytes) ==
  /\ pc = "idle"
  /\ pc' = "walk"
  /\ size' = CellsFor(bytes)
  /\ hdr' = SearchFrom(size')
  /\ coal' = FALSE
  /\ UNCHANGED <<heap, ff1, osalMemStat, prev, owned>>

Alloc == \E bytes \in Sizes : Begin(bytes) /\ kicking' = FALSE

\* The header after the one visited, or the end of the search.
Advance ==
  LET next == hdr + heap[hdr].len
  IN IF heap[next] = EndMark
       THEN /\ pc' = IF kicking THEN "halted" ELSE "idle"
            /\ hdr' = 0
       ELSE /\ pc' = "walk"
            /\ hdr' = next

VisitUsed ==
  /\ pc = "walk"
  /\ heap[hdr].used
  /\ coal' = FALSE
  /\ Advance
  /\ UNCHANGED <<heap, ff1, osalMemStat, prev, size, kicking, owned>>

\* The block is merged into the free one before it.
Merged == [heap EXCEPT ![prev].len = @ + heap[hdr].len, ![hdr] = Data]

\* Seeded fault for FailsOnlyWhenFull: the length tested is not the merged one.
MutVisitAdjacent ==
  /\ pc = "walk"
  /\ ~heap[hdr].used
  /\ coal
  /\ heap' = Merged
  /\ IF heap[hdr].len >= size
       THEN hdr' = prev /\ pc' = "take"
       ELSE Advance
  /\ UNCHANGED <<ff1, osalMemStat, prev, coal, size, kicking, owned>>

VisitAdjacent ==
  /\ pc = "walk"
  /\ ~heap[hdr].used
  /\ coal
  /\ heap' = Merged
  /\ IF heap'[prev].len >= size
       THEN hdr' = prev /\ pc' = "take"
       ELSE Advance
  /\ UNCHANGED <<ff1, osalMemStat, prev, coal, size, kicking, owned>>

VisitFree ==
  /\ pc = "walk"
  /\ ~heap[hdr].used
  /\ ~coal
  /\ IF heap[hdr].len >= size
       THEN pc' = "take" /\ UNCHANGED <<hdr, prev, coal>>
       ELSE prev' = hdr /\ coal' = TRUE /\ Advance
  /\ UNCHANGED <<heap, ff1, osalMemStat, size, kicking, owned>>

\* The block found is split when what remains is worth a block.
Splits == heap[hdr].len - size >= MinBlk
\* Seeded fault for BlocksOwned: the rest of a split block is one cell short.
MutTaken ==
  IF Splits
    THEN [heap EXCEPT ![hdr] = InUse(size),
                      ![hdr + size] = Free(heap[hdr].len - size - 1)]
    ELSE [heap EXCEPT ![hdr].used = TRUE]

Taken ==
  IF Splits
    THEN [heap EXCEPT ![hdr] = InUse(size),
                      ![hdr + size] = Free(heap[hdr].len - size)]
    ELSE [heap EXCEPT ![hdr].used = TRUE]

\* Seeded fault for FirstFree: ff1 moves past every block that is taken.
MutTake ==
  /\ pc = "take"
  /\ heap' = Taken
  /\ ff1' = IF osalMemStat THEN hdr + heap'[hdr].len ELSE ff1
  /\ IF kicking
       THEN pc' = "kick" /\ UNCHANGED owned
       ELSE pc' = "idle" /\ owned' = owned \cup {[at |-> hdr, len |-> size]}
  /\ UNCHANGED <<osalMemStat, hdr, prev, coal, size, kicking>>

Take ==
  /\ pc = "take"
  /\ heap' = Taken
  /\ ff1' = IF osalMemStat /\ ff1 = hdr THEN hdr + heap'[hdr].len ELSE ff1
  /\ IF kicking
       THEN pc' = "kick" /\ UNCHANGED owned
       ELSE pc' = "idle" /\ owned' = owned \cup {[at |-> hdr, len |-> size]}
  /\ UNCHANGED <<osalMemStat, hdr, prev, coal, size, kicking>>

-----------------------------------------------------------------------------
(* osal_mem_free and osal_mem_kick *)

Freed(b) == [heap EXCEPT ![b].used = FALSE]

\* osal_mem_free, by the owner of the block.
Release ==
  /\ pc = "idle"
  /\ \E o \in owned :
       /\ heap' = Freed(o.at)
       /\ ff1' = IF ff1 > o.at THEN o.at ELSE ff1
       /\ owned' = owned \ {o}
  /\ UNCHANGED <<osalMemStat, pc, hdr, prev, coal, size, kicking>>

\* osal_init_system calls osal_mem_kick once, behind the initialisation of the
\* tasks and with the interrupts of the CPU still off.
KickAlloc ==
  /\ ~osalMemStat
  /\ Begin(1)
  /\ kicking' = TRUE

KickFree ==
  /\ pc = "kick"
  /\ heap' = Freed(hdr)
  /\ ff1' = hdr
  /\ osalMemStat' = TRUE
  /\ pc' = "idle"
  /\ kicking' = FALSE
  /\ UNCHANGED <<hdr, prev, coal, size, owned>>

Next ==
  \/ Alloc \/ VisitUsed \/ VisitAdjacent \/ VisitFree \/ Take
  \/ Release \/ KickAlloc \/ KickFree

Spec == Init /\ [][Next]_vars

-----------------------------------------------------------------------------
(* Properties *)

\* Every cell is data or a header, and a search stands on a header.
TypeOK ==
  /\ heap \in [Cells -> Headers \cup {Data, EndMark}]
  /\ ff1 \in Cells
  /\ osalMemStat \in BOOLEAN
  /\ pc \in {"idle", "walk", "take", "kick", "halted"}
  /\ hdr \in Cells /\ prev \in Cells /\ coal \in BOOLEAN /\ size \in Nat
  /\ kicking \in BOOLEAN
  /\ owned \subseteq [at : Cells, len : 1 .. Last]
  /\ pc = "walk" => hdr \in Blocks \cup {Last}
  /\ pc = "take" => hdr \in Blocks

\* The headers lead from the bottom of the heap to the end mark, and no header
\* lies inside the block of another.
Tiled ==
  /\ 0 \in Blocks
  /\ heap[Last] = EndMark
  /\ \A b \in Blocks : b + heap[b].len \in Blocks \cup {Last}
  /\ \A b, c \in Blocks : b < c => b + heap[b].len <= c

\* What callers own is in use, long enough and theirs alone, and every block in
\* use has an owner: the splits and merges of osal_mem_alloc neither overlap
\* two blocks nor lose one.
BlocksOwned ==
  /\ Tiled
  /\ \A o \in owned : /\ o.at \in Blocks /\ heap[o.at].used
                      /\ heap[o.at].len >= o.len
  /\ \A o, p \in owned : o.at = p.at => o = p
  /\ \A b \in Blocks : heap[b].used =>
       \/ b = BucketLen
       \/ pc = "kick" /\ b = hdr
       \/ \E o \in owned : o.at = b

\* Once kicked, ff1 is a block and no free block lies below it: searching from
\* ff1 misses nothing, and no merge can swallow the block ff1 points to.
FirstFree ==
  osalMemStat => /\ ff1 \in Blocks \cup {Last}
                 /\ \A b \in Blocks : IsFree(b) => ff1 <= b

\* A free cell: some free block holds it.
IsFreeCell(c) == \E b \in Blocks : IsFree(b) /\ b <= c /\ c < b + heap[b].len

\* osal_mem_alloc returns NULL only when nowhere in the part of the heap it
\* searches so many free cells lie side by side: for small requests, and before
\* the kick, nowhere in the heap at all.
FailsOnlyWhenFull ==
  [][pc = "walk" /\ pc' \in {"idle", "halted"} =>
       \A c \in (IF ~osalMemStat \/ size <= SmallBlk THEN 0 ELSE BigIdx)
                  .. Last - size :
         \E d \in c .. c + size - 1 : ~IsFreeCell(d)]_vars
=============================================================================
