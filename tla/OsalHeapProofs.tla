--------------------------- MODULE OsalHeapProofs ---------------------------
(***************************************************************************)
(* Theorems on the OSAL heap: its blocks always tile it, belong to one      *)
(* caller each, and the search for a free one may begin at ff1.             *)
(***************************************************************************)
EXTENDS OsalHeap, TLAPS

(* The inductive invariant *)

\* The heap is tiled by headers; the block at the end of the bucket keeps the
\* blocks below it and behind it apart, and is the only one of a single cell.
Shape ==
  /\ heap \in [Cells -> Headers \cup {Data, EndMark}]
  /\ \A b \in Blocks : heap[b] \in Headers
  /\ Tiled
  /\ BucketLen \in Blocks /\ heap[BucketLen] = InUse(1)
  /\ \A b \in Blocks \ {BucketLen} : heap[b].len >= 2

Variables ==
  /\ ff1 \in Cells /\ osalMemStat \in BOOLEAN
  /\ pc \in {"idle", "walk", "take", "kick", "halted"}
  /\ hdr \in Cells /\ prev \in Cells /\ coal \in BOOLEAN /\ size \in Nat
  /\ kicking \in BOOLEAN
  /\ owned \subseteq [at : Cells, len : 1 .. Last]

Owners ==
  /\ \A o \in owned : /\ o.at \in Blocks /\ heap[o.at].used
                      /\ heap[o.at].len >= o.len
                      /\ o.at # BucketLen
  /\ \A o, p \in owned : o.at = p.at => o = p
  /\ \A b \in Blocks : heap[b].used =>
       \/ b = BucketLen
       \/ pc = "kick" /\ b = hdr
       \/ \E o \in owned : o.at = b

NoFreeBelow(c) == \A b \in Blocks : ~heap[b].used => c <= b

LowestFree ==
  /\ ff1 \in Blocks \cup {Last}
  /\ NoFreeBelow(ff1)
  /\ ~osalMemStat => ff1 = 0

\* A search stands on a header, and the block it may merge into ends there.
Search ==
  /\ pc = "walk" => hdr \in Blocks \cup {Last}
  /\ pc = "walk" /\ coal => /\ prev \in Blocks /\ ~heap[prev].used
                            /\ prev + heap[prev].len = hdr
                            /\ hdr \in Blocks
  /\ pc = "take" => /\ hdr \in Blocks /\ ~heap[hdr].used
                    /\ heap[hdr].len >= size
  /\ pc = "kick" => /\ hdr \in Blocks /\ heap[hdr].used /\ hdr # BucketLen
                    /\ \A o \in owned : o.at # hdr
                    /\ kicking
  /\ pc \in {"walk", "take", "kick"} => size >= 2

\* The search of osal_mem_kick finds the first free block of the heap.
Kick ==
  kicking /\ pc \in {"walk", "take", "kick"} =>
    /\ size = 2 /\ ~osalMemStat
    /\ NoFreeBelow(hdr)
    /\ pc = "walk" => ~coal

HeapInv == Shape /\ Variables /\ Owners /\ LowestFree /\ Search /\ Kick

-----------------------------------------------------------------------------
(* Headers *)

LEMMA HeaderFields ==
  ASSUME NEW r \in Headers
  PROVE  /\ r.len \in Nat /\ 1 <= r.len /\ r.len <= Last
         /\ r.used \in BOOLEAN
         /\ r # Data /\ r # EndMark
<1>1. r.len \in 1 .. Last /\ r.used \in BOOLEAN
  BY DEF Headers
<1>2. Last \in Nat
  BY HeapAssumption
<1>3. r \in [len : Nat, used : BOOLEAN]
  BY <1>2 DEF Headers
<1>4. r # Data
  BY <1>3, HeapAssumption
<1>5. r # EndMark
  BY <1>1 DEF EndMark
<1> QED
  BY <1>1, <1>2, <1>4, <1>5

LEMMA HeaderMade ==
  ASSUME NEW n \in 1 .. Last
  PROVE  /\ Free(n) \in Headers /\ Free(n).len = n /\ ~Free(n).used
         /\ InUse(n) \in Headers /\ InUse(n).len = n /\ InUse(n).used
BY DEF Free, InUse, Headers

LEMMA LengthChanged ==
  ASSUME NEW r \in Headers, NEW n \in 1 .. Last
  PROVE  /\ [r EXCEPT !.len = n] \in Headers
         /\ [r EXCEPT !.len = n].len = n /\ [r EXCEPT !.len = n].used = r.used
BY DEF Headers

LEMMA UseChanged ==
  ASSUME NEW r \in Headers, NEW u \in BOOLEAN
  PROVE  /\ [r EXCEPT !.used = u] \in Headers
         /\ [r EXCEPT !.used = u].len = r.len /\ [r EXCEPT !.used = u].used = u
BY DEF Headers

LEMMA EndMarkFields == EndMark.len = 0 /\ ~EndMark.used /\ EndMark # Data
<1>1. EndMark \in [len : Nat, used : BOOLEAN]
  BY DEF EndMark
<1> QED
  BY <1>1, HeapAssumption DEF EndMark

-----------------------------------------------------------------------------
(* Blocks *)

LEMMA BlockFacts ==
  ASSUME Shape, NEW b \in Blocks
  PROVE  /\ b \in Nat /\ b < Last /\ b \in Cells
         /\ heap[b] \in Headers
         /\ heap[b].len \in Nat /\ 1 <= heap[b].len /\ heap[b].len <= Last
         /\ heap[b].used \in BOOLEAN
         /\ b + heap[b].len \in Blocks \cup {Last}
         /\ b + heap[b].len <= Last
<1>1. b \in Cells /\ b # Last /\ b \in Nat /\ b < Last
  BY HeapAssumption DEF Blocks, Cells
<1>2. heap[b] \in Headers /\ b + heap[b].len \in Blocks \cup {Last}
  BY DEF Shape, Tiled
<1>3. \A c \in Blocks \cup {Last} : c <= Last
  BY HeapAssumption DEF Blocks, Cells
<1> QED
  BY <1>1, <1>2, <1>3, HeaderFields

LEMMA BucketFacts ==
  ASSUME Shape
  PROVE  /\ BucketLen \in Blocks /\ heap[BucketLen].used
         /\ heap[BucketLen].len = 1
         /\ BigIdx \in Blocks
         /\ 0 \in Blocks
         /\ heap[Last] = EndMark
<1>1. BucketLen \in Blocks /\ heap[BucketLen].used /\ heap[BucketLen].len = 1
  BY DEF Shape, InUse
<1>2. BucketLen + 1 \in Blocks \cup {Last}
  BY <1>1, BlockFacts
<1>3. BigIdx \in Blocks
  BY <1>2, HeapAssumption DEF BigIdx
<1> QED
  BY <1>1, <1>3 DEF Shape, Tiled

\* Blocks do not overlap.
LEMMA Apart ==
  ASSUME Shape, NEW b \in Blocks, NEW c \in Blocks, b < c
  PROVE  b + heap[b].len <= c
BY DEF Shape, Tiled

\* A merge removes the header of the second block and nothing else.
LEMMA MergeKeepsShape ==
  ASSUME Shape, hdr \in Blocks, prev \in Blocks,
         ~heap[hdr].used, ~heap[prev].used,
         prev + heap[prev].len = hdr,
         heap' = Merged
  PROVE  /\ Shape'
         /\ Blocks' = Blocks \ {hdr}
         /\ heap'[prev].len = heap[prev].len + heap[hdr].len
         /\ ~heap'[prev].used
         /\ \A b \in Blocks \ {prev, hdr} : heap'[b] = heap[b]
<1> DEFINE n == heap[prev].len + heap[hdr].len
<1>1. /\ prev \in Nat /\ hdr \in Nat /\ prev < hdr
      /\ prev \in Cells /\ hdr \in Cells
      /\ heap[prev] \in Headers /\ heap[hdr] \in Headers
      /\ heap[prev].len \in Nat /\ heap[hdr].len \in Nat
      /\ 1 <= heap[prev].len /\ 1 <= heap[hdr].len
  BY BlockFacts
<1>2. hdr + heap[hdr].len \in Blocks \cup {Last} /\ hdr + heap[hdr].len <= Last
  BY BlockFacts
<1>3. n \in 1 .. Last
  BY <1>1, <1>2, HeapAssumption
<1>4. prev # BucketLen /\ hdr # BucketLen
  BY BucketFacts
<1> DEFINE r == [heap[prev] EXCEPT !.len = n]
<1> HIDE DEF n
<1>5. r \in Headers /\ r.len = n /\ r.used = heap[prev].used
  BY <1>1, <1>3, LengthChanged
<1>6. heap \in [Cells -> Headers \cup {Data, EndMark}]
  BY DEF Shape
<1>7. heap' = [heap EXCEPT ![prev] = r, ![hdr] = Data]
  BY DEF Merged, n
<1> HIDE DEF r
<1>8. /\ heap'[prev] = r /\ heap'[hdr] = Data
       /\ \A c \in Cells \ {prev, hdr} : heap'[c] = heap[c]
  BY <1>1, <1>6, <1>7
<1>9. heap' \in [Cells -> Headers \cup {Data, EndMark}]
  BY <1>5, <1>6, <1>7
<1>10. Blocks' = Blocks \ {hdr}
  <2>1. ASSUME NEW c \in Cells
        PROVE  c \in Blocks' <=> c \in Blocks \ {hdr}
    <3>1. CASE c = prev
      BY <3>1, <1>1, <1>5, <1>8, HeaderFields DEF Blocks
    <3>2. CASE c = hdr
      BY <3>2, <1>8 DEF Blocks
    <3>3. CASE c \notin {prev, hdr}
      BY <3>3, <1>8 DEF Blocks
    <3> QED
      BY <3>1, <3>2, <3>3
  <2>2. Blocks' \subseteq Cells /\ Blocks \subseteq Cells
    BY DEF Blocks, Cells
  <2> QED
    BY <2>1, <2>2
<1>11. \A b \in Blocks \ {prev, hdr} : heap'[b] = heap[b]
  BY <1>8 DEF Blocks
<1>12. \A b \in Blocks' : heap'[b] \in Headers
  BY <1>5, <1>8, <1>10, <1>11, BlockFacts
<1>13. ASSUME NEW b \in Blocks'
       PROVE  b + heap'[b].len \in Blocks' \cup {Last}
  <2>1. CASE b = prev
    BY <2>1, <1>1, <1>2, <1>5, <1>8, <1>10 DEF n
  <2>2. CASE b # prev
    <3>1. b \in Blocks /\ b \in Nat /\ heap[b].len \in Nat /\ 1 <= heap[b].len
          /\ b + heap[b].len \in Blocks \cup {Last}
      BY <1>10, BlockFacts
    <3>2. b < prev => b + heap[b].len <= prev
      BY <3>1, Apart
    <3>3. prev < b => hdr <= b
      BY <3>1, Apart
    <3>4. b + heap[b].len # hdr
      BY <2>2, <3>1, <3>2, <3>3, <1>1
    <3> QED
      BY <2>2, <3>1, <3>4, <1>10, <1>11
  <2> QED
    BY <2>1, <2>2
<1>14. ASSUME NEW b \in Blocks', NEW c \in Blocks', b < c
       PROVE  b + heap'[b].len <= c
  <2>1. b \in Blocks /\ c \in Blocks /\ c # hdr /\ b \in Nat /\ c \in Nat
    BY <1>10, BlockFacts
  <2>2. CASE b = prev
    <3>1. hdr <= c
      BY <2>1, <2>2, <1>14, Apart
    <3>2. hdr + heap[hdr].len <= c
      BY <2>1, <3>1, <1>1, Apart
    <3> QED
      BY <2>1, <2>2, <3>2, <1>1, <1>5, <1>8 DEF n
  <2>3. CASE b # prev
    BY <2>1, <2>3, <1>10, <1>11, <1>14, Apart
  <2> QED
    BY <2>2, <2>3
<1>15. 0 \in Blocks' /\ heap'[Last] = EndMark
  <2>1. 0 \in Blocks /\ heap[Last] = EndMark /\ Last \in Cells
    BY BucketFacts, HeapAssumption DEF Cells
  <2>2. Last \notin Blocks
    BY DEF Blocks
  <2> QED
    BY <2>1, <2>2, <1>1, <1>8, <1>10
<1>16. BucketLen \in Blocks' /\ heap'[BucketLen] = InUse(1)
  BY <1>4, <1>10, <1>11 DEF Shape
<1>17. \A b \in Blocks' \ {BucketLen} : heap'[b].len >= 2
  <2>1. heap'[prev].len >= 2
    BY <1>1, <1>5, <1>8 DEF n
  <2>2. \A b \in Blocks \ {BucketLen} : heap[b].len >= 2
    BY DEF Shape
  <2> QED
    BY <2>1, <2>2, <1>10, <1>11
<1>18. Tiled'
  BY <1>13, <1>14, <1>15 DEF Tiled
<1>19. Shape'
  BY <1>9, <1>12, <1>16, <1>17, <1>18 DEF Shape, InUse
<1>20. heap'[prev].len = heap[prev].len + heap[hdr].len /\ ~heap'[prev].used
  BY <1>5, <1>8 DEF n
<1> QED
  BY <1>10, <1>11, <1>19, <1>20

\* Taking a block marks it and may put one free block behind it.
LEMMA TakeKeepsShape ==
  ASSUME Shape, hdr \in Blocks, ~heap[hdr].used,
         size \in Nat, size >= 2, heap[hdr].len >= size,
         heap' = Taken
  PROVE  /\ Shape'
         /\ Blocks \subseteq Blocks'
         /\ \A b \in Blocks' \ Blocks : b > hdr /\ ~heap'[b].used
         /\ heap'[hdr].used /\ heap'[hdr].len >= size
         /\ \A b \in Blocks \ {hdr} : heap'[b] = heap[b]
<1>1. /\ hdr \in Nat /\ hdr \in Cells /\ hdr < Last /\ heap[hdr] \in Headers
      /\ heap[hdr].len \in Nat /\ heap[hdr].len <= Last
      /\ hdr + heap[hdr].len \in Blocks \cup {Last}
      /\ hdr + heap[hdr].len <= Last
  BY BlockFacts
<1>2. hdr # BucketLen /\ BucketLen \in Blocks /\ heap[BucketLen] = InUse(1)
  BY BucketFacts DEF Shape
<1>3. heap \in [Cells -> Headers \cup {Data, EndMark}] /\ Last \in Cells
  BY HeapAssumption DEF Shape, Cells
<1>4. 0 \in Blocks /\ heap[Last] = EndMark /\ Last \notin Blocks
  BY BucketFacts DEF Blocks
<1>5. \A b \in Blocks \ {BucketLen} : heap[b].len >= 2
  BY DEF Shape
<1>6. CASE ~Splits
  <2> DEFINE r == [heap[hdr] EXCEPT !.used = TRUE]
  <2>1. r \in Headers /\ r.len = heap[hdr].len /\ r.used
    BY <1>1, UseChanged
  <2>2. heap'[hdr] = r /\ \A c \in Cells \ {hdr} : heap'[c] = heap[c]
    BY <1>1, <1>3, <1>6 DEF Taken
  <2>3. heap' \in [Cells -> Headers \cup {Data, EndMark}]
    BY <1>1, <1>3, <1>6, <2>1 DEF Taken
  <2> HIDE DEF r
  <2>4. Blocks' = Blocks
    <3>1. \A c \in Cells : heap'[c] = Data <=> heap[c] = Data
      BY <2>1, <2>2, <1>1, HeaderFields
    <3> QED
      BY <3>1 DEF Blocks, Cells
  <2>5. \A b \in Blocks \ {hdr} : heap'[b] = heap[b]
    BY <2>2 DEF Blocks
  <2>6. \A b \in Blocks : heap'[b] \in Headers /\ heap'[b].len = heap[b].len
    BY <2>1, <2>2, <2>5, BlockFacts
  <2>7. heap'[Last] = EndMark
    BY <2>2, <1>1, <1>3, <1>4
  <2>8. Tiled'
    BY <2>4, <2>6, <2>7 DEF Shape, Tiled
  <2>9. Shape'
    BY <2>3, <2>4, <2>5, <2>6, <2>8, <1>2, <1>5 DEF Shape, InUse
  <2> QED
    BY <2>1, <2>2, <2>4, <2>5, <2>9
<1>7. CASE Splits
  <2> DEFINE new == hdr + size
             m == heap[hdr].len - size
  <2>1. /\ m \in Nat /\ m >= 2 /\ m \in 1 .. Last /\ size \in 1 .. Last
        /\ new \in Nat /\ new \in Cells /\ new < Last /\ hdr < new
        /\ new + m = hdr + heap[hdr].len /\ new < hdr + heap[hdr].len
    BY <1>1, <1>7, HeapAssumption DEF Splits, Cells
  <2>2. new \notin Blocks
    BY <2>1, <1>1, Apart
  <2>3. /\ Free(m) \in Headers /\ Free(m).len = m /\ ~Free(m).used
        /\ InUse(size) \in Headers /\ InUse(size).len = size /\ InUse(size).used
    BY <2>1, HeaderMade
  <2>4. /\ heap'[hdr] = InUse(size) /\ heap'[new] = Free(m)
        /\ \A c \in Cells \ {hdr, new} : heap'[c] = heap[c]
    BY <1>1, <1>3, <1>7, <2>1 DEF Taken
  <2>5. heap' \in [Cells -> Headers \cup {Data, EndMark}]
    BY <1>1, <1>3, <1>7, <2>1, <2>3 DEF Taken
  <2> HIDE DEF new, m
  <2>6. Blocks' = Blocks \cup {new}
    <3>1. ASSUME NEW c \in Cells
          PROVE  c \in Blocks' <=> c \in Blocks \cup {new}
      <4>1. CASE c = hdr
        BY <4>1, <1>1, <2>3, <2>4, HeaderFields DEF Blocks
      <4>2. CASE c = new
        BY <4>2, <2>1, <2>3, <2>4, HeaderFields DEF Blocks
      <4>3. CASE c \notin {hdr, new}
        BY <4>3, <2>4 DEF Blocks
      <4> QED
        BY <4>1, <4>2, <4>3
    <3>2. Blocks' \subseteq Cells /\ Blocks \subseteq Cells
      BY DEF Blocks, Cells
    <3> QED
      BY <3>1, <3>2, <2>1
  <2>7. \A b \in Blocks \ {hdr} : heap'[b] = heap[b]
    BY <2>2, <2>4 DEF Blocks
  <2>8. \A b \in Blocks' : heap'[b] \in Headers
    BY <2>3, <2>4, <2>6, <2>7, BlockFacts
  <2>9. ASSUME NEW b \in Blocks'
        PROVE  b + heap'[b].len \in Blocks' \cup {Last}
    <3>1. CASE b = hdr
      BY <3>1, <2>3, <2>4, <2>6 DEF new
    <3>2. CASE b = new
      BY <3>2, <1>1, <2>1, <2>3, <2>4, <2>6
    <3>3. CASE b \notin {hdr, new}
      <4>1. b \in Blocks /\ heap'[b] = heap[b]
        BY <3>3, <2>6, <2>7
      <4> QED
        BY <4>1, <2>6, BlockFacts
    <3> QED
      BY <3>1, <3>2, <3>3
  <2>10. ASSUME NEW b \in Blocks', NEW c \in Blocks', b < c
         PROVE  b + heap'[b].len <= c
    <3>1. CASE b = hdr
      <4>1. c = new => b + heap'[b].len <= c
        BY <3>1, <2>3, <2>4, <1>1 DEF new
      <4>2. ASSUME c \in Blocks
            PROVE  b + heap'[b].len <= c
        <5>1. hdr + heap[hdr].len <= c /\ c \in Nat
          BY <3>1, <4>2, <2>10, Apart, BlockFacts
        <5> QED
          BY <3>1, <5>1, <2>3, <2>4, <1>1
      <4> QED
        BY <4>1, <4>2, <2>6
    <3>2. CASE b = new
      <4>1. c \in Blocks /\ c \in Nat /\ hdr < c
        <5>1. c \in Blocks
          BY <3>2, <2>1, <2>6, <2>10
        <5>2. c \in Nat
          BY <5>1, BlockFacts
        <5> QED
          BY <5>1, <5>2, <3>2, <2>1, <2>10, <1>1
      <4>2. hdr + heap[hdr].len <= c
        BY <4>1, Apart
      <4> QED
        BY <3>2, <4>2, <2>1, <2>3, <2>4
    <3>3. CASE b \notin {hdr, new}
      <4>1. b \in Blocks /\ heap'[b] = heap[b] /\ b \in Nat
            /\ heap[b].len \in Nat
        BY <3>3, <2>6, <2>7, BlockFacts
      <4>2. c = new => b < hdr
        <5>1. ASSUME hdr < b
              PROVE  hdr + heap[hdr].len <= b
          BY <4>1, <5>1, Apart
        <5> QED
          BY <5>1, <4>1, <3>3, <2>1, <2>10, <1>1
      <4>3. b < hdr => b + heap[b].len <= hdr
        BY <4>1, Apart
      <4>4. c \in Blocks => b + heap[b].len <= c
        BY <4>1, <2>10, Apart
      <4> QED
        BY <4>1, <4>2, <4>3, <4>4, <2>1, <2>6, <1>1
    <3> QED
      BY <3>1, <3>2, <3>3
  <2>11. 0 \in Blocks' /\ heap'[Last] = EndMark
    BY <1>1, <1>3, <1>4, <2>1, <2>4, <2>6
  <2>12. Tiled'
    BY <2>9, <2>10, <2>11 DEF Tiled
  <2>13. BucketLen \in Blocks' /\ heap'[BucketLen] = InUse(1)
    BY <1>2, <2>6, <2>7
  <2>14. \A b \in Blocks' \ {BucketLen} : heap'[b].len >= 2
    BY <1>5, <2>1, <2>3, <2>4, <2>6, <2>7
  <2>15. Shape'
    BY <2>5, <2>8, <2>12, <2>13, <2>14 DEF Shape, InUse
  <2> QED
    BY <2>1, <2>3, <2>4, <2>6, <2>7, <2>15
<1> QED
  BY <1>6, <1>7

\* Freeing a block marks it and nothing else.
LEMMA FreeKeepsShape ==
  ASSUME Shape, NEW b \in Blocks, b # BucketLen, heap' = Freed(b)
  PROVE  /\ Shape'
         /\ Blocks' = Blocks
         /\ ~heap'[b].used
         /\ \A c \in Blocks \ {b} : heap'[c] = heap[c]
<1> DEFINE r == [heap[b] EXCEPT !.used = FALSE]
<1>1. /\ b \in Cells /\ b # Last
      /\ heap[b] \in Headers /\ heap[b].len \in 1 .. Last
  BY BlockFacts DEF Blocks
<1>2. r \in Headers /\ r.len = heap[b].len /\ ~r.used
  BY <1>1, UseChanged
<1>3. heap \in [Cells -> Headers \cup {Data, EndMark}] /\ Last \in Cells
      /\ heap[Last] = EndMark
  BY HeapAssumption DEF Shape, Cells, Tiled
<1>4. heap'[b] = r /\ \A c \in Cells \ {b} : heap'[c] = heap[c]
  BY <1>1, <1>3 DEF Freed
<1>5. heap' \in [Cells -> Headers \cup {Data, EndMark}]
  BY <1>1, <1>2, <1>3 DEF Freed
<1> HIDE DEF r
<1>6. Blocks' = Blocks
  <2>1. \A c \in Cells : heap'[c] = Data <=> heap[c] = Data
    BY <1>1, <1>2, <1>4, HeaderFields
  <2> QED
    BY <2>1 DEF Blocks, Cells
<1>7. \A c \in Blocks \ {b} : heap'[c] = heap[c]
  BY <1>4 DEF Blocks
<1>8. \A c \in Blocks : heap'[c] \in Headers /\ heap'[c].len = heap[c].len
  BY <1>2, <1>4, <1>7, BlockFacts
<1>9. Tiled'
  BY <1>1, <1>3, <1>4, <1>6, <1>8 DEF Shape, Tiled
<1>10. Shape'
  BY <1>5, <1>6, <1>7, <1>8, <1>9 DEF Shape, InUse
<1> QED
  BY <1>2, <1>4, <1>6, <1>7, <1>10

\* Steps that leave the heap alone leave its shape.
LEMMA SameHeap ==
  ASSUME Shape, UNCHANGED heap
  PROVE  Shape' /\ Blocks' = Blocks
<1>1. Blocks' = Blocks
  BY DEF Blocks
<1> QED
  BY <1>1 DEF Shape, Tiled

\* A search goes to the next header, or ends.
LEMMA Advanced ==
  ASSUME Shape, hdr \in Blocks, Advance
  PROVE  /\ pc' \in {"idle", "walk", "halted"} /\ hdr' \in Cells
         /\ pc' = "walk" => /\ hdr' \in Blocks
                            /\ hdr' = hdr + heap[hdr].len
<1> DEFINE next == hdr + heap[hdr].len
<1>1. next \in Blocks \cup {Last}
  BY BlockFacts
<1>2. heap[Last] = EndMark /\ 0 \in Cells
  BY BucketFacts DEF Blocks
<1>3. Blocks \subseteq Cells
  BY DEF Blocks
<1> HIDE DEF next
<1>4. \/ heap[next] = EndMark /\ hdr' = 0 /\ pc' \in {"idle", "halted"}
      \/ heap[next] # EndMark /\ hdr' = next /\ pc' = "walk"
  BY DEF Advance, next
<1> QED
  BY <1>1, <1>2, <1>3, <1>4 DEF next

LEMMA AdvancedFromLast ==
  ASSUME Shape, hdr = Last, Advance
  PROVE  pc' \in {"idle", "halted"} /\ hdr' \in Cells
<1>1. heap[Last] = EndMark /\ 0 \in Cells /\ Last + 0 = Last
  BY BucketFacts, HeapAssumption DEF Blocks
<1>2. heap[hdr].len = 0
  BY <1>1, EndMarkFields
<1>3. hdr + heap[hdr].len = Last
  BY <1>1, <1>2
<1> QED
  BY <1>1, <1>3 DEF Advance

-----------------------------------------------------------------------------
(* The steps of a search *)

LEMMA CellsFacts ==
  ASSUME NEW bytes \in Nat, bytes >= 1
  PROVE  CellsFor(bytes) \in Nat /\ CellsFor(bytes) >= 2
BY HeapAssumption DEF CellsFor

LEMMA CellsForOne == CellsFor(1) = 2
BY HeapAssumption DEF CellsFor

LEMMA BeginKeeps ==
  ASSUME HeapInv, NEW bytes \in Nat, bytes >= 1, Begin(bytes),
         kicking' \in BOOLEAN, kicking' => bytes = 1 /\ ~osalMemStat
  PROVE  HeapInv'
<1>1. Shape' /\ Blocks' = Blocks /\ heap' = heap
  BY SameHeap DEF HeapInv, Begin
<1>2. size' \in Nat /\ size' >= 2 /\ (kicking' => size' = 2)
  BY CellsFacts, CellsForOne DEF Begin
<1>3. /\ hdr' \in Blocks \cup {Last} /\ hdr' \in Cells
      /\ ~osalMemStat => hdr' = ff1
  <2>1. hdr' = ff1 \/ hdr' = BigIdx
    BY DEF Begin, SearchFrom
  <2>2. ~osalMemStat => hdr' = ff1
    BY DEF Begin, SearchFrom
  <2>3. ff1 \in Blocks \cup {Last} /\ ff1 \in Cells
    BY DEF HeapInv, LowestFree, Variables
  <2>4. BigIdx \in Blocks /\ BigIdx \in Cells
    BY BucketFacts DEF HeapInv, Blocks
  <2> QED
    BY <2>1, <2>2, <2>3, <2>4
<1>4. /\ pc = "idle" /\ pc' = "walk" /\ ~coal'
      /\ UNCHANGED <<ff1, osalMemStat, prev, owned>>
  BY DEF Begin
<1>5. Variables'
  BY <1>2, <1>3, <1>4 DEF HeapInv, Variables, Begin
<1>6. Owners'
  BY <1>1, <1>4 DEF HeapInv, Owners
<1>7. LowestFree'
  BY <1>1, <1>4 DEF HeapInv, LowestFree, NoFreeBelow
<1>8. Search'
  BY <1>1, <1>2, <1>3, <1>4 DEF Search
<1>9. Kick'
  BY <1>1, <1>2, <1>3, <1>4 DEF HeapInv, LowestFree, Kick, NoFreeBelow
<1> QED
  BY <1>1, <1>5, <1>6, <1>7, <1>8, <1>9 DEF HeapInv

LEMMA VisitUsedKeeps ==
  ASSUME HeapInv, VisitUsed
  PROVE  HeapInv'
<1>1. Shape /\ Shape' /\ Blocks' = Blocks /\ heap' = heap
  BY SameHeap DEF HeapInv, VisitUsed
<1>2. hdr \in Blocks /\ heap[hdr].used /\ Advance
  <2>1. hdr \in Blocks \cup {Last} /\ heap[hdr].used
    BY DEF VisitUsed, HeapInv, Search
  <2>2. hdr # Last
    BY <1>1, <2>1, BucketFacts, EndMarkFields
  <2> QED
    BY <2>1, <2>2 DEF VisitUsed
<1>3. /\ pc' \in {"idle", "walk", "halted"} /\ hdr' \in Cells
      /\ pc' = "walk" => hdr' \in Blocks /\ hdr' = hdr + heap[hdr].len
  BY <1>1, <1>2, Advanced
<1>4. /\ pc = "walk" /\ ~coal'
      /\ UNCHANGED <<ff1, osalMemStat, prev, size, kicking, owned>>
  BY DEF VisitUsed
<1>5. Variables'
  BY <1>3, <1>4 DEF HeapInv, Variables, VisitUsed
<1>6. Owners'
  BY <1>1, <1>3, <1>4 DEF HeapInv, Owners
<1>7. LowestFree'
  BY <1>1, <1>4 DEF HeapInv, LowestFree, NoFreeBelow
<1>8. Search'
  BY <1>1, <1>3, <1>4 DEF HeapInv, Search
<1>9. ASSUME NoFreeBelow(hdr), pc' = "walk"
      PROVE  NoFreeBelow(hdr)'
  <2>1. SUFFICES ASSUME NEW b \in Blocks, ~heap[b].used
                 PROVE  hdr' <= b
    BY <1>1 DEF NoFreeBelow
  <2>2. hdr <= b /\ b # hdr /\ b \in Nat /\ hdr \in Nat
    BY <1>1, <1>2, <1>9, <2>1, BlockFacts DEF NoFreeBelow
  <2>3. hdr + heap[hdr].len <= b
    BY <1>1, <1>2, <2>2, Apart
  <2> QED
    BY <1>3, <1>9, <2>3
<1>10. Kick'
  BY <1>3, <1>4, <1>9 DEF HeapInv, Kick
<1> QED
  BY <1>1, <1>5, <1>6, <1>7, <1>8, <1>10 DEF HeapInv

LEMMA VisitAdjacentKeeps ==
  ASSUME HeapInv, VisitAdjacent
  PROVE  HeapInv'
<1>1. /\ pc = "walk" /\ coal /\ heap' = Merged
      /\ UNCHANGED <<ff1, osalMemStat, prev, coal, size, kicking, owned>>
  BY DEF VisitAdjacent
<1>2. /\ Shape /\ hdr \in Blocks /\ prev \in Blocks
      /\ ~heap[hdr].used /\ ~heap[prev].used /\ prev + heap[prev].len = hdr
  BY <1>1 DEF HeapInv, Search, VisitAdjacent
<1>3. /\ Shape'
      /\ Blocks' = Blocks \ {hdr}
      /\ heap'[prev].len = heap[prev].len + heap[hdr].len
      /\ ~heap'[prev].used
      /\ \A b \in Blocks \ {prev, hdr} : heap'[b] = heap[b]
  BY <1>1, <1>2, MergeKeepsShape
<1>4. /\ prev \in Nat /\ hdr \in Nat /\ prev < hdr /\ prev \in Cells
      /\ heap[prev].len \in Nat /\ heap[hdr].len \in Nat
      /\ 1 <= heap[hdr].len
  BY <1>2, BlockFacts
<1>5. ~kicking
  BY <1>1 DEF HeapInv, Kick
<1>6. \/ hdr' = prev /\ pc' = "take" /\ heap'[prev].len >= size
      \/ Advance
  BY DEF VisitAdjacent
<1>7. /\ pc' \in {"idle", "walk", "take", "halted"} /\ hdr' \in Cells
      /\ pc' = "walk" => hdr' \in Blocks /\ hdr' = hdr + heap[hdr].len
      /\ pc' = "take" => hdr' = prev /\ heap'[prev].len >= size
  <2>1. CASE hdr' = prev /\ pc' = "take" /\ heap'[prev].len >= size
    BY <2>1, <1>4
  <2>2. CASE Advance
    BY <2>2, <1>2, Advanced
  <2> QED
    BY <1>6, <2>1, <2>2
<1>8. Variables'
  BY <1>1, <1>7 DEF HeapInv, Variables
<1>9. Owners'
  <2>1. \A o \in owned : o.at \in Blocks \ {prev, hdr}
    BY <1>2 DEF HeapInv, Owners
  <2> QED
    BY <2>1, <1>1, <1>3, <1>7 DEF HeapInv, Owners
<1>10. LowestFree'
  <2>1. /\ ff1 \in Blocks \cup {Last}
        /\ NoFreeBelow(ff1)
        /\ ~osalMemStat => ff1 = 0
    BY DEF HeapInv, LowestFree
  <2>2. ff1 <= prev
    BY <2>1, <1>2 DEF NoFreeBelow
  <2>3. ff1 # hdr
    BY <2>2, <1>4
  <2>4. NoFreeBelow(ff1)'
    BY <2>1, <2>2, <1>1, <1>3 DEF NoFreeBelow
  <2> QED
    BY <2>1, <2>3, <2>4, <1>1, <1>3 DEF LowestFree
<1>11. Search'
  <2>1. pc' = "walk" => /\ prev' + heap'[prev'].len = hdr'
                        /\ hdr' \in Blocks' /\ prev' \in Blocks'
                        /\ ~heap'[prev'].used
    BY <1>1, <1>2, <1>3, <1>4, <1>7
  <2>2. pc' = "take" => /\ hdr' \in Blocks' /\ ~heap'[hdr'].used
                        /\ heap'[hdr'].len >= size'
    BY <1>1, <1>2, <1>3, <1>4, <1>7
  <2>3. size' >= 2 /\ pc' # "kick"
    BY <1>1, <1>7 DEF HeapInv, Search
  <2> QED
    BY <2>1, <2>2, <2>3 DEF Search
<1>12. Kick'
  BY <1>1, <1>5 DEF Kick
<1> QED
  BY <1>3, <1>8, <1>9, <1>10, <1>11, <1>12 DEF HeapInv

LEMMA VisitFreeKeeps ==
  ASSUME HeapInv, VisitFree
  PROVE  HeapInv'
<1>1. /\ pc = "walk" /\ ~heap[hdr].used /\ ~coal
      /\ UNCHANGED <<heap, ff1, osalMemStat, size, kicking, owned>>
  BY DEF VisitFree
<1>2. /\ Shape /\ Shape' /\ Blocks' = Blocks /\ heap' = heap
      /\ hdr \in Blocks \cup {Last} /\ size \in Nat /\ size >= 2
      /\ hdr \in Cells /\ prev \in Cells
  BY <1>1, SameHeap DEF HeapInv, Search, Variables
<1>3. hdr = Last => heap[hdr].len = 0
  BY <1>2, BucketFacts, EndMarkFields
<1>4. \/ /\ heap[hdr].len >= size /\ pc' = "take"
         /\ UNCHANGED <<hdr, prev, coal>>
      \/ /\ ~(heap[hdr].len >= size)
         /\ prev' = hdr /\ coal' = TRUE /\ Advance
  BY DEF VisitFree
<1>5. Owners' /\ LowestFree'
  <2>1. pc' # "kick" /\ pc # "kick"
    BY <1>1, <1>4 DEF Advance
  <2> QED
    BY <2>1, <1>1, <1>2 DEF HeapInv, Owners, LowestFree, NoFreeBelow
<1>6. CASE /\ pc' = "take" /\ heap[hdr].len >= size
           /\ UNCHANGED <<hdr, prev, coal>>
  <2>1. hdr \in Blocks
    BY <1>2, <1>3, <1>6
  <2>2. Variables'
    BY <1>1, <1>6 DEF HeapInv, Variables
  <2>3. Search'
    BY <1>1, <1>2, <1>6, <2>1 DEF Search
  <2>4. Kick'
    BY <1>1, <1>2, <1>6 DEF HeapInv, Kick, NoFreeBelow
  <2> QED
    BY <1>2, <1>5, <2>2, <2>3, <2>4 DEF HeapInv
<1>7. CASE ~(heap[hdr].len >= size) /\ prev' = hdr /\ coal' = TRUE /\ Advance
  <2>1. CASE hdr = Last
    <3>1. pc' \in {"idle", "halted"} /\ hdr' \in Cells
      BY <1>2, <1>7, <2>1, AdvancedFromLast
    <3>2. Variables'
      BY <1>1, <1>2, <1>7, <3>1 DEF HeapInv, Variables
    <3>3. Search' /\ Kick'
      BY <3>1 DEF Search, Kick
    <3> QED
      BY <1>2, <1>5, <3>2, <3>3 DEF HeapInv
  <2>2. CASE hdr \in Blocks
    <3>1. /\ pc' \in {"idle", "walk", "halted"} /\ hdr' \in Cells
          /\ pc' = "walk" => hdr' \in Blocks /\ hdr' = hdr + heap[hdr].len
      BY <1>2, <1>7, <2>2, Advanced
    <3>2. Variables'
      BY <1>1, <1>2, <1>7, <3>1 DEF HeapInv, Variables
    <3>3. Search'
      BY <1>1, <1>2, <1>7, <2>2, <3>1 DEF Search
    <3>4. hdr # BucketLen
      BY <1>1, <1>2, BucketFacts
    <3>5. heap[hdr].len >= 2
      BY <1>2, <2>2, <3>4 DEF Shape
    <3>6. ~kicking
      BY <1>1, <1>7, <3>5 DEF HeapInv, Kick
    <3>7. Kick'
      BY <1>1, <3>6 DEF Kick
    <3> QED
      BY <1>2, <1>5, <3>2, <3>3, <3>7 DEF HeapInv
  <2> QED
    BY <1>2, <2>1, <2>2
<1> QED
  BY <1>4, <1>6, <1>7

LEMMA TakeKeeps ==
  ASSUME HeapInv, Take
  PROVE  HeapInv'
<1>1. /\ pc = "take" /\ heap' = Taken
      /\ UNCHANGED <<osalMemStat, hdr, prev, coal, size, kicking>>
  BY DEF Take
<1>2. /\ Shape /\ hdr \in Blocks /\ ~heap[hdr].used /\ heap[hdr].len >= size
      /\ size \in Nat /\ size >= 2
  BY <1>1 DEF HeapInv, Search, Variables
<1>3. /\ Shape'
      /\ Blocks \subseteq Blocks'
      /\ \A b \in Blocks' \ Blocks : b > hdr /\ ~heap'[b].used
      /\ heap'[hdr].used /\ heap'[hdr].len >= size
      /\ \A b \in Blocks \ {hdr} : heap'[b] = heap[b]
  BY <1>1, <1>2, TakeKeepsShape
<1>4. hdr \in Nat /\ hdr \in Cells /\ heap[hdr].len <= Last /\ hdr # BucketLen
      /\ heap[hdr].len \in Nat
  BY <1>2, BlockFacts, BucketFacts
<1>5. /\ hdr \in Blocks'
      /\ hdr + heap'[hdr].len \in Blocks' \cup {Last}
      /\ \A b \in Blocks' : b > hdr => hdr + heap'[hdr].len <= b
  BY <1>2, <1>3 DEF Shape, Tiled
<1>6. \A b \in Blocks' : b \in Nat
  BY HeapAssumption DEF Blocks, Cells
<1>7. Last \in Cells /\ Blocks' \subseteq Cells
  BY HeapAssumption DEF Blocks, Cells
<1>8. \/ kicking /\ pc' = "kick" /\ owned' = owned
      \/ /\ ~kicking /\ pc' = "idle"
         /\ owned' = owned \cup {[at |-> hdr, len |-> size]}
  BY DEF Take
<1>9. \A o \in owned : /\ o.at \in Blocks \ {hdr} /\ heap[o.at].used
                       /\ heap[o.at].len >= o.len
                       /\ o.at # BucketLen
  BY <1>2 DEF HeapInv, Owners
<1>10. LowestFree'
  <2>1. /\ ff1 \in Blocks \cup {Last}
        /\ NoFreeBelow(ff1)
        /\ ~osalMemStat => ff1 = 0
    BY DEF HeapInv, LowestFree
  <2>2. ff1 <= hdr
    BY <2>1, <1>2 DEF NoFreeBelow
  <2>3. CASE osalMemStat /\ ff1 = hdr
    <3>1. ff1' = hdr + heap'[hdr].len
      BY <2>3 DEF Take
    <3>2. ASSUME NEW b \in Blocks', ~heap'[b].used
          PROVE  ff1' <= b
      <4>1. b # hdr
        BY <3>2, <1>3
      <4>2. b > hdr
        <5>1. CASE b \in Blocks
          <6>1. ~heap[b].used
            BY <5>1, <4>1, <3>2, <1>3
          <6>2. hdr <= b
            BY <6>1, <5>1, <2>1, <2>3 DEF NoFreeBelow
          <6> QED
            BY <6>2, <4>1, <1>4, <1>6
        <5>2. CASE b \notin Blocks
          BY <5>2, <1>3
        <5> QED
          BY <5>1, <5>2
      <4> QED
        BY <3>1, <4>2, <1>5
    <3> QED
      BY <3>1, <3>2, <2>3, <1>1, <1>5 DEF LowestFree, NoFreeBelow
  <2>4. CASE ~(osalMemStat /\ ff1 = hdr)
    <3>1. ff1' = ff1
      BY <2>4 DEF Take
    <3>2. ff1 \in Nat
      BY <2>1, HeapAssumption DEF Blocks, Cells
    <3>3. ASSUME NEW b \in Blocks', ~heap'[b].used
          PROVE  ff1 <= b
      <4>1. CASE b \in Blocks
        BY <4>1, <3>3, <2>1, <1>3 DEF NoFreeBelow
      <4>2. CASE b \notin Blocks
        <5>1. b > hdr
          BY <4>2, <1>3
        <5> QED
          BY <5>1, <3>2, <2>2, <1>4, <1>6
      <4> QED
        BY <4>1, <4>2
    <3> QED
      BY <3>1, <3>3, <2>1, <1>1, <1>3 DEF LowestFree, NoFreeBelow
  <2> QED
    BY <2>3, <2>4
<1>11. ff1' \in Cells
  BY <1>10, <1>7 DEF LowestFree
<1>12. CASE kicking /\ pc' = "kick" /\ owned' = owned
  <2>1. Variables'
    BY <1>1, <1>11, <1>12 DEF HeapInv, Variables
  <2>2. Owners'
    <3>1. \A o \in owned' : /\ o.at \in Blocks' /\ heap'[o.at].used
                            /\ heap'[o.at].len >= o.len
                            /\ o.at # BucketLen
      BY <1>3, <1>9, <1>12
    <3>2. \A o, p \in owned' : o.at = p.at => o = p
      BY <1>12 DEF HeapInv, Owners
    <3>3. ASSUME NEW b \in Blocks', heap'[b].used, b # hdr, b # BucketLen
          PROVE  \E o \in owned : o.at = b
      <4>1. b \in Blocks /\ heap[b].used
        BY <3>3, <1>3
      <4> QED
        BY <4>1, <3>3, <1>1 DEF HeapInv, Owners
    <3> QED
      BY <3>1, <3>2, <3>3, <1>1, <1>12 DEF Owners
  <2>3. Search'
    BY <1>1, <1>2, <1>3, <1>4, <1>9, <1>12 DEF Search
  <2>4. Kick'
    <3>1. size = 2 /\ ~osalMemStat /\ NoFreeBelow(hdr)
      BY <1>1, <1>12 DEF HeapInv, Kick
    <3>2. ASSUME NEW b \in Blocks', ~heap'[b].used
          PROVE  hdr <= b
      <4>1. CASE b \in Blocks
        BY <4>1, <3>1, <3>2, <1>3 DEF NoFreeBelow
      <4>2. CASE b \notin Blocks
        BY <4>2, <1>3, <1>4, <1>6
      <4> QED
        BY <4>1, <4>2
    <3> QED
      BY <3>1, <3>2, <1>1, <1>12 DEF Kick, NoFreeBelow
  <2> QED
    BY <1>3, <1>10, <2>1, <2>2, <2>3, <2>4 DEF HeapInv
<1>13. CASE /\ ~kicking /\ pc' = "idle"
            /\ owned' = owned \cup {[at |-> hdr, len |-> size]}
  <2> DEFINE new == [at |-> hdr, len |-> size]
  <2>1. new.at = hdr /\ new.len = size /\ new \in [at : Cells, len : 1 .. Last]
    BY <1>2, <1>4, HeapAssumption
  <2>2. owned' = owned \cup {new}
    BY <1>13
  <2> HIDE DEF new
  <2>3. Variables'
    BY <1>1, <1>11, <1>13, <2>1, <2>2 DEF HeapInv, Variables
  <2>4. Owners'
    <3>1. \A o \in owned' : /\ o.at \in Blocks' /\ heap'[o.at].used
                            /\ heap'[o.at].len >= o.len
                            /\ o.at # BucketLen
      BY <1>2, <1>3, <1>4, <1>9, <2>1, <2>2
    <3>2. \A o, p \in owned' : o.at = p.at => o = p
      BY <1>9, <2>1, <2>2 DEF HeapInv, Owners
    <3>3. ASSUME NEW b \in Blocks', heap'[b].used, b # BucketLen
          PROVE  \E o \in owned' : o.at = b
      <4>1. CASE b = hdr
        BY <4>1, <2>1, <2>2
      <4>2. CASE b # hdr
        <5>1. b \in Blocks /\ heap[b].used
          BY <4>2, <3>3, <1>3
        <5>2. \E o \in owned : o.at = b
          BY <5>1, <3>3, <1>1 DEF HeapInv, Owners
        <5> QED
          BY <5>2, <2>2
      <4> QED
        BY <4>1, <4>2
    <3> QED
      BY <3>1, <3>2, <3>3 DEF Owners
  <2>5. Search' /\ Kick'
    BY <1>13 DEF Search, Kick
  <2> QED
    BY <1>3, <1>10, <2>3, <2>4, <2>5 DEF HeapInv
<1> QED
  BY <1>8, <1>12, <1>13

-----------------------------------------------------------------------------
(* Freeing and the kick *)

LEMMA ReleaseKeeps ==
  ASSUME HeapInv, Release
  PROVE  HeapInv'
<1>1. PICK o \in owned :
        /\ heap' = Freed(o.at)
        /\ ff1' = IF ff1 > o.at THEN o.at ELSE ff1
        /\ owned' = owned \ {o}
  BY DEF Release
<1>2. /\ pc = "idle"
      /\ UNCHANGED <<osalMemStat, pc, hdr, prev, coal, size, kicking>>
  BY DEF Release
<1> DEFINE b == o.at
<1>3. Shape /\ b \in Blocks /\ b # BucketLen
  BY DEF HeapInv, Owners
<1>4. heap' = Freed(b)
  BY <1>1
<1>5. ff1' = IF ff1 > b THEN b ELSE ff1
  BY <1>1
<1>6. /\ \A p \in owned' : p \in owned /\ p.at # b
      /\ \A p \in owned : p.at = b \/ p \in owned'
  BY <1>1 DEF HeapInv, Owners
<1> HIDE DEF b
<1>7. /\ Shape' /\ Blocks' = Blocks /\ ~heap'[b].used
      /\ \A c \in Blocks \ {b} : heap'[c] = heap[c]
  BY <1>3, <1>4, FreeKeepsShape
<1>8. b \in Nat /\ b \in Cells
  BY <1>3, BlockFacts
<1>9. /\ ff1 \in Blocks \cup {Last} /\ NoFreeBelow(ff1) /\ ff1 \in Nat
      /\ (~osalMemStat => ff1 = 0) /\ ff1 \in Cells
  BY HeapAssumption DEF HeapInv, LowestFree, Variables, Cells
<1>10. \A c \in Blocks : c \in Nat
  BY HeapAssumption DEF Blocks, Cells
<1>11. Variables'
  BY <1>2, <1>5, <1>6, <1>8, <1>9 DEF HeapInv, Variables
<1>12. Owners'
  <2>1. \A p \in owned' : /\ p.at \in Blocks' /\ heap'[p.at].used
                          /\ heap'[p.at].len >= p.len
                          /\ p.at # BucketLen
    BY <1>6, <1>7 DEF HeapInv, Owners
  <2>2. \A p, q \in owned' : p.at = q.at => p = q
    BY <1>6 DEF HeapInv, Owners
  <2>3. ASSUME NEW c \in Blocks', heap'[c].used, c # BucketLen
        PROVE  \E p \in owned' : p.at = c
    <3>1. c \in Blocks /\ c # b /\ heap[c].used
      BY <2>3, <1>7
    <3>2. \E p \in owned : p.at = c
      BY <3>1, <2>3, <1>2 DEF HeapInv, Owners
    <3> QED
      BY <3>1, <3>2, <1>6
  <2> QED
    BY <2>1, <2>2, <2>3 DEF Owners
<1>13. LowestFree'
  <2>1. ff1' \in Blocks' \cup {Last}
    BY <1>3, <1>5, <1>7, <1>9
  <2>2. ff1' <= b /\ ff1' <= ff1
    BY <1>5, <1>8, <1>9
  <2>3. ASSUME NEW c \in Blocks', ~heap'[c].used
        PROVE  ff1' <= c
    <3>1. CASE c = b
      BY <3>1, <2>2
    <3>2. CASE c # b
      <4>1. c \in Blocks /\ ~heap[c].used /\ c \in Nat
        BY <3>2, <2>3, <1>7, <1>10
      <4>2. ff1 <= c
        BY <4>1, <1>9 DEF NoFreeBelow
      <4> QED
        BY <4>1, <4>2, <1>5, <1>8, <1>9
    <3> QED
      BY <3>1, <3>2
  <2>4. ~osalMemStat' => ff1' = 0
    BY <1>2, <1>5, <1>8, <1>9
  <2> QED
    BY <2>1, <2>3, <2>4 DEF LowestFree, NoFreeBelow
<1>14. Search' /\ Kick'
  BY <1>2 DEF Search, Kick
<1> QED
  BY <1>7, <1>11, <1>12, <1>13, <1>14 DEF HeapInv

LEMMA KickFreeKeeps ==
  ASSUME HeapInv, KickFree
  PROVE  HeapInv'
<1>1. /\ pc = "kick" /\ heap' = Freed(hdr) /\ ff1' = hdr
      /\ osalMemStat' /\ osalMemStat' \in BOOLEAN
      /\ pc' = "idle" /\ kicking' = FALSE
      /\ UNCHANGED <<hdr, prev, coal, size, owned>>
  BY DEF KickFree
<1>2. /\ Shape /\ hdr \in Blocks /\ hdr # BucketLen /\ kicking
      /\ \A o \in owned : o.at # hdr
  BY <1>1 DEF HeapInv, Search
<1>3. /\ Shape' /\ Blocks' = Blocks /\ ~heap'[hdr].used
      /\ \A c \in Blocks \ {hdr} : heap'[c] = heap[c]
  BY <1>1, <1>2, FreeKeepsShape
<1>4. hdr \in Nat /\ hdr <= hdr
  BY <1>2, BlockFacts
<1>5. NoFreeBelow(hdr)
  BY <1>1, <1>2 DEF HeapInv, Kick
<1>6. Variables'
  BY <1>1 DEF HeapInv, Variables
<1>7. Owners'
  BY <1>1, <1>2, <1>3 DEF HeapInv, Owners
<1>8. LowestFree'
  BY <1>1, <1>2, <1>3, <1>4, <1>5 DEF LowestFree, NoFreeBelow
<1>9. Search' /\ Kick'
  BY <1>1 DEF Search, Kick
<1> QED
  BY <1>3, <1>6, <1>7, <1>8, <1>9 DEF HeapInv

-----------------------------------------------------------------------------
(* Theorems *)

LEMMA InitHolds == Init => HeapInv
<1> SUFFICES ASSUME Init
             PROVE  HeapInv
  OBVIOUS
<1> USE HeapAssumption
<1>1. /\ BucketLen \in Nat /\ Last \in Nat /\ BigIdx \in Nat
      /\ 0 < BucketLen /\ BucketLen < BigIdx /\ BigIdx < Last
      /\ BigIdx = BucketLen + 1
      /\ BucketLen >= 2 /\ Last - BigIdx >= 2
      /\ 1 \in 1 .. Last /\ BucketLen \in 1 .. Last
      /\ Last - BigIdx \in 1 .. Last
      /\ {0, BucketLen, BigIdx, Last} \subseteq Cells
  BY DEF BigIdx, Cells
<1>2. /\ heap[Last] = EndMark
      /\ heap[0] = Free(BucketLen)
      /\ heap[BucketLen] = InUse(1)
      /\ heap[BigIdx] = Free(Last - BigIdx)
      /\ \A c \in Cells \ {0, BucketLen, BigIdx, Last} : heap[c] = Data
  BY <1>1 DEF Init
<1>3. /\ heap[0] \in Headers /\ heap[0].len = BucketLen /\ ~heap[0].used
      /\ heap[BucketLen] \in Headers /\ heap[BucketLen].len = 1
      /\ heap[BucketLen].used
      /\ heap[BigIdx] \in Headers /\ heap[BigIdx].len = Last - BigIdx
      /\ ~heap[BigIdx].used
  BY <1>1, <1>2, HeaderMade
<1>4. Blocks = {0, BucketLen, BigIdx}
  <2>1. ASSUME NEW c \in Cells
        PROVE  c \in Blocks <=> c \in {0, BucketLen, BigIdx}
    BY <1>1, <1>2, <1>3, HeaderFields DEF Blocks
  <2> QED
    BY <2>1, <1>1 DEF Blocks
<1>5. heap \in [Cells -> Headers \cup {Data, EndMark}]
  <2>1. heap = [c \in Cells |-> heap[c]]
    BY DEF Init
  <2>2. \A c \in Cells : heap[c] \in Headers \cup {Data, EndMark}
    BY <1>2, <1>3
  <2> QED
    BY <2>1, <2>2
<1>6. Tiled
  BY <1>1, <1>2, <1>3, <1>4 DEF Tiled
<1>7. Shape
  BY <1>1, <1>2, <1>3, <1>4, <1>5, <1>6 DEF Shape
<1>8. Variables
  BY <1>1 DEF Init, Variables
<1>9. Owners
  BY <1>3, <1>4 DEF Init, Owners
<1>10. LowestFree
  BY <1>1, <1>4 DEF Init, LowestFree, NoFreeBelow
<1>11. Search /\ Kick
  BY DEF Init, Search, Kick
<1> QED
  BY <1>7, <1>8, <1>9, <1>10, <1>11 DEF HeapInv

LEMMA StepKeeps == HeapInv /\ [Next]_vars => HeapInv'
<1> SUFFICES ASSUME HeapInv, [Next]_vars
             PROVE  HeapInv'
  OBVIOUS
<1>1. CASE Alloc
  <2>1. PICK bytes \in Sizes : Begin(bytes) /\ kicking' = FALSE
    BY <1>1 DEF Alloc
  <2>2. bytes \in Nat /\ bytes >= 1
    BY HeapAssumption
  <2> QED
    BY <2>1, <2>2, BeginKeeps
<1>2. CASE VisitUsed
  BY <1>2, VisitUsedKeeps
<1>3. CASE VisitAdjacent
  BY <1>3, VisitAdjacentKeeps
<1>4. CASE VisitFree
  BY <1>4, VisitFreeKeeps
<1>5. CASE Take
  BY <1>5, TakeKeeps
<1>6. CASE Release
  BY <1>6, ReleaseKeeps
<1>7. CASE KickAlloc
  BY <1>7, BeginKeeps DEF KickAlloc
<1>8. CASE KickFree
  BY <1>8, KickFreeKeeps
<1>9. CASE UNCHANGED vars
  <2>1. Blocks' = Blocks
    BY <1>9 DEF vars, Blocks
  <2> QED
    BY <1>9, <2>1 DEF vars, HeapInv, Shape, Tiled, Variables, Owners,
                      LowestFree, NoFreeBelow, Search, Kick
<1> QED
  BY <1>1, <1>2, <1>3, <1>4, <1>5, <1>6, <1>7, <1>8, <1>9 DEF Next

\* The inductive invariant holds of every reachable state of the allocator.
THEOREM HeapInvariant == Spec => []HeapInv
<1> QED
  BY InitHolds, StepKeeps, PTL DEF Spec

\* Every cell of the heap is data, a header or the end mark, and a search of
\* osal_mem_alloc always stands on a header.
THEOREM TypeCorrect == Spec => []TypeOK
<1>1. HeapInv => TypeOK
  BY DEF HeapInv, Shape, Variables, Search, TypeOK
<1> QED
  BY <1>1, HeapInvariant, PTL

\* The merges and splits of osal_mem_alloc keep the blocks tiling the heap;
\* callers own disjoint blocks that are long enough, and no block in use is
\* without an owner.
THEOREM BlocksHaveOneOwner == Spec => []BlocksOwned
<1>1. HeapInv => BlocksOwned
  BY DEF HeapInv, Shape, Owners, BlocksOwned
<1> QED
  BY <1>1, HeapInvariant, PTL

\* A search that begins at ff1 passes over no free block, and ff1 is never a
\* header that a merge has removed.
THEOREM SearchMissesNothing == Spec => []FirstFree
<1>1. HeapInv => FirstFree
  BY DEF HeapInv, LowestFree, NoFreeBelow, FirstFree, IsFree
<1> QED
  BY <1>1, HeapInvariant, PTL

-----------------------------------------------------------------------------
(* A search that fails has seen all there is. *)

SearchStart == IF ~osalMemStat \/ size <= SmallBlk THEN 0 ELSE BigIdx

FreeRun(c) == \A d \in c .. c + size - 1 : IsFreeCell(d)

\* No run of free cells that is long enough begins where the search has been;
\* the block it may merge into is too short by itself.
Passed ==
  pc = "walk" =>
    /\ coal => heap[prev].len < size
    /\ \A c \in SearchStart .. Last - size :
         FreeRun(c) => (IF coal THEN prev ELSE hdr) <= c

LEMMA UsedCell ==
  ASSUME Shape, NEW b \in Blocks, heap[b].used,
         NEW d \in Nat, b <= d, d < b + heap[b].len
  PROVE  ~IsFreeCell(d)
<1> SUFFICES ASSUME NEW a \in Blocks, ~heap[a].used, a <= d, d < a + heap[a].len
             PROVE  FALSE
  BY DEF IsFreeCell, IsFree
<1>1. /\ a \in Nat /\ b \in Nat
      /\ heap[a].len \in Nat /\ heap[b].len \in Nat
  BY BlockFacts
<1>2. CASE a < b
  <2>1. a + heap[a].len <= b
    BY <1>2, Apart
  <2> QED
    BY <2>1, <1>1
<1>3. CASE b < a
  <2>1. b + heap[b].len <= a
    BY <1>3, Apart
  <2> QED
    BY <2>1, <1>1
<1>4. CASE a = b
  BY <1>4
<1> QED
  BY <1>1, <1>2, <1>3, <1>4

LEMMA RunFacts ==
  ASSUME HeapInv, pc = "walk", NEW c \in SearchStart .. Last - size
  PROVE  /\ c \in Nat /\ c + size <= Last
         /\ size \in Nat /\ size >= 2 /\ Last \in Nat
<1>1. size \in Nat /\ size >= 2 /\ Last \in Nat /\ BigIdx \in Nat
  BY HeapAssumption DEF HeapInv, Variables, Search, BigIdx
<1>2. SearchStart \in Nat
  BY <1>1 DEF SearchStart
<1> QED
  BY <1>1, <1>2

LEMMA BeginPassed ==
  ASSUME HeapInv, NEW bytes \in Nat, bytes >= 1, Begin(bytes)
  PROVE  Passed'
<1>1. pc' = "walk" /\ ~coal' /\ UNCHANGED <<heap, ff1, osalMemStat>>
  BY DEF Begin
<1>2. PICK n \in Nat : n >= 2 /\ size' = n /\ hdr' = SearchFrom(n)
  BY CellsFacts DEF Begin
<1>3. /\ Shape /\ ff1 \in Cells /\ NoFreeBelow(ff1)
      /\ BigIdx \in Nat /\ Last \in Nat
  BY HeapAssumption DEF HeapInv, Variables, LowestFree, BigIdx
<1> DEFINE start == IF ~osalMemStat \/ n <= SmallBlk THEN 0 ELSE BigIdx
<1>4. SUFFICES ASSUME NEW c \in start .. Last - n,
                      \A d \in c .. c + n - 1 : IsFreeCell(d)
               PROVE  SearchFrom(n) <= c
  BY <1>1, <1>2 DEF Passed, SearchStart, FreeRun, IsFreeCell, IsFree, Blocks
<1>5. c \in Nat /\ start <= c
  BY <1>2, <1>3
<1>6. CASE SearchFrom(n) = ff1
  <2>1. c \in c .. c + n - 1
    BY <1>2, <1>5
  <2>2. PICK b \in Blocks : IsFree(b) /\ b <= c
    BY <2>1, <1>4 DEF IsFreeCell
  <2>3. ~heap[b].used
    BY <2>2 DEF IsFree
  <2>4. ff1 <= b /\ b \in Nat /\ ff1 \in Nat
    BY <2>3, <1>3, BlockFacts DEF NoFreeBelow, Cells
  <2> QED
    BY <2>2, <2>4, <1>5, <1>6
<1>7. CASE SearchFrom(n) # ff1
  BY <1>5, <1>7 DEF SearchFrom
<1> QED
  BY <1>6, <1>7

\* A run does not begin in front of a block in use that it must reach, nor in
\* it.
LEMMA UsedPassed ==
  ASSUME HeapInv, Passed, VisitUsed,
         NEW c \in SearchStart .. Last - size, FreeRun(c)
  PROVE  hdr \in Blocks /\ hdr + heap[hdr].len <= c
<1>1. Shape /\ pc = "walk" /\ heap[hdr].used /\ hdr \in Blocks \cup {Last}
  BY DEF HeapInv, Search, VisitUsed
<1>2. hdr \in Blocks
  BY <1>1, BucketFacts, EndMarkFields
<1>3. hdr \in Nat /\ heap[hdr].len \in Nat
  BY <1>1, <1>2, BlockFacts
<1>4. c \in Nat /\ size \in Nat /\ size >= 2
  BY <1>1, RunFacts
<1>5. IsFreeCell(c)
  BY <1>4 DEF FreeRun
<1>6. hdr <= c
  <2>1. CASE ~coal
    BY <2>1, <1>1 DEF Passed
  <2>2. CASE coal
    <3>1. /\ prev \in Blocks /\ prev + heap[prev].len = hdr
          /\ heap[prev].len < size /\ prev <= c
      BY <2>2, <1>1 DEF HeapInv, Search, Passed
    <3>2. prev \in Nat /\ heap[prev].len \in Nat
      BY <3>1, <1>1, BlockFacts
    <3>3. SUFFICES ASSUME c < hdr
                   PROVE  FALSE
      BY <1>3, <1>4
    <3>4. hdr \in c .. c + size - 1
      BY <3>1, <3>2, <3>3, <1>3, <1>4
    <3>5. IsFreeCell(hdr)
      BY <3>4 DEF FreeRun
    <3>6. 1 <= heap[hdr].len
      BY <1>1, <1>2, BlockFacts
    <3> QED
      BY <3>5, <3>6, <1>1, <1>2, <1>3, UsedCell
  <2> QED
    BY <2>1, <2>2
<1>7. ~(c < hdr + heap[hdr].len)
  BY <1>1, <1>2, <1>4, <1>5, <1>6, UsedCell
<1> QED
  BY <1>2, <1>3, <1>4, <1>7

\* Merging makes no cell free.
LEMMA MergeFreesNothing ==
  ASSUME HeapInv, VisitAdjacent, NEW d \in Nat, IsFreeCell(d)'
  PROVE  IsFreeCell(d)
<1>1. /\ Shape /\ hdr \in Blocks /\ prev \in Blocks
      /\ ~heap[hdr].used /\ ~heap[prev].used /\ prev + heap[prev].len = hdr
      /\ heap' = Merged
  BY DEF HeapInv, Search, VisitAdjacent
<1>2. /\ Blocks' = Blocks \ {hdr}
      /\ heap'[prev].len = heap[prev].len + heap[hdr].len
      /\ \A b \in Blocks \ {prev, hdr} : heap'[b] = heap[b]
  BY <1>1, MergeKeepsShape
<1>3. PICK b \in Blocks' : ~heap'[b].used /\ b <= d /\ d < b + heap'[b].len
  BY DEF IsFreeCell, IsFree
<1>4. /\ prev \in Nat /\ hdr \in Nat
      /\ heap[prev].len \in Nat /\ heap[hdr].len \in Nat
  BY <1>1, BlockFacts
<1>5. CASE b = prev
  <2>1. \/ prev <= d /\ d < prev + heap[prev].len
        \/ hdr <= d /\ d < hdr + heap[hdr].len
    BY <1>1, <1>2, <1>3, <1>4, <1>5
  <2> QED
    BY <2>1, <1>1 DEF IsFreeCell, IsFree
<1>6. CASE b # prev
  BY <1>2, <1>3, <1>6 DEF IsFreeCell, IsFree
<1> QED
  BY <1>5, <1>6

LEMMA VisitUsedPassed ==
  ASSUME HeapInv, Passed, VisitUsed
  PROVE  Passed'
<1>1. /\ ~coal' /\ pc = "walk" /\ Advance /\ Shape
      /\ UNCHANGED <<heap, osalMemStat, size>>
  BY DEF VisitUsed, HeapInv
<1>2. SUFFICES ASSUME pc' = "walk",
                      NEW c \in SearchStart .. Last - size, FreeRun(c)
               PROVE  hdr' <= c
  BY <1>1 DEF Passed, SearchStart, FreeRun, IsFreeCell, IsFree, Blocks
<1>3. hdr \in Blocks /\ hdr + heap[hdr].len <= c
  BY <1>2, UsedPassed
<1> QED
  BY <1>1, <1>2, <1>3, Advanced

LEMMA VisitAdjacentPassed ==
  ASSUME HeapInv, Passed, VisitAdjacent
  PROVE  Passed'
<1>1. /\ pc = "walk" /\ coal /\ UNCHANGED <<osalMemStat, size, prev, coal>>
      /\ pc' = "take" \/ heap'[prev].len < size
  <2>1. /\ pc = "walk" /\ coal /\ UNCHANGED <<osalMemStat, size, prev, coal>>
        /\ pc' = "take" \/ ~(heap'[prev].len >= size)
    BY DEF VisitAdjacent
  <2>2. /\ Shape /\ hdr \in Blocks /\ prev \in Blocks
        /\ ~heap[hdr].used /\ ~heap[prev].used /\ prev + heap[prev].len = hdr
        /\ heap' = Merged
    BY DEF HeapInv, Search, VisitAdjacent
  <2>3. heap'[prev].len = heap[prev].len + heap[hdr].len
    BY <2>2, MergeKeepsShape
  <2>4. heap[prev].len \in Nat /\ heap[hdr].len \in Nat /\ size \in Nat
    BY <2>2, BlockFacts DEF HeapInv, Variables
  <2> QED
    BY <2>1, <2>3, <2>4
<1>2. SUFFICES ASSUME pc' = "walk",
                      NEW c \in SearchStart .. Last - size, FreeRun(c)'
               PROVE  prev <= c
  BY <1>1 DEF Passed, SearchStart
<1>3. c \in Nat /\ size \in Nat
  BY <1>1, RunFacts
<1>4. FreeRun(c)
  <2>1. SUFFICES ASSUME NEW d \in c .. c + size - 1
                 PROVE  IsFreeCell(d)
    BY DEF FreeRun
  <2>2. IsFreeCell(d)' /\ d \in Nat
    BY <2>1, <1>1, <1>2, <1>3 DEF FreeRun
  <2> QED
    BY <2>2, MergeFreesNothing
<1> QED
  BY <1>1, <1>4 DEF Passed

LEMMA VisitFreePassed ==
  ASSUME HeapInv, Passed, VisitFree
  PROVE  Passed'
<1>1. /\ pc = "walk" /\ ~coal /\ UNCHANGED <<heap, osalMemStat, size>>
      /\ \/ pc' = "take"
         \/ ~(heap[hdr].len >= size) /\ prev' = hdr /\ coal'
  BY DEF VisitFree
<1>2. size \in Nat /\ heap[hdr].len \in Nat
  <2>1. Shape /\ hdr \in Blocks \cup {Last} /\ size \in Nat
    BY <1>1 DEF HeapInv, Search, Variables
  <2> QED
    BY <2>1, BlockFacts, BucketFacts, EndMarkFields
<1>3. SUFFICES ASSUME pc' = "walk",
                      NEW c \in SearchStart .. Last - size, FreeRun(c)
               PROVE  hdr <= c
  BY <1>1, <1>2 DEF Passed, SearchStart, FreeRun, IsFreeCell, IsFree, Blocks
<1> QED
  BY <1>1, <1>3 DEF Passed

LEMMA StepPasses == HeapInv /\ Passed /\ [Next]_vars => Passed'
<1> SUFFICES ASSUME HeapInv, Passed, [Next]_vars
             PROVE  Passed'
  OBVIOUS
<1>1. CASE Alloc
  <2>1. PICK bytes \in Sizes : Begin(bytes)
    BY <1>1 DEF Alloc
  <2>2. bytes \in Nat /\ bytes >= 1
    BY HeapAssumption
  <2> QED
    BY <2>1, <2>2, BeginPassed
<1>2. CASE VisitUsed
  BY <1>2, VisitUsedPassed
<1>3. CASE VisitAdjacent
  BY <1>3, VisitAdjacentPassed
<1>4. CASE VisitFree
  BY <1>4, VisitFreePassed
<1>5. CASE Take
  BY <1>5 DEF Take, Passed
<1>6. CASE Release
  BY <1>6 DEF Release, Passed
<1>7. CASE KickAlloc
  BY <1>7, BeginPassed DEF KickAlloc
<1>8. CASE KickFree
  BY <1>8 DEF KickFree, Passed
<1>9. CASE UNCHANGED vars
  BY <1>9 DEF vars, Passed, SearchStart, FreeRun, IsFreeCell, IsFree, Blocks
<1> QED
  BY <1>1, <1>2, <1>3, <1>4, <1>5, <1>6, <1>7, <1>8, <1>9 DEF Next

\* The last block a failing search visits ends the heap, and what lies there is
\* too short.
LEMMA FailingSearch ==
  ASSUME HeapInv, Passed, Next, pc = "walk", pc' \in {"idle", "halted"},
         NEW c \in SearchStart .. Last - size, FreeRun(c)
  PROVE  FALSE
<1>1. /\ c \in Nat /\ c + size <= Last /\ Last \in Nat
      /\ size \in Nat /\ size >= 2
      /\ Shape /\ hdr \in Blocks \cup {Last}
  BY RunFacts DEF HeapInv, Search
<1>2. VisitUsed \/ VisitAdjacent \/ VisitFree
  BY DEF Next, Alloc, Begin, Take, Release, KickAlloc, KickFree
<1>3. Advance
  BY <1>2 DEF VisitUsed, VisitAdjacent, VisitFree
<1>4. hdr \in Blocks => hdr + heap[hdr].len = Last
  <2>1. ASSUME hdr \in Blocks
        PROVE  /\ hdr + heap[hdr].len \in Blocks \cup {Last}
               /\ heap[hdr + heap[hdr].len] = EndMark
    BY <2>1, <1>1, <1>3, BlockFacts DEF Advance
  <2>2. \A b \in Blocks : heap[b] # EndMark
    BY <1>1, BlockFacts, HeaderFields
  <2> QED
    BY <2>1, <2>2
<1>5. CASE VisitUsed
  <2>1. hdr \in Blocks /\ hdr + heap[hdr].len <= c
    BY <1>5, UsedPassed
  <2> QED
    BY <2>1, <1>1, <1>4
<1>6. CASE VisitFree
  <2>1. hdr <= c /\ ~(heap[hdr].len >= size)
    BY <1>6 DEF VisitFree, Passed
  <2>2. hdr \in Nat /\ heap[hdr].len \in Nat
    BY <1>1, BlockFacts, BucketFacts, EndMarkFields
  <2>3. CASE hdr = Last
    BY <2>1, <2>3, <1>1
  <2>4. CASE hdr \in Blocks
    BY <2>1, <2>2, <2>4, <1>1, <1>4
  <2> QED
    BY <2>3, <2>4, <1>1
<1>7. CASE VisitAdjacent
  <2>1. /\ hdr \in Blocks /\ prev \in Blocks
        /\ ~heap[hdr].used /\ ~heap[prev].used /\ prev + heap[prev].len = hdr
        /\ heap' = Merged /\ prev <= c
    BY <1>7 DEF HeapInv, Search, VisitAdjacent, Passed
  <2>2. heap'[prev].len = heap[prev].len + heap[hdr].len
    BY <2>1, <1>1, MergeKeepsShape
  <2>3. ~(heap'[prev].len >= size)
    BY <1>7 DEF VisitAdjacent
  <2>4. prev \in Nat /\ heap[prev].len \in Nat /\ heap[hdr].len \in Nat
        /\ hdr \in Nat
    BY <2>1, <1>1, BlockFacts
  <2> QED
    BY <2>1, <2>2, <2>3, <2>4, <1>1, <1>4
<1> QED
  BY <1>2, <1>5, <1>6, <1>7

\* osal_mem_alloc returns NULL only when the part of the heap it searches has
\* nowhere enough free cells side by side: no place is passed over by the
\* choice of where to begin, by the merging, or at the end.
THEOREM FailsOnlyForWantOfRoom == Spec => FailsOnlyWhenFull
<1>1. Init => Passed
  BY DEF Init, Passed
<1>2. ASSUME HeapInv, Passed, Next, pc = "walk", pc' \in {"idle", "halted"},
             NEW c \in SearchStart .. Last - size
      PROVE  \E d \in c .. c + size - 1 : ~IsFreeCell(d)
  BY <1>2, FailingSearch DEF FreeRun
<1>3. HeapInv /\ Passed /\ [Next]_vars =>
        [pc = "walk" /\ pc' \in {"idle", "halted"} =>
           \A c \in (IF ~osalMemStat \/ size <= SmallBlk THEN 0 ELSE BigIdx)
                      .. Last - size :
             \E d \in c .. c + size - 1 : ~IsFreeCell(d)]_vars
  BY <1>2 DEF SearchStart
<1> QED
  BY <1>1, <1>3, HeapInvariant, StepPasses, PTL DEF Spec, FailsOnlyWhenFull
=============================================================================
