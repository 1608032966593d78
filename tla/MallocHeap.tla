----------------------------- MODULE MallocHeap -----------------------------
(***************************************************************************)
(* The allocator of Lab 4/src/mm.c: boundary tags, an explicit free list,  *)
(* first fit, immediate coalescing.                                        *)
(*                                                                         *)
(* The heap is modelled word by word, at the byte addresses the code uses, *)
(* with tags, links and user data in the same words: an error of one       *)
(* operation shows in the words another one reads.  A function that        *)
(* changes the heap is an operator from a heap to a heap; the operators    *)
(* have the names of the C functions and macros.  Words and pointers are   *)
(* four bytes (WSIZE), as the build for this code has them.                *)
(*                                                                         *)
(* Operations are sequential, so each call is one step.  The user is any   *)
(* program that frees and reallocates only what it holds and writes only   *)
(* inside the sizes it asked for.                                          *)
(***************************************************************************)
EXTENDS Integers, FiniteSets

CONSTANTS
    Handle,     \* the user's pointer variables; numbers, written as its data
    Sizes,      \* sizes the user asks for, in bytes
    Chunk,      \* CHUNKSIZE
    MaxHeap,    \* bound: bytes mem_sbrk can hand out
    SizeMod,    \* SIZE_MAX + 1
    Resets      \* bound: times the heap is reset and mm_init called again

ASSUME HeapConstants ==
    /\ Handle \subseteq Nat \ {0} /\ Sizes \subseteq 0..SizeMod-1
    /\ Chunk \in Nat /\ Chunk % 8 = 0 /\ Chunk >= 16
    /\ MaxHeap \in Nat /\ MaxHeap % 8 = 0 /\ MaxHeap >= 32 + Chunk
    /\ SizeMod \in Nat /\ SizeMod % 16 = 0 /\ MaxHeap < SizeMod \div 2
    /\ Resets \in Nat

VARIABLES
    heap,   \* mem: the words, brk: the end of the heap, heap_listp: the list's head
    ptr,    \* per handle: the block it holds, or NULL
    size,   \* per handle: the size asked for
    resets

vars == <<heap, ptr, size, resets>>

NULL == 0       \* no block starts there
Word == {4 * k : k \in 0..(MaxHeap \div 4 - 1)}

-----------------------------------------------------------------------------
\* The macros.

PACK(n, alloc)   == n + alloc
GET_SIZE(h, p)   == h.mem[p] - (h.mem[p] % 8)
GET_ALLOC(h, p)  == h.mem[p] % 2
PUT(h, p, v)     == [h EXCEPT !.mem[p] = v]
SetHead(h, bp)   == [h EXCEPT !.heap_listp = bp]
SetBrk(h, n)     == [h EXCEPT !.brk = n]
HDRP(bp)         == bp - 4
FTRP(h, bp)      == bp + GET_SIZE(h, HDRP(bp)) - 8
NEXT_BLKP(h, bp) == bp + GET_SIZE(h, bp - 4)
PREV_BLKP(h, bp) == bp - GET_SIZE(h, bp - 8)
PREV_FP(h, p)    == h.mem[p]
NEXT_FP(h, p)    == h.mem[p + 4]

\* PUT(HDRP(bp), ..); PUT(FTRP(bp), ..): the footer goes where the new header says.
PutTags(h, bp, n, alloc) ==
    LET a == PUT(h, HDRP(bp), PACK(n, alloc)) IN PUT(a, FTRP(a, bp), PACK(n, alloc))

-----------------------------------------------------------------------------
\* The free list.

remove_free_OneWay(h, bp) ==    \* mutant: the next block keeps its back link
    LET prev == PREV_FP(h, bp)
        next == NEXT_FP(h, bp)
        a == IF prev # NULL THEN PUT(h, prev + 4, next) ELSE SetHead(h, next)
    IN  PUT(PUT(a, bp, NULL), bp + 4, NULL)

remove_free(h, bp) ==
    LET prev == PREV_FP(h, bp)
        next == NEXT_FP(h, bp)
        a == IF prev # NULL THEN PUT(h, prev + 4, next) ELSE SetHead(h, next)
        b == IF next # NULL THEN PUT(a, next, prev) ELSE a
    IN  PUT(PUT(b, bp, NULL), bp + 4, NULL)

add_free(h, bp) ==
    LET a == PUT(PUT(h, bp + 4, h.heap_listp), bp, NULL)
        b == IF h.heap_listp # NULL THEN PUT(a, h.heap_listp, bp) ELSE a
    IN  SetHead(b, bp)

\* What coalesce and the functions that return a block return.
Result(h, bp) == [heap |-> h, bp |-> bp]

coalesce_Forward(h, bp) ==      \* mutant: only the block behind is merged
    LET next == NEXT_BLKP(h, bp)
        total == GET_SIZE(h, HDRP(bp)) + GET_SIZE(h, HDRP(next))
    IN  Result(add_free(IF GET_ALLOC(h, HDRP(next)) = 1 THEN h
                        ELSE PutTags(remove_free(h, next), bp, total, 0), bp), bp)

\* The four cases of coalesce: the neighbours that are free leave the list,
\* and one block with the tags of the whole joins it.  A "previous block"
\* of size 0 is the zeroed gap before the first block.
coalesce(h, bp) ==
    LET prev == PREV_BLKP(h, bp)
        next == NEXT_BLKP(h, bp)
        prev_alloc == GET_ALLOC(h, FTRP(h, prev)) = 1 \/ prev = bp
        next_alloc == GET_ALLOC(h, HDRP(next)) = 1
        n == GET_SIZE(h, HDRP(bp))
        a == IF prev_alloc THEN h ELSE remove_free(h, prev)
        b == IF next_alloc THEN a ELSE remove_free(a, next)
        first == IF prev_alloc THEN bp ELSE prev
        total == n + (IF prev_alloc THEN 0 ELSE GET_SIZE(h, HDRP(prev)))
                   + (IF next_alloc THEN 0 ELSE GET_SIZE(h, HDRP(next)))
        c == IF prev_alloc /\ next_alloc THEN b ELSE PutTags(b, first, total, 0)
    IN  Result(add_free(c, first), first)

place_Tight(h, bp, asize) ==    \* mutant: DSIZE for 2 * DSIZE
    LET csize == GET_SIZE(h, HDRP(bp))
        taken == remove_free(PutTags(h, bp, asize, 1), bp)
        rest  == NEXT_BLKP(taken, bp)
    IN  IF csize - asize >= 8
        THEN coalesce(PutTags(taken, rest, csize - asize, 0), rest).heap
        ELSE remove_free(PutTags(h, bp, csize, 1), bp)

place(h, bp, asize) ==
    LET csize == GET_SIZE(h, HDRP(bp))
        taken == remove_free(PutTags(h, bp, asize, 1), bp)
        rest  == NEXT_BLKP(taken, bp)
    IN  IF csize - asize >= 16
        THEN coalesce(PutTags(taken, rest, csize - asize, 0), rest).heap
        ELSE remove_free(PutTags(h, bp, csize, 1), bp)

find_fit_Head(h, asize) ==      \* mutant: only the first block is tried
    IF GET_ALLOC(h, HDRP(h.heap_listp)) = 0 /\ GET_SIZE(h, HDRP(h.heap_listp)) >= asize
    THEN h.heap_listp ELSE NULL

\* First fit along the list; the prologue, which is marked allocated, ends it.
\* (A link out of the heap would end it too: FreeListExact says there is none.)
find_fit(h, asize) ==
    LET fit[bp \in Word] ==
            IF bp = NULL \/ GET_ALLOC(h, HDRP(bp)) = 1 THEN NULL
            ELSE IF GET_SIZE(h, HDRP(bp)) >= asize THEN bp
            ELSE IF NEXT_FP(h, bp) \in Word THEN fit[NEXT_FP(h, bp)] ELSE NULL
    IN  fit[h.heap_listp]

\* mem_sbrk is memlib's: the next bytes of one area, until it is used up.
mem_sbrk(h, n) ==
    IF h.brk + n <= MaxHeap THEN Result(SetBrk(h, h.brk + n), h.brk) ELSE Result(h, -1)

extend_heap_Open(h, words) ==   \* mutant: no epilogue behind the new block
    LET n == IF words % 2 = 1 THEN (words + 1) * 4 ELSE words * 4
        s == mem_sbrk(h, n)
    IN  IF s.bp = -1 THEN Result(h, NULL) ELSE coalesce(PutTags(s.heap, s.bp, n, 0), s.bp)

extend_heap(h, words) ==
    LET n == IF words % 2 = 1 THEN (words + 1) * 4 ELSE words * 4
        s == mem_sbrk(h, n)
    IN  IF s.bp = -1 THEN Result(h, NULL)
        ELSE coalesce(PUT(PutTags(s.heap, s.bp, n, 0), s.bp + n - 4, PACK(0, 1)), s.bp)

-----------------------------------------------------------------------------
\* mm_init, mm_malloc, mm_free, mm_realloc.

mm_init(h) ==       \* from an area that mem_reset_brk has emptied, or a new one
    LET s == mem_sbrk(SetBrk(h, 0), 32)
        a == PUT(PUT(s.heap, s.bp, 0), s.bp + 4, PACK(8, 1))
        b == PUT(PUT(a, s.bp + 8, PACK(8, 1)), s.bp + 12, PACK(0, 1))
    IN  extend_heap(SetHead(b, s.bp + 8), Chunk \div 4).heap

Adjusted_Bare(n) == IF n <= 8 THEN 16 ELSE 8 * (((n + 7) % SizeMod) \div 8)  \* mutant: no room for the tags
Adjusted(n) == IF n <= 8 THEN 16 ELSE 8 * (((n + 15) % SizeMod) \div 8)

mm_malloc(h, n) ==
    LET asize == Adjusted(n)
        bp    == find_fit(h, asize)
        more  == extend_heap(h, (IF asize > Chunk THEN asize ELSE Chunk) \div 4)
    IN  IF n = 0 THEN Result(h, NULL)
        ELSE IF bp # NULL THEN Result(place(h, bp, asize), bp)
        ELSE IF more.bp = NULL THEN Result(h, NULL)
        ELSE Result(place(more.heap, more.bp, asize), more.bp)

mm_free(h, bp) ==
    IF bp = NULL THEN h ELSE coalesce(PutTags(h, bp, GET_SIZE(h, HDRP(bp)), 0), bp).heap

\* memcpy(newptr, oldptr, n), both word-aligned.
Copy(h, to, from, n) ==
    [h EXCEPT !.mem = [p \in Word |-> IF p >= to /\ p < to + n THEN h.mem[from + (p - to)]
                                      ELSE h.mem[p]]]

\* The last lines of mm_realloc, r being the result of its mm_malloc.
Moved_Kept(r, old, oldsize) == Result(Copy(r.heap, r.bp, old, oldsize - 4), r.bp)  \* mutant: no mm_free
Moved_Late(r, old, oldsize) ==  \* mutant: the copy is made from the block freed
    Result(Copy(mm_free(r.heap, old), r.bp, old, oldsize - 4), r.bp)
Moved(r, old, oldsize) == Result(mm_free(Copy(r.heap, r.bp, old, oldsize - 4), old), r.bp)

mm_realloc(h, old, n) ==
    LET oldsize == GET_SIZE(h, HDRP(old))
        newsize == (n + 8) % SizeMod
        next    == NEXT_BLKP(h, old)
        both    == oldsize + GET_SIZE(h, HDRP(next))
        new     == mm_malloc(h, n)
    IN  IF n >= SizeMod \div 2 THEN Result(h, NULL)
        ELSE IF n = 0 THEN Result(mm_free(h, old), NULL)
        ELSE IF old = NULL THEN mm_malloc(h, n)
        ELSE IF newsize <= oldsize THEN Result(h, old)
        ELSE IF GET_ALLOC(h, HDRP(next)) = 0 /\ both >= newsize
             THEN Result(PutTags(remove_free(h, next), old, both, 1), old)
        ELSE IF new.bp = NULL THEN Result(h, NULL)
        ELSE Moved(new, old, oldsize)

-----------------------------------------------------------------------------
\* The user's calls.

NewHeap == [mem |-> [p \in Word |-> 0], brk |-> 0, heap_listp |-> NULL]

Init ==
    /\ heap = mm_init(NewHeap)
    /\ ptr = [x \in Handle |-> NULL]
    /\ size = [x \in Handle |-> 0]
    /\ resets = 0

\* The user writes its mark in what it has of a block but the first n bytes.
Write(h, x, bp, total, n) ==
    [h EXCEPT !.mem = [p \in Word |-> IF p >= bp + n /\ p < bp + total THEN x ELSE h.mem[p]]]

Hold(x, bp, n) ==
    /\ ptr' = [ptr EXCEPT ![x] = bp]
    /\ size' = [size EXCEPT ![x] = n]
    /\ UNCHANGED resets

\* A new block is written in full.
Malloc(x, n) ==
    /\ ptr[x] = NULL
    /\ LET r == mm_malloc(heap, n)
       IN  IF r.bp = NULL THEN heap' = r.heap /\ UNCHANGED <<ptr, size, resets>>
           ELSE heap' = Write(r.heap, x, r.bp, n, 0) /\ Hold(x, r.bp, n)

Free(x) ==
    /\ ptr[x] # NULL
    /\ heap' = mm_free(heap, ptr[x]) /\ Hold(x, NULL, 0)

\* Of a reallocated block the user writes what it has gained.  A failed
\* realloc leaves it the old block.
Realloc(x, n) ==
    /\ ptr[x] # NULL
    /\ LET r == mm_realloc(heap, ptr[x], n)
       IN  IF r.bp # NULL THEN heap' = Write(r.heap, x, r.bp, n, size[x]) /\ Hold(x, r.bp, n)
           ELSE IF n = 0 THEN heap' = r.heap /\ Hold(x, NULL, 0)
           ELSE heap' = r.heap /\ UNCHANGED <<ptr, size, resets>>

Reset ==            \* mem_reset_brk and mm_init: the old words stay in the area
    /\ resets < Resets /\ resets' = resets + 1
    /\ heap' = mm_init(heap)
    /\ ptr' = [x \in Handle |-> NULL]
    /\ size' = [x \in Handle |-> 0]

Next ==
    \/ \E x \in Handle : \/ Free(x)
                         \/ \E n \in Sizes : Malloc(x, n) \/ Realloc(x, n)
    \/ Reset

Spec == Init /\ [][Next]_vars

-----------------------------------------------------------------------------
Aligned == {8 * k : k \in 0..(MaxHeap \div 8)}      \* for doubles, as malloc's pointers are

TypeOK ==
    /\ heap \in [mem : [Word -> Int], brk : Aligned, heap_listp : Aligned]
    /\ ptr \in [Handle -> Aligned] /\ size \in [Handle -> Sizes \cup {0}]
    /\ resets \in 0..Resets

\* The blocks met by following the headers from the first one, in address
\* order, up to the epilogue; -1 marks a walk that leaves the heap.
Walk ==
    LET walk[bp \in 32..MaxHeap] ==
            IF bp > heap.brk \/ bp % 8 # 0 THEN {-1}
            ELSE IF heap.mem[HDRP(bp)] = PACK(0, 1)
                 THEN IF bp = heap.brk THEN {} ELSE {-1}
            ELSE IF GET_SIZE(heap, HDRP(bp)) = 0 \/ NEXT_BLKP(heap, bp) > MaxHeap THEN {-1}
            ELSE {bp} \cup walk[NEXT_BLKP(heap, bp)]
    IN  walk[32]

SizeOf(bp) == GET_SIZE(heap, HDRP(bp))
IsFree(bp) == GET_ALLOC(heap, HDRP(bp)) = 0
FreeBlocks == {bp \in Walk : bp # -1 /\ IsFree(bp)}

\* After every call the blocks tile the heap exactly, each with room for
\* its tags and links and with a footer that repeats its header.
HeapTiled ==
    /\ TypeOK
    /\ -1 \notin Walk
    /\ \A bp \in Walk : /\ SizeOf(bp) >= 16
                        /\ heap.mem[FTRP(heap, bp)] = heap.mem[HDRP(bp)]

\* The free list holds every free block once and nothing else, its links go
\* both ways, and it ends at the prologue: no free blocks form a cycle of
\* their own beside it.
FreeListExact ==
    LET succ == [bp \in FreeBlocks |-> NEXT_FP(heap, bp)] IN
    /\ heap.heap_listp \in FreeBlocks \cup {8}
    /\ \A bp \in FreeBlocks :
          /\ succ[bp] \in FreeBlocks \cup {8}
          /\ PREV_FP(heap, bp) = IF bp = heap.heap_listp THEN NULL
                                 ELSE CHOOSE b \in FreeBlocks \cup {-1} :
                                          IF b = -1 THEN \A d \in FreeBlocks : succ[d] # bp
                                          ELSE succ[b] = bp
    /\ \A b, d \in FreeBlocks : b # d => succ[b] # succ[d]
    /\ \A ring \in (SUBSET FreeBlocks) \ {{}} : \E b \in ring : succ[b] \notin ring

\* coalesce leaves no two free neighbours.
Coalesced == \A bp \in FreeBlocks : NEXT_BLKP(heap, bp) \notin FreeBlocks

\* Exactly the blocks marked allocated are those the user holds: none is
\* handed out twice, none is lost.
NoLeak == {bp \in Walk : bp = -1 \/ ~IsFree(bp)} = {ptr[x] : x \in Handle} \ {NULL}

\* What a user has written stays until it frees the block, whatever other
\* calls do, and realloc brings it along.
PayloadIntact ==
    \A x \in Handle : \A p \in ptr[x]..(ptr[x] + size[x] - 1) : p % 4 = 0 => heap.mem[p] = x

\* A block is as large as the size it was asked for (Lab 4/README.md:34).
BlockFits == \A x \in Handle : ptr[x] # NULL => SizeOf(ptr[x]) >= size[x] + 8

\* malloc gives up only when no free block fits and the area has no room
\* for the extension, and then it leaves the heap as it was.
FailsOnlyWhenFull ==
    \A n \in Sizes \ {0} :
        LET r == mm_malloc(heap, n)
            asize == Adjusted(n)
        IN  r.bp = NULL => /\ r.heap = heap
                           /\ \A bp \in FreeBlocks : SizeOf(bp) < asize
                           /\ heap.brk + (IF asize > Chunk THEN asize ELSE Chunk) > MaxHeap
=============================================================================
