-------------------------- MODULE MallocHeap_proofs --------------------------
(***************************************************************************)
(* The seven invariants of MallocHeap, for every number of users, every    *)
(* chunk and heap size, and all sizes that mm_malloc can round.            *)
(*                                                                         *)
(* HeapInv says that there are blocks B, with sizes sz and marks al, that  *)
(* tile the heap, that the tags in the words are theirs, that the links    *)
(* are a list of the free ones, and that the rest are what the user holds, *)
(* with its data.  The proof goes function by function, as the code does:  *)
(* remove_free and add_free change the list of any set of blocks; coalesce *)
(* turns a heap that is whole but for one loose block into a whole one;    *)
(* place, extend_heap, mm_malloc, mm_free and mm_realloc are built of      *)
(* those, and each keeps the words of the blocks it is not about.          *)
(*                                                                         *)
(* find_fit and the walk over the headers are recursive functions, which   *)
(* exist because a function that follows links until a stop does: see      *)
(* Reach.  Inductions are by a least counterexample.                       *)
(***************************************************************************)
EXTENDS MallocHeap, WellFoundedInduction, TLAPS

\* Addresses.
LEMMA IsAligned == \A x : x \in Aligned <=> x \in 0..MaxHeap /\ x % 8 = 0
BY HeapConstants DEF Aligned

\* Addresses of words.
LEMMA IsWord == \A x : x \in Word <=> x \in 0..MaxHeap - 4 /\ x % 4 = 0
BY HeapConstants DEF Word

\* What GET_SIZE and GET_ALLOC make of a packed tag.
LEMMA Unpack ==
    ASSUME NEW n \in Aligned, NEW a \in {0, 1}
    PROVE  (n + a) % 8 = a /\ (n + a) % 2 = a /\ n + a \in Nat
<1>1. n \in Nat /\ n % 8 = 0 /\ a \in Nat
  BY IsAligned, HeapConstants
<1>2. CASE a = 0
  BY <1>1, <1>2
<1>3. CASE a = 1
  BY <1>1, <1>3
<1> QED
  BY <1>2, <1>3

-----------------------------------------------------------------------------
\* The heap as blocks: where they start, their sizes, and which are allocated.

\* What a word may hold, and every heap a call may meet or leave.
Value == Nat
Heaps == [mem : [Word -> Value], brk : Aligned, heap_listp : Aligned]

\* The blocks tile the heap from 32 to its end.
Shape(B, sz, brk) ==
    /\ brk \in Aligned /\ 32 <= brk
    /\ B \subseteq Aligned /\ sz \in [B -> Aligned]
    /\ \A b \in B : 32 <= b /\ 16 <= sz[b] /\ b + sz[b] <= brk /\ b + sz[b] \in B \cup {brk}
    /\ \A b, c \in B : b < c => b + sz[b] <= c
    /\ 32 \in B \cup {brk}
    /\ \A b \in B \cup {brk} : b # 32 => \E c \in B : c + sz[c] = b

\* The tags of the blocks of S.
Tagged(h, S, sz, al) ==
    \A b \in S : h.mem[b - 4] = sz[b] + al[b] /\ h.mem[b + sz[b] - 8] = sz[b] + al[b]

\* The free list is made of the blocks of F, which the rank orders.
Linked(h, F, rank, N) ==
    /\ N \in Nat /\ rank \in [F -> 0..N]
    /\ h.heap_listp \in F \cup {8}
    /\ \A b \in F : /\ h.mem[b + 4] \in F \cup {8} /\ h.mem[h.mem[b + 4]] = b
                    /\ h.mem[b + 4] # 8 => rank[h.mem[b + 4]] < rank[b]
                    /\ h.mem[b] = NULL <=> b = h.heap_listp
                    /\ h.mem[b] # NULL => h.mem[b] \in F /\ h.mem[h.mem[b] + 4] = b

\* The words in front of the first block that the code reads.
Front(h) == h.mem[4] = 9 /\ h.mem[24] = 0

-----------------------------------------------------------------------------
\* PUT changes one word.
LEMMA PutWord ==
    ASSUME NEW h \in Heaps, NEW p \in Word, NEW v \in Value
    PROVE  /\ PUT(h, p, v) \in Heaps
           /\ PUT(h, p, v).brk = h.brk /\ PUT(h, p, v).heap_listp = h.heap_listp
           /\ \A q \in Word : PUT(h, p, v).mem[q] = IF q = p THEN v ELSE h.mem[q]
BY DEF PUT, Heaps

\* An assignment to heap_listp leaves the words alone.
LEMMA HeadSet ==
    ASSUME NEW h \in Heaps, NEW b \in Aligned
    PROVE  /\ SetHead(h, b) \in Heaps /\ SetHead(h, b).brk = h.brk
           /\ SetHead(h, b).heap_listp = b /\ SetHead(h, b).mem = h.mem
<1>1. PICK m \in [Word -> Value], e \in Aligned, l \in Aligned :
         h = [mem |-> m, brk |-> e, heap_listp |-> l]
  BY DEF Heaps
<1>2. SetHead(h, b) = [[mem |-> m, brk |-> e, heap_listp |-> l] EXCEPT !.heap_listp = b]
  BY <1>1, Zenon DEF SetHead
<1>3. SetHead(h, b) = [mem |-> m, brk |-> e, heap_listp |-> b]
  BY <1>2
<1> QED
  BY <1>1, <1>3 DEF Heaps

\* What the fields of a heap are.
LEMMA Fields ==
    ASSUME NEW h \in Heaps
    PROVE  /\ h.mem \in [Word -> Value] /\ h.brk \in Aligned /\ h.heap_listp \in Aligned
           /\ \A p \in Word : h.mem[p] \in Value
BY DEF Heaps

\* The words of a block are words, and no other block has them.
LEMMA BlockWords ==
    ASSUME NEW B, NEW sz, NEW brk, Shape(B, sz, brk), NEW b \in B
    PROVE  /\ b \in Int /\ sz[b] \in Int /\ b % 8 = 0 /\ sz[b] % 8 = 0 /\ brk \in 0..MaxHeap
           /\ 32 <= b /\ 16 <= sz[b] /\ b + sz[b] <= brk /\ brk % 8 = 0
           /\ b \in Word /\ b + 4 \in Word /\ b - 4 \in Word /\ b + sz[b] - 8 \in Word
           /\ sz[b] \in Aligned /\ b \in Aligned
BY IsAligned, IsWord, HeapConstants DEF Shape

\* Of two blocks one ends before the other begins.
LEMMA Apart ==
    ASSUME NEW B, NEW sz, NEW brk, Shape(B, sz, brk), NEW b \in B, NEW c \in B, b # c
    PROVE  b + sz[b] <= c \/ c + sz[c] <= b
<1>1. b \in Int /\ c \in Int
  BY BlockWords
<1> QED
  BY <1>1 DEF Shape

\* PUT(HDRP(bp), ..); PUT(FTRP(bp), ..).
LEMMA PutTagsWrites ==
    ASSUME NEW h \in Heaps, NEW B, NEW sz, NEW brk, Shape(B, sz, brk), NEW b \in B, NEW a \in {0, 1}
    PROVE  LET r == PutTags(h, b, sz[b], a)
           IN  /\ r \in Heaps /\ r.brk = h.brk /\ r.heap_listp = h.heap_listp
               /\ r.mem[b - 4] = sz[b] + a /\ r.mem[b + sz[b] - 8] = sz[b] + a
               /\ \A q \in Word \ {b - 4, b + sz[b] - 8} : r.mem[q] = h.mem[q]
<1> DEFINE v == sz[b] + a  g == PUT(h, b - 4, v)  r == PutTags(h, b, sz[b], a)
<1>1. b - 4 \in Word /\ b + sz[b] - 8 \in Word /\ v \in Value /\ sz[b] \in Aligned /\ v % 8 = a
  BY BlockWords, Unpack DEF Value
<1>2. /\ g \in Heaps /\ g.brk = h.brk /\ g.heap_listp = h.heap_listp
      /\ \A q \in Word : g.mem[q] = IF q = b - 4 THEN v ELSE h.mem[q]
  <2> HIDE DEF v
  <2> QED
    BY <1>1, PutWord
<1>3. FTRP(g, b) = b + sz[b] - 8
  BY <1>1, <1>2, BlockWords DEF FTRP, HDRP, GET_SIZE
<1>4. r = PUT(g, b + sz[b] - 8, v)
  BY <1>3 DEF PutTags, PACK, HDRP
<1> HIDE DEF g, r, v
<1>5. /\ r \in Heaps /\ r.brk = g.brk /\ r.heap_listp = g.heap_listp
      /\ \A q \in Word : r.mem[q] = IF q = b + sz[b] - 8 THEN v ELSE g.mem[q]
  <2> DEFINE f == b + sz[b] - 8
  <2>1. f \in Word /\ v \in Value /\ g \in Heaps /\ r = PUT(g, f, v)
    BY <1>1, <1>2, <1>4
  <2> HIDE DEF f
  <2>2. /\ r \in Heaps /\ r.brk = g.brk /\ r.heap_listp = g.heap_listp
        /\ \A q \in Word : r.mem[q] = IF q = f THEN v ELSE g.mem[q]
    BY <2>1, PutWord
  <2> QED
    BY <2>2 DEF f
<1> QED
  BY <1>1, <1>2, <1>5 DEF r, v

-----------------------------------------------------------------------------
\* The free list.

\* A list whose links are untouched stays as it was.
LEMMA ListStays ==
    ASSUME NEW h, NEW r, NEW F, NEW rank, NEW N, Linked(h, F, rank, N),
           r.heap_listp = h.heap_listp, r.mem[8] = h.mem[8],
           \A c \in F : r.mem[c] = h.mem[c] /\ r.mem[c + 4] = h.mem[c + 4]
    PROVE  Linked(r, F, rank, N)
BY DEF Linked

\* What remove_free writes.
LEMMA RemoveWrites ==
    ASSUME NEW h \in Heaps, NEW b, b \in Word, b + 4 \in Word, h.mem[b + 4] \in Word \cap Aligned,
           h.mem[b + 4] # NULL, h.mem[b] # NULL => h.mem[b] + 4 \in Word
    PROVE  LET r == remove_free(h, b)
               p == h.mem[b]
               n == h.mem[b + 4]
           IN  /\ r \in Heaps /\ r.brk = h.brk
               /\ r.heap_listp = IF p = NULL THEN n ELSE h.heap_listp
               /\ \A q \in Word :
                     r.mem[q] = IF q \in {b, b + 4} THEN NULL ELSE IF q = n THEN p
                                ELSE IF p # NULL /\ q = p + 4 THEN n ELSE h.mem[q]
<1> DEFINE p == h.mem[b]  n == h.mem[b + 4]
           x == IF p # NULL THEN PUT(h, p + 4, n) ELSE SetHead(h, n)
           y == PUT(x, n, p)  z == PUT(y, b, NULL)  r == PUT(z, b + 4, NULL)
<1>1. p \in Value /\ n \in Value /\ n \in Word /\ n \in Aligned /\ NULL \in Value
  BY Fields DEF NULL, Value
<1>2. remove_free(h, b) = r
  BY DEF remove_free, PREV_FP, NEXT_FP
<1>3. /\ x \in Heaps /\ x.brk = h.brk /\ x.heap_listp = IF p = NULL THEN n ELSE h.heap_listp
      /\ \A q \in Word : x.mem[q] = IF p # NULL /\ q = p + 4 THEN n ELSE h.mem[q]
  <2> HIDE DEF p, n
  <2>1. CASE p # NULL
    <3>1. x = PUT(h, p + 4, n) /\ p + 4 \in Word
      BY <2>1 DEF p
    <3> QED
      BY <1>1, <2>1, <3>1, PutWord
  <2>2. CASE p = NULL
    <3>1. x = SetHead(h, n)
      BY <2>2
    <3> QED
      BY <1>1, <2>2, <3>1, HeadSet
  <2> QED
    BY <2>1, <2>2
<1> HIDE DEF p, n, x
<1>4. /\ y \in Heaps /\ y.brk = x.brk /\ y.heap_listp = x.heap_listp
      /\ \A q \in Word : y.mem[q] = IF q = n THEN p ELSE x.mem[q]
  <2>1. x \in Heaps /\ n \in Word /\ p \in Value
    BY <1>1, <1>3
  <2> QED
    BY <2>1, PutWord
<1> HIDE DEF y
<1>5. /\ z \in Heaps /\ z.brk = y.brk /\ z.heap_listp = y.heap_listp
      /\ \A q \in Word : z.mem[q] = IF q = b THEN NULL ELSE y.mem[q]
  <2>1. y \in Heaps /\ NULL \in Value
    BY <1>1, <1>4
  <2> QED
    BY <2>1, PutWord
<1> HIDE DEF z
<1>6. /\ r \in Heaps /\ r.brk = z.brk /\ r.heap_listp = z.heap_listp
      /\ \A q \in Word : r.mem[q] = IF q = b + 4 THEN NULL ELSE z.mem[q]
  <2>1. z \in Heaps /\ NULL \in Value
    BY <1>1, <1>5
  <2> QED
    BY <2>1, PutWord
<1> HIDE DEF r
<1> QED
  BY <1>2, <1>3, <1>4, <1>5, <1>6 DEF p, n

\* The blocks of a free list have their links in words of their own.
LEMMA LinkWords ==
    ASSUME NEW B, NEW sz, NEW brk, Shape(B, sz, brk), NEW F \in SUBSET B
    PROVE  /\ \A c \in F : /\ c \in Aligned /\ c \in Word /\ c + 4 \in Word
                           /\ c # NULL /\ c # 8 /\ c + 4 # 8 /\ c # 12
           /\ \A c, d \in F : c + 4 # d /\ (c + 4 = d + 4 => c = d)
           /\ 8 \in Aligned /\ 8 \in Word
<1>1. \A c \in F : c \in Int /\ c % 8 = 0 /\ c >= 32 /\ c \in Word /\ c + 4 \in Word /\ c \in Aligned
  BY BlockWords
<1>2. \A c, d \in F : c + 4 # d
  <2> SUFFICES ASSUME NEW c \in F, NEW d \in F PROVE c + 4 # d
    OBVIOUS
  <2>1. c \in Int /\ c % 8 = 0 /\ d \in Int /\ d % 8 = 0
    BY <1>1
  <2>2. (c + 4) % 8 = 4
    BY <2>1
  <2> QED
    BY <2>1, <2>2
<1>3. \A c, d \in F : c + 4 = d + 4 => c = d
  BY <1>1
<1> QED
  BY <1>1, <1>2, <1>3, IsAligned, IsWord, HeapConstants DEF NULL

\* A block leaves the free list.
LEMMA RemoveFree ==
    ASSUME NEW h \in Heaps, NEW B, NEW sz, NEW brk, Shape(B, sz, brk), NEW F \in SUBSET B,
           NEW rank, NEW N, Linked(h, F, rank, N), NEW b \in F
    PROVE  LET r == remove_free(h, b)
           IN  /\ r \in Heaps /\ r.brk = h.brk
               /\ Linked(r, F \ {b}, [c \in F \ {b} |-> rank[c]], N)
               /\ \A q \in Word : q # 8 /\ (\A c \in F : q # c /\ q # c + 4) => r.mem[q] = h.mem[q]
<1> DEFINE p == h.mem[b]  n == h.mem[b + 4]  r == remove_free(h, b)
           G == F \ {b}  rk == [c \in G |-> rank[c]]
<1>1. /\ \A c \in F : /\ c \in Aligned /\ c \in Word /\ c + 4 \in Word
                      /\ c # NULL /\ c # 8 /\ c + 4 # 8 /\ c # 12
      /\ \A c, d \in F : c + 4 # d /\ (c + 4 = d + 4 => c = d)
      /\ 8 \in Aligned /\ 8 \in Word /\ 8 # NULL
  BY LinkWords DEF NULL
<1>2. /\ n \in F \cup {8} /\ h.mem[n] = b /\ (n # 8 => rank[n] < rank[b])
      /\ p = NULL <=> b = h.heap_listp
      /\ p # NULL => p \in F /\ h.mem[p + 4] = b
      /\ N \in Nat /\ rank \in [F -> 0..N] /\ h.heap_listp \in F \cup {8}
  BY DEF Linked
<1>3. n \in Word \cap Aligned /\ n # NULL /\ (p # NULL => p + 4 \in Word)
  BY <1>1, <1>2
<1>4. /\ r \in Heaps /\ r.brk = h.brk
      /\ r.heap_listp = IF p = NULL THEN n ELSE h.heap_listp
      /\ \A q \in Word :
            r.mem[q] = IF q \in {b, b + 4} THEN NULL ELSE IF q = n THEN p
                       ELSE IF p # NULL /\ q = p + 4 THEN n ELSE h.mem[q]
  BY <1>1, <1>3, RemoveWrites
<1>5. n # b /\ p # b
  <2>1. rank[b] \in Int
    BY <1>2
  <2>2. n # b
    BY <1>1, <1>2, <2>1
  <2>3. p # b
    BY <1>1, <1>2, <2>2
  <2> QED
    BY <2>2, <2>3
<1> HIDE DEF p, n, r
<1>6. \A q \in Word : q # 8 /\ (\A c \in F : q # c /\ q # c + 4) => r.mem[q] = h.mem[q]
  BY <1>2, <1>4
<1>7. ASSUME NEW c \in G
      PROVE  /\ r.mem[c] = IF c = n THEN p ELSE h.mem[c]
             /\ r.mem[c + 4] = IF c = p THEN n ELSE h.mem[c + 4]
             /\ c \in F /\ c # b /\ (c = p => p # NULL)
  <2>1. c \in F /\ c # b /\ c \in Word /\ c + 4 \in Word /\ c # NULL
    BY <1>1
  <2>2. c # b + 4 /\ (p # NULL => c # p + 4) /\ c + 4 # b /\ c + 4 # b + 4 /\ c + 4 # n
    BY <1>1, <1>2, <2>1
  <2>3. p # NULL => (c + 4 = p + 4 <=> c = p)
    BY <1>1, <1>2, <2>1
  <2> QED
    BY <1>4, <2>1, <2>2, <2>3
<1>8. r.mem[8] = IF 8 = n THEN p ELSE h.mem[8]
  <2>1. 8 # b /\ 8 # b + 4 /\ (p # NULL => 8 # p + 4)
    BY <1>1, <1>2
  <2> QED
    BY <1>1, <1>4, <2>1
<1>9. r.heap_listp \in G \cup {8}
  BY <1>2, <1>4, <1>5
<1>10. ASSUME NEW c \in G
       PROVE  /\ r.mem[c + 4] \in G \cup {8} /\ r.mem[r.mem[c + 4]] = c
              /\ r.mem[c + 4] # 8 => rank[r.mem[c + 4]] < rank[c]
  <2>1. CASE c = p
    <3>1. r.mem[c + 4] = n /\ n \in G \cup {8}
      BY <1>2, <1>5, <1>7, <2>1
    <3>2. r.mem[n] = p
      BY <1>7, <1>8, <3>1
    <3>3. n # 8 => rank[n] < rank[c]
      <4>1. h.mem[c + 4] = b /\ b # 8 /\ rank[b] < rank[c]
        BY <1>1, <1>2, <1>7, <2>1 DEF Linked
      <4>2. n # 8 => rank[n] \in Int /\ rank[b] \in Int /\ rank[c] \in Int
        BY <1>2, <1>7
      <4> QED
        BY <1>2, <4>1, <4>2
    <3> QED
      BY <2>1, <3>1, <3>2, <3>3
  <2>2. CASE c # p
    <3> DEFINE d == h.mem[c + 4]
    <3>1. d \in F \cup {8} /\ h.mem[d] = c /\ (d # 8 => rank[d] < rank[c]) /\ r.mem[c + 4] = d
      BY <1>7, <2>2 DEF Linked
    <3>2. d # b
      BY <2>2, <3>1 DEF p
    <3>3. d # n
      BY <1>2, <1>7, <3>1
    <3>4. r.mem[d] = h.mem[d]
      BY <1>7, <1>8, <3>1, <3>2, <3>3
    <3> QED
      BY <3>1, <3>2, <3>4
  <2> QED
    BY <2>1, <2>2
<1>11. ASSUME NEW c \in G
       PROVE  /\ r.mem[c] = NULL <=> c = r.heap_listp
              /\ r.mem[c] # NULL => r.mem[c] \in G /\ r.mem[r.mem[c] + 4] = c
  <2>1. CASE c = n
    <3>1. r.mem[c] = p /\ (p # NULL => p \in G)
      BY <1>2, <1>5, <1>7, <2>1
    <3>2. p # NULL => r.mem[p + 4] = c
      BY <1>7, <2>1, <3>1
    <3>3. p # NULL => h.heap_listp # c
      <4>1. h.mem[c] = b /\ b # NULL /\ c \in F
        BY <1>1, <1>2, <1>7, <2>1
      <4> QED
        BY <4>1 DEF Linked
    <3> QED
      BY <1>4, <2>1, <3>1, <3>2, <3>3
  <2>2. CASE c # n
    <3> DEFINE d == h.mem[c]
    <3>1. /\ d = NULL <=> c = h.heap_listp
          /\ d # NULL => d \in F /\ h.mem[d + 4] = c
          /\ r.mem[c] = d
      BY <1>7, <2>2 DEF Linked
    <3>2. d # b
      BY <1>1, <2>2, <3>1 DEF n
    <3>3. d # NULL => r.mem[d + 4] = c
      <4>1. d # NULL => d \in G /\ d # p
        BY <1>2, <1>7, <3>1, <3>2
      <4> QED
        BY <1>7, <3>1, <4>1
    <3>4. p = NULL => h.heap_listp = b
      BY <1>2
    <3>5. d # NULL => d \in G
      BY <3>1, <3>2
    <3> QED
      BY <1>4, <1>7, <2>2, <3>1, <3>3, <3>4, <3>5
  <2> QED
    BY <2>1, <2>2
<1>12. rk \in [G -> 0..N] /\ \A c \in G : rk[c] = rank[c]
  BY <1>2
<1>13. Linked(r, G, rk, N)
  BY <1>2, <1>9, <1>10, <1>11, <1>12 DEF Linked
<1> QED
  BY <1>4, <1>6, <1>13 DEF r

\* A bounded rank has a largest and a smallest value on every non-empty set.
LEMMA RankExtremes ==
    ASSUME NEW S, S # {}, NEW N \in Nat, NEW rank, \A c \in S : rank[c] \in 0..N
    PROVE  /\ \E c \in S : \A d \in S : rank[d] <= rank[c]
           /\ \E c \in S : \A d \in S : rank[c] <= rank[d]
<1>1. \E c \in S : \A d \in S : rank[d] <= rank[c]
  <2> DEFINE T == {N - rank[c] : c \in S}
  <2>1. T \in SUBSET Nat /\ T # {}
    OBVIOUS
  <2> HIDE DEF T
  <2>2. PICK n \in T : \A m \in T : <<m, n>> \notin OpToRel(<, Nat)
    BY <2>1, WFMin, NatLessThanWellFounded
  <2>3. \A m \in T : ~(m < n)
    BY <2>1, <2>2 DEF OpToRel
  <2>4. PICK c \in S : n = N - rank[c]
    BY <2>2 DEF T
  <2>5. \A d \in S : N - rank[d] \in T
    BY DEF T
  <2> QED
    BY <2>3, <2>4, <2>5
<1>2. \E c \in S : \A d \in S : rank[c] <= rank[d]
  <2> DEFINE T == {rank[c] : c \in S}
  <2>1. T \in SUBSET Nat /\ T # {}
    OBVIOUS
  <2> HIDE DEF T
  <2>2. PICK n \in T : \A m \in T : <<m, n>> \notin OpToRel(<, Nat)
    BY <2>1, WFMin, NatLessThanWellFounded
  <2>3. \A m \in T : ~(m < n)
    BY <2>1, <2>2 DEF OpToRel
  <2>4. PICK c \in S : n = rank[c]
    BY <2>2 DEF T
  <2>5. \A d \in S : rank[d] \in T
    BY DEF T
  <2> QED
    BY <2>3, <2>4, <2>5
<1> QED
  BY <1>1, <1>2

\* A list that begins with the prologue is empty.
LEMMA EmptyList ==
    ASSUME NEW h, NEW F, NEW rank, NEW N, Linked(h, F, rank, N), h.heap_listp = 8, 8 \notin F
    PROVE  F = {}
<1> SUFFICES ASSUME F # {} PROVE FALSE
  OBVIOUS
<1>1. N \in Nat /\ \A c \in F : rank[c] \in 0..N
  BY DEF Linked
<1>2. PICK c \in F : \A d \in F : rank[d] <= rank[c]
  BY <1>1, RankExtremes
<1>3. h.mem[c] \in F /\ h.mem[h.mem[c] + 4] = c
  BY DEF Linked
<1>4. rank[c] < rank[h.mem[c]]
  BY <1>3 DEF Linked
<1> QED
  BY <1>1, <1>2, <1>3, <1>4

\* What add_free writes.
LEMMA AddWrites ==
    ASSUME NEW h \in Heaps, NEW b, b \in Word, b \in Aligned, b + 4 \in Word, h.heap_listp \in Word,
           h.heap_listp # NULL
    PROVE  LET r == add_free(h, b)
               l == h.heap_listp
           IN  /\ r \in Heaps /\ r.brk = h.brk /\ r.heap_listp = b
               /\ \A q \in Word : r.mem[q] = IF q = l THEN b ELSE IF q = b THEN NULL
                                             ELSE IF q = b + 4 THEN l ELSE h.mem[q]
<1> DEFINE l == h.heap_listp  x == PUT(h, b + 4, l)  y == PUT(x, b, NULL)  z == PUT(y, l, b)
           r == SetHead(z, b)
<1>1. l \in Value /\ l \in Word /\ b \in Value /\ NULL \in Value
  BY IsWord, HeapConstants DEF Value, NULL
<1>2. add_free(h, b) = r
  BY DEF add_free
<1> HIDE DEF l
<1>3. /\ x \in Heaps /\ x.brk = h.brk
      /\ \A q \in Word : x.mem[q] = IF q = b + 4 THEN l ELSE h.mem[q]
  BY <1>1, PutWord
<1> HIDE DEF x
<1>4. /\ y \in Heaps /\ y.brk = h.brk
      /\ \A q \in Word : y.mem[q] = IF q = b THEN NULL ELSE x.mem[q]
  BY <1>1, <1>3, PutWord
<1> HIDE DEF y
<1>5. /\ z \in Heaps /\ z.brk = h.brk
      /\ \A q \in Word : z.mem[q] = IF q = l THEN b ELSE y.mem[q]
  BY <1>1, <1>4, PutWord
<1> HIDE DEF z
<1>6. r \in Heaps /\ r.brk = h.brk /\ r.heap_listp = b /\ r.mem = z.mem
  BY <1>5, HeadSet
<1> HIDE DEF r
<1> QED
  BY <1>2, <1>3, <1>4, <1>5, <1>6 DEF l

\* A block joins the free list.
LEMMA AddFree ==
    ASSUME NEW h \in Heaps, NEW B, NEW sz, NEW brk, Shape(B, sz, brk), NEW F \in SUBSET B,
           NEW rank, NEW N, Linked(h, F, rank, N), NEW b \in B, b \notin F
    PROVE  LET r == add_free(h, b)
           IN  /\ r \in Heaps /\ r.brk = h.brk
               /\ Linked(r, F \cup {b}, [c \in F \cup {b} |-> IF c = b THEN N + 1 ELSE rank[c]], N + 1)
               /\ \A q \in Word : q # 8 /\ (\A c \in F \cup {b} : q # c /\ q # c + 4) => r.mem[q] = h.mem[q]
<1> DEFINE r == add_free(h, b)  l == h.heap_listp  G == F \cup {b}
           rk == [c \in G |-> IF c = b THEN N + 1 ELSE rank[c]]
<1>1. G \in SUBSET B
  OBVIOUS
<1>2. /\ \A c \in G : /\ c \in Aligned /\ c \in Word /\ c + 4 \in Word
                      /\ c # NULL /\ c # 8 /\ c + 4 # 8 /\ c # 12
      /\ \A c, d \in G : c + 4 # d /\ (c + 4 = d + 4 => c = d)
      /\ 8 \in Aligned /\ 8 \in Word /\ 8 # NULL
  <2> HIDE DEF G
  <2> QED
    BY <1>1, LinkWords DEF NULL
<1>3. l \in F \cup {8} /\ N \in Nat /\ rank \in [F -> 0..N]
  BY DEF Linked
<1>4. l = 8 => F = {}
  BY <1>2, EmptyList
<1>5. /\ r \in Heaps /\ r.brk = h.brk /\ r.heap_listp = b
      /\ \A q \in Word : r.mem[q] = IF q = l THEN b ELSE IF q = b THEN NULL
                                    ELSE IF q = b + 4 THEN l ELSE h.mem[q]
  <2>1. b \in Word /\ b \in Aligned /\ b + 4 \in Word /\ l \in Word /\ l # NULL
    BY <1>2, <1>3
  <2> QED
    BY <2>1, AddWrites
<1> HIDE DEF r
<1>6. \A q \in Word : q # 8 /\ (\A c \in F \cup {b} : q # c /\ q # c + 4) => r.mem[q] = h.mem[q]
  BY <1>3, <1>5
<1>7. r.mem[b] = NULL /\ r.mem[b + 4] = l /\ r.mem[l] = b
  BY <1>2, <1>3, <1>5
<1>8. ASSUME NEW c \in F
      PROVE  /\ r.mem[c + 4] = h.mem[c + 4]
             /\ r.mem[c] = IF c = l THEN b ELSE h.mem[c]
             /\ c \in G /\ c # b
  <2>1. c \in G /\ c \in Word /\ c + 4 \in Word /\ c # b /\ c # b + 4 /\ c + 4 # b /\ c + 4 # b + 4 /\ c + 4 # l
    BY <1>2, <1>3
  <2> QED
    BY <1>5, <2>1
<1>9. rk \in [G -> 0..(N + 1)] /\ rk[b] = N + 1 /\ \A c \in F : rk[c] = rank[c]
  BY <1>3
<1> HIDE DEF rk
<1>10. /\ r.mem[b + 4] \in G \cup {8} /\ r.mem[r.mem[b + 4]] = b
       /\ r.mem[b + 4] # 8 => rk[r.mem[b + 4]] < rk[b]
  BY <1>3, <1>7, <1>9
<1>11. ASSUME NEW c \in F
       PROVE  /\ r.mem[c + 4] \in G \cup {8} /\ r.mem[r.mem[c + 4]] = c
              /\ r.mem[c + 4] # 8 => rk[r.mem[c + 4]] < rk[c]
              /\ r.mem[c] = NULL <=> c = r.heap_listp
              /\ r.mem[c] # NULL => r.mem[c] \in G /\ r.mem[r.mem[c] + 4] = c
  <2> DEFINE d == h.mem[c + 4]  p == h.mem[c]
  <2>1. /\ d \in F \cup {8} /\ h.mem[d] = c /\ (d # 8 => rank[d] < rank[c])
        /\ p = NULL <=> c = l
        /\ p # NULL => p \in F /\ h.mem[p + 4] = c
    BY DEF Linked
  <2>2. d # l
    <3>1. l # 8
      BY <1>4
    <3>2. h.mem[l] = NULL
      BY <1>3, <3>1 DEF Linked
    <3> QED
      BY <1>2, <2>1, <3>2
  <2>3. r.mem[d] = c
    <3>1. CASE d = 8
      BY <1>2, <1>5, <2>1, <2>2, <3>1
    <3>2. CASE d # 8
      BY <1>8, <2>1, <2>2, <3>2
    <3> QED
      BY <3>1, <3>2
  <2>4. d # 8 => rk[d] < rk[c]
    BY <1>9, <2>1
  <2>5. p # NULL => r.mem[p + 4] = c
    BY <1>8, <2>1
  <2> HIDE DEF d, p
  <2>6. r.mem[c + 4] = d /\ r.mem[c] = IF c = l THEN b ELSE p
    BY <1>8 DEF d, p
  <2>7. b # NULL /\ c # b /\ b \in G
    BY <1>2, <1>8
  <2> QED
    BY <1>5, <1>7, <2>1, <2>3, <2>4, <2>5, <2>6, <2>7
<1>12. Linked(r, G, rk, N + 1)
  BY <1>3, <1>5, <1>7, <1>9, <1>10, <1>11 DEF Linked
<1> QED
  BY <1>5, <1>6, <1>12 DEF r, rk

-----------------------------------------------------------------------------
\* The geometry: two neighbours become one block, a block is split, the heap grows.

\* Where a block ends another begins, or the heap ends.
LEMMA Neighbours ==
    ASSUME NEW B, NEW sz, NEW brk, Shape(B, sz, brk), NEW b \in B
    PROVE  /\ b + sz[b] \in B \cup {brk}
           /\ \A c \in B : c > b => c >= b + sz[b]
           /\ \A c \in B : c < b => c + sz[c] <= b
           /\ \A c \in B : c + sz[c] = b + sz[b] => c = b
<1>1. \A c \in B : c \in Int /\ sz[c] \in Int /\ sz[c] >= 16
  BY BlockWords
<1>2. b + sz[b] \in B \cup {brk} /\ \A c, d \in B : c < d => c + sz[c] <= d
  BY DEF Shape
<1>3. ASSUME NEW c \in B, c + sz[c] = b + sz[b] PROVE c = b
  <2>1. b < c => b + sz[b] <= c
    BY <1>2
  <2>2. c < b => c + sz[c] <= b
    BY <1>2
  <2> QED
    BY <1>1, <1>3, <2>1, <2>2
<1> QED
  BY <1>1, <1>2, <1>3

Merge(B, sz, b) == [c \in B \ {b + sz[b]} |-> IF c = b THEN sz[b] + sz[b + sz[b]] ELSE sz[c]]

\* A block takes in the one behind it: the rest tile the heap still.
LEMMA MergeShape ==
    ASSUME NEW B, NEW sz, NEW brk, Shape(B, sz, brk), NEW b \in B, b + sz[b] \in B
    PROVE  Shape(B \ {b + sz[b]}, Merge(B, sz, b), brk)
<1> DEFINE c == b + sz[b]  D == B \ {c}  s == Merge(B, sz, b)
<1>1. \A d \in B : d \in Int /\ sz[d] \in Int /\ sz[d] >= 16 /\ sz[d] % 8 = 0 /\ sz[d] \in Aligned /\ d >= 32
                   /\ d % 8 = 0
  BY BlockWords
<1>2. /\ brk \in Aligned /\ 32 <= brk /\ B \subseteq Aligned
      /\ \A d \in B : d + sz[d] <= brk /\ d + sz[d] \in B \cup {brk}
      /\ \A d, e \in B : d < e => d + sz[d] <= e
      /\ 32 \in B \cup {brk}
      /\ \A d \in B \cup {brk} : d # 32 => \E e \in B : e + sz[e] = d
  BY DEF Shape
<1>3. c \in B /\ b \in D
  BY <1>1
<1>4. s[b] = sz[b] + sz[c] /\ \A d \in D : d # b => s[d] = sz[d]
  BY <1>3 DEF Merge
<1>5. b + s[b] = c + sz[c] /\ c + sz[c] <= brk /\ c + sz[c] \in B \cup {brk} /\ c + sz[c] # c
  BY <1>1, <1>2, <1>3, <1>4
<1>6. s[b] \in Aligned /\ s[b] >= 16
  <2>1. brk <= MaxHeap /\ brk \in Int
    BY <1>2, IsAligned, HeapConstants
  <2>2. b \in Int /\ sz[b] \in Int /\ sz[c] \in Int /\ sz[b] % 8 = 0 /\ sz[c] % 8 = 0
        /\ b >= 32 /\ sz[b] >= 16 /\ sz[c] >= 16
    BY <1>1, <1>3
  <2>3. s[b] % 8 = 0 /\ s[b] >= 16 /\ s[b] <= brk /\ s[b] \in Int
    <3>1. s[b] = sz[b] + sz[c] /\ b + s[b] <= brk
      BY <1>4, <1>5
    <3> HIDE DEF s, c
    <3> QED
      BY <2>1, <2>2, <3>1
  <2> QED
    BY <2>1, <2>3, IsAligned, HeapConstants
<1>7. s \in [D -> Aligned]
  <2>1. \A d \in D : s[d] \in Aligned
    BY <1>1, <1>4, <1>6
  <2> QED
    BY <2>1 DEF Merge
<1>8. ASSUME NEW d \in D
      PROVE  32 <= d /\ 16 <= s[d] /\ d + s[d] <= brk /\ d + s[d] \in D \cup {brk}
  <2>1. CASE d = b
    BY <1>1, <1>3, <1>5, <1>6, <2>1
  <2>2. CASE d # b
    <3>1. d + sz[d] # c
      BY <2>2, Neighbours
    <3> QED
      BY <1>1, <1>2, <1>4, <2>2, <3>1
  <2> QED
    BY <2>1, <2>2
<1>9. ASSUME NEW d \in D, NEW e \in D, d < e PROVE d + s[d] <= e
  <2>1. CASE d = b
    <3>1. e >= c
      BY <1>2, <1>9, <2>1
    <3>2. e > c
      BY <1>1, <1>3, <3>1
    <3> QED
      BY <1>2, <1>3, <1>5, <2>1, <3>2
  <2>2. CASE d # b
    BY <1>2, <1>4, <1>9, <2>2
  <2> QED
    BY <2>1, <2>2
<1>10. 32 \in D \cup {brk}
  <2>1. c # 32
    BY <1>1
  <2> QED
    BY <1>2, <2>1
<1>11. ASSUME NEW d \in D \cup {brk}, d # 32 PROVE \E e \in D : e + s[e] = d
  <2>1. d # c
    BY <1>1, <1>2, <1>3
  <2>2. PICK e \in B : e + sz[e] = d
    BY <1>2, <1>11
  <2>3. e # b
    BY <2>1, <2>2
  <2>4. CASE e = c
    BY <1>3, <1>5, <2>2, <2>4
  <2>5. CASE e # c
    BY <1>4, <2>2, <2>3, <2>5
  <2> QED
    BY <2>4, <2>5
<1> HIDE DEF D, s
<1>12. D \subseteq Aligned
  BY <1>2 DEF D
<1>13. Shape(D, s, brk)
  BY <1>2, <1>7, <1>8, <1>9, <1>10, <1>11, <1>12 DEF Shape
<1> QED
  BY <1>13 DEF D, s

Split(B, sz, b, n) == [c \in B \cup {b + n} |-> IF c = b THEN n ELSE IF c = b + n THEN sz[b] - n ELSE sz[c]]

\* A block is cut in two: the pieces and the rest tile the heap.
LEMMA SplitShape ==
    ASSUME NEW B, NEW sz, NEW brk, Shape(B, sz, brk), NEW b \in B, NEW n \in Aligned, 16 <= n, n + 16 <= sz[b]
    PROVE  /\ Shape(B \cup {b + n}, Split(B, sz, b, n), brk)
           /\ b + n \notin B
<1> DEFINE c == b + n  D == B \cup {c}  s == Split(B, sz, b, n)
<1>1. \A d \in B : d \in Int /\ sz[d] \in Int /\ sz[d] >= 16 /\ sz[d] % 8 = 0 /\ sz[d] \in Aligned /\ d >= 32
                   /\ d % 8 = 0
  BY BlockWords
<1>2. /\ brk \in Aligned /\ 32 <= brk /\ B \subseteq Aligned
      /\ \A d \in B : d + sz[d] <= brk /\ d + sz[d] \in B \cup {brk}
      /\ \A d, e \in B : d < e => d + sz[d] <= e
      /\ 32 \in B \cup {brk}
      /\ \A d \in B \cup {brk} : d # 32 => \E e \in B : e + sz[e] = d
  BY DEF Shape
<1>3. n \in Int /\ n % 8 = 0 /\ brk \in Int /\ brk <= MaxHeap /\ MaxHeap \in Nat
  BY <1>2, IsAligned, HeapConstants
<1>4. c \in Int /\ c % 8 = 0 /\ b < c /\ c < b + sz[b] /\ c # b
  BY <1>1, <1>3
<1>5. c \notin B
  <2>1. c \in B => b + sz[b] <= c
    BY <1>2, <1>4
  <2> QED
    BY <1>1, <1>4, <2>1
<1>6. s[b] = n /\ s[c] = sz[b] - n /\ \A d \in B : d # b => s[d] = sz[d]
  BY <1>4, <1>5 DEF Split
<1>7. c + s[c] = b + sz[b] /\ b + s[b] = c
  BY <1>1, <1>3, <1>6
<1>8. c \in Aligned /\ s[c] \in Aligned /\ s[b] \in Aligned /\ s[c] >= 16 /\ s[b] >= 16
  <2>1. s[c] % 8 = 0 /\ s[c] >= 16
    BY <1>1, <1>3, <1>6
  <2>2. b + sz[b] <= brk
    BY <1>2
  <2> QED
    BY <1>1, <1>3, <1>4, <1>6, <1>7, <2>1, <2>2, IsAligned
<1>9. s \in [D -> Aligned]
  <2>1. \A d \in D : s[d] \in Aligned
    BY <1>1, <1>6, <1>8
  <2> QED
    BY <2>1 DEF Split
<1>10. ASSUME NEW d \in D
      PROVE  32 <= d /\ 16 <= s[d] /\ d + s[d] <= brk /\ d + s[d] \in D \cup {brk}
  <2>1. CASE d = b
    <3>1. d + s[d] = c /\ b + sz[b] <= brk /\ sz[b] \in Int /\ b >= 32
      BY <1>1, <1>2, <1>7, <2>1
    <3>2. c <= brk
      <4> HIDE DEF c, s
      <4> QED
        BY <1>1, <1>3, <1>4, <3>1
    <3> QED
      BY <1>8, <2>1, <3>1, <3>2
  <2>2. CASE d = c
    BY <1>1, <1>2, <1>3, <1>4, <1>7, <1>8, <2>2
  <2>3. CASE d # b /\ d # c
    BY <1>1, <1>2, <1>6, <2>3
  <2> QED
    BY <2>1, <2>2, <2>3
<1>11. ASSUME NEW d \in D, NEW e \in D, d < e PROVE d + s[d] <= e
  <2>1. CASE d = c
    <3>1. e \in B /\ b < e
      BY <1>1, <1>4, <1>11, <2>1
    <3> QED
      BY <1>2, <1>7, <2>1, <3>1
  <2>2. CASE d = b
    <3>1. CASE e = c
      BY <1>4, <1>7, <2>2, <3>1
    <3>2. CASE e # c
      BY <1>1, <1>2, <1>4, <1>7, <1>11, <2>2, <3>2
    <3> QED
      BY <3>1, <3>2
  <2>3. CASE d # b /\ d # c
    <3>1. d + s[d] = d + sz[d] /\ d \in B
      BY <1>6, <2>3
    <3>2. CASE e # c
      BY <1>2, <1>11, <3>1, <3>2
    <3>3. CASE e = c
      <4>1. d < b
        <5>1. b < d => b + sz[b] <= d
          BY <1>2, <3>1
        <5> QED
          BY <1>1, <1>4, <1>11, <2>3, <3>1, <3>3, <5>1
      <4>2. d + sz[d] <= b
        BY <1>2, <3>1, <4>1
      <4> QED
        BY <1>1, <1>4, <3>1, <3>3, <4>2
    <3> QED
      BY <3>2, <3>3
  <2> QED
    BY <2>1, <2>2, <2>3
<1>12. 32 \in D \cup {brk}
  BY <1>2
<1>13. ASSUME NEW d \in D \cup {brk}, d # 32 PROVE \E e \in D : e + s[e] = d
  <2>1. CASE d = c
    BY <1>7, <2>1
  <2>2. CASE d # c
    <3>1. PICK e \in B : e + sz[e] = d
      BY <1>2, <1>13, <2>2
    <3>2. CASE e = b
      BY <1>7, <3>1, <3>2
    <3>3. CASE e # b
      BY <1>6, <3>1, <3>3
    <3> QED
      BY <3>2, <3>3
  <2> QED
    BY <2>1, <2>2
<1> HIDE DEF D, s
<1>14. D \subseteq Aligned
  BY <1>2, <1>8 DEF D
<1>15. Shape(D, s, brk)
  BY <1>2, <1>9, <1>10, <1>11, <1>12, <1>13, <1>14 DEF Shape
<1> QED
  BY <1>5, <1>15 DEF D, s

Grow(B, sz, brk, n) == [c \in B \cup {brk} |-> IF c = brk THEN n ELSE sz[c]]

\* A block is added behind the last one: the heap up to the new end is tiled.
LEMMA GrowShape ==
    ASSUME NEW B, NEW sz, NEW brk, Shape(B, sz, brk), NEW n \in Aligned, 16 <= n, brk + n <= MaxHeap
    PROVE  /\ Shape(B \cup {brk}, Grow(B, sz, brk, n), brk + n)
           /\ brk \notin B
<1> DEFINE D == B \cup {brk}  s == Grow(B, sz, brk, n)  k == brk + n
<1>1. \A d \in B : d \in Int /\ sz[d] \in Int /\ sz[d] >= 16 /\ sz[d] % 8 = 0 /\ sz[d] \in Aligned /\ d >= 32
                   /\ d % 8 = 0
  BY BlockWords
<1>2. /\ brk \in Aligned /\ 32 <= brk /\ B \subseteq Aligned
      /\ \A d \in B : d + sz[d] <= brk /\ d + sz[d] \in B \cup {brk}
      /\ \A d, e \in B : d < e => d + sz[d] <= e
      /\ 32 \in B \cup {brk}
      /\ \A d \in B \cup {brk} : d # 32 => \E e \in B : e + sz[e] = d
  BY DEF Shape
<1>3. n \in Int /\ n % 8 = 0 /\ brk \in Int /\ brk % 8 = 0
  BY <1>2, IsAligned, HeapConstants
<1>4. k \in Aligned /\ 32 <= k /\ k > brk
  BY <1>2, <1>3, IsAligned, HeapConstants
<1>5. brk \notin B
  BY <1>1, <1>2
<1>6. s[brk] = n /\ \A d \in B : s[d] = sz[d]
  BY <1>5 DEF Grow
<1>7. s \in [D -> Aligned]
  <2>1. \A d \in D : s[d] \in Aligned
    BY <1>1, <1>6
  <2> QED
    BY <2>1 DEF Grow
<1>8. ASSUME NEW d \in D
      PROVE  32 <= d /\ 16 <= s[d] /\ d + s[d] <= k /\ d + s[d] \in D \cup {k}
  BY <1>1, <1>2, <1>3, <1>4, <1>6
<1>9. ASSUME NEW d \in D, NEW e \in D, d < e PROVE d + s[d] <= e
  <2>1. d # brk
    BY <1>1, <1>2, <1>3, <1>9
  <2> QED
    BY <1>2, <1>6, <1>9, <2>1
<1>10. ASSUME NEW d \in D \cup {k}, d # 32 PROVE \E e \in D : e + s[e] = d
  BY <1>2, <1>6, <1>10
<1> HIDE DEF D, s, k
<1>11. D \subseteq Aligned /\ 32 \in D \cup {k}
  BY <1>2 DEF D
<1>12. Shape(D, s, k)
  BY <1>4, <1>7, <1>8, <1>9, <1>10, <1>11 DEF Shape
<1> QED
  BY <1>5, <1>12 DEF D, s, k

-----------------------------------------------------------------------------
\* The heap between two calls, and inside one.

FreeOf(B, al) == {c \in B : al[c] = 0}
HeldOf(B, al) == {c \in B : al[c] = 1}

Tiled(h, B, sz, al) == h \in Heaps /\ Front(h) /\ Shape(B, sz, h.brk) /\ al \in [B -> {0, 1}]
Epilogue(h)         == h.mem[h.brk - 4] = 1
Listed(h, F)        == \E rank, N : Linked(h, F, rank, N)
Lone(sz, F)         == \A c \in F : c + sz[c] \notin F

\* Between two calls.
Whole(h, B, sz, al) ==
    /\ Tiled(h, B, sz, al) /\ Epilogue(h) /\ Tagged(h, B, sz, al)
    /\ Listed(h, FreeOf(B, al)) /\ Lone(sz, FreeOf(B, al))

\* In coalesce: the block b is free but not in the list, and its tags do not
\* matter any more; all is well apart from b.
Loose(h, B, sz, al, b) ==
    /\ Tiled(h, B, sz, al) /\ Epilogue(h) /\ b \in B /\ al[b] = 0 /\ Tagged(h, B \ {b}, sz, al)
    /\ Listed(h, FreeOf(B, al) \ {b}) /\ Lone(sz, FreeOf(B, al) \ {b})

\* The blocks of S keep their sizes, and the words a user has in them.
Kept(S, h, sz, r, tz) ==
    \A c \in S : tz[c] = sz[c] /\ \A q \in Word : c <= q /\ q < c + sz[c] - 8 => r.mem[q] = h.mem[q]

\* What two changes keep, both together keep.
LEMMA KeptTrans ==
    ASSUME NEW S, NEW h, NEW sz, NEW r, NEW tz, NEW g, NEW uz, Kept(S, h, sz, r, tz), Kept(S, r, tz, g, uz)
    PROVE  Kept(S, h, sz, g, uz)
BY DEF Kept

\* Words that no link of a list is in.
OffList(q, F) == q # 8 /\ \A c \in F : q # c /\ q # c + 4

\* The words of tags are not those of links.
LEMMA OffListWords ==
    ASSUME NEW B, NEW sz, NEW brk, Shape(B, sz, brk), NEW F \in SUBSET B
    PROVE  /\ OffList(4, F) /\ OffList(24, F) /\ OffList(brk - 4, F)
           /\ 4 \in Word /\ 24 \in Word /\ brk - 4 \in Word
           /\ \A d \in B : OffList(d - 4, F) /\ OffList(d + sz[d] - 8, F)
           /\ \A d \in B \ F : \A q \in Word : d <= q /\ q < d + sz[d] - 8 => OffList(q, F)
<1>1. \A d \in B : /\ d \in Int /\ sz[d] \in Int /\ sz[d] >= 16 /\ d >= 32 /\ d + sz[d] <= brk
                   /\ d % 8 = 0 /\ sz[d] % 8 = 0
  BY BlockWords
<1>2. brk \in Int /\ 32 <= brk /\ brk <= MaxHeap /\ brk % 8 = 0
  BY IsAligned, HeapConstants DEF Shape
<1>3. 4 \in Word /\ 24 \in Word /\ brk - 4 \in Word
  BY <1>2, IsWord, HeapConstants
<1>4. OffList(4, F) /\ OffList(24, F) /\ OffList(brk - 4, F)
  BY <1>1, <1>2 DEF OffList
<1>5. ASSUME NEW d \in B, NEW c \in F, d # c
      PROVE  /\ d - 4 # c /\ d - 4 # c + 4 /\ d + sz[d] - 8 # c /\ d + sz[d] - 8 # c + 4
             /\ \A q \in Int : d <= q /\ q < d + sz[d] - 8 => q # c /\ q # c + 4
  <2>1. d + sz[d] <= c \/ c + sz[c] <= d
    BY <1>5, Apart
  <2>2. c \in B
    OBVIOUS
  <2> QED
    BY <1>1, <2>1, <2>2
<1>6. ASSUME NEW d \in B, NEW c \in F, d = c
      PROVE  /\ d - 4 # c /\ d - 4 # c + 4 /\ d + sz[d] - 8 # c /\ d + sz[d] - 8 # c + 4
  BY <1>1, <1>6
<1>7. \A d \in B : d - 4 # 8 /\ d + sz[d] - 8 # 8
  BY <1>1
<1>8. \A q \in Word : q \in Int
  BY IsWord, HeapConstants
<1>9. \A d \in B : OffList(d - 4, F) /\ OffList(d + sz[d] - 8, F)
  BY <1>5, <1>6, <1>7 DEF OffList
<1>10. ASSUME NEW d \in B \ F, NEW q \in Word, d <= q, q < d + sz[d] - 8
       PROVE  OffList(q, F)
  <2>1. q # 8
    BY <1>1, <1>10, <1>8
  <2>2. ASSUME NEW c \in F PROVE q # c /\ q # c + 4
    BY <1>5, <1>8, <1>10
  <2> QED
    BY <2>1, <2>2 DEF OffList
<1> QED
  BY <1>3, <1>4, <1>9, <1>10

\* A change of links only.
LEMMA LinksOnly ==
    ASSUME NEW h, NEW B, NEW sz, NEW al, Tiled(h, B, sz, al), NEW F \in SUBSET B,
           NEW r \in Heaps, r.brk = h.brk, \A q \in Word : OffList(q, F) => r.mem[q] = h.mem[q]
    PROVE  /\ Tiled(r, B, sz, al) /\ (Epilogue(h) => Epilogue(r))
           /\ \A S \in SUBSET B : Tagged(h, S, sz, al) => Tagged(r, S, sz, al)
           /\ Kept(B \ F, h, sz, r, sz)
<1>1. h \in Heaps /\ Front(h) /\ Shape(B, sz, h.brk) /\ al \in [B -> {0, 1}]
  BY DEF Tiled
<1>2. /\ OffList(4, F) /\ OffList(24, F) /\ OffList(h.brk - 4, F)
      /\ 4 \in Word /\ 24 \in Word /\ h.brk - 4 \in Word
      /\ \A d \in B : OffList(d - 4, F) /\ OffList(d + sz[d] - 8, F)
      /\ \A d \in B \ F : \A q \in Word : d <= q /\ q < d + sz[d] - 8 => OffList(q, F)
  BY <1>1, OffListWords
<1>3. \A d \in B : d - 4 \in Word /\ d + sz[d] - 8 \in Word
  BY <1>1, BlockWords
<1>4. Tiled(r, B, sz, al)
  BY <1>1, <1>2 DEF Tiled, Front
<1>5. Epilogue(h) => Epilogue(r)
  BY <1>2 DEF Epilogue
<1>6. \A S \in SUBSET B : Tagged(h, S, sz, al) => Tagged(r, S, sz, al)
  BY <1>2, <1>3 DEF Tagged
<1>7. Kept(B \ F, h, sz, r, sz)
  BY <1>2 DEF Kept
<1> QED
  BY <1>4, <1>5, <1>6, <1>7

\* A block leaves the list of a tiled heap, or joins it.
LEMMA Leaves ==
    ASSUME NEW h, NEW B, NEW sz, NEW al, Tiled(h, B, sz, al), NEW F \in SUBSET B,
           Listed(h, F), NEW b \in F
    PROVE  LET r == remove_free(h, b)
           IN  /\ r \in Heaps /\ r.brk = h.brk /\ Listed(r, F \ {b})
               /\ \A q \in Word : OffList(q, F) => r.mem[q] = h.mem[q]
<1>1. h \in Heaps /\ Shape(B, sz, h.brk)
  BY DEF Tiled
<1>2. PICK rank, N : Linked(h, F, rank, N)
  BY DEF Listed
<1>3. /\ remove_free(h, b) \in Heaps /\ remove_free(h, b).brk = h.brk
      /\ Linked(remove_free(h, b), F \ {b}, [c \in F \ {b} |-> rank[c]], N)
      /\ \A q \in Word : q # 8 /\ (\A c \in F : q # c /\ q # c + 4) => remove_free(h, b).mem[q] = h.mem[q]
  BY <1>1, <1>2, RemoveFree
<1> QED
  BY <1>3 DEF Listed, OffList

\* add_free of a block that is not in the list.
LEMMA Joins ==
    ASSUME NEW h, NEW B, NEW sz, NEW al, Tiled(h, B, sz, al), NEW F \in SUBSET B,
           Listed(h, F), NEW b \in B, b \notin F
    PROVE  LET r == add_free(h, b)
           IN  /\ r \in Heaps /\ r.brk = h.brk /\ Listed(r, F \cup {b})
               /\ \A q \in Word : OffList(q, F \cup {b}) => r.mem[q] = h.mem[q]
<1>1. h \in Heaps /\ Shape(B, sz, h.brk)
  BY DEF Tiled
<1>2. PICK rank, N : Linked(h, F, rank, N)
  BY DEF Listed
<1>3. /\ add_free(h, b) \in Heaps /\ add_free(h, b).brk = h.brk
      /\ Linked(add_free(h, b), F \cup {b}, [c \in F \cup {b} |-> IF c = b THEN N + 1 ELSE rank[c]], N + 1)
      /\ \A q \in Word : q # 8 /\ (\A c \in F \cup {b} : q # c /\ q # c + 4)
                         => add_free(h, b).mem[q] = h.mem[q]
  BY <1>1, <1>2, AddFree
<1> QED
  BY <1>3 DEF Listed, OffList

\* The tags of one block change: the links and the user's words do not.
LEMMA Marks ==
    ASSUME NEW h, NEW B, NEW sz, NEW al, Tiled(h, B, sz, al), NEW b \in B, NEW v \in {0, 1}
    PROVE  LET r  == PutTags(h, b, sz[b], v)
               am == [al EXCEPT ![b] = v]
           IN  /\ Tiled(r, B, sz, am) /\ r.brk = h.brk /\ (Epilogue(h) => Epilogue(r))
               /\ \A S \in SUBSET B : Tagged(h, S \ {b}, sz, al) => Tagged(r, S \cup {b}, sz, am)
               /\ \A F \in SUBSET B : Listed(h, F) => Listed(r, F)
               /\ Kept(B, h, sz, r, sz)
<1> DEFINE r == PutTags(h, b, sz[b], v)  am == [al EXCEPT ![b] = v]
<1>1. h \in Heaps /\ Front(h) /\ Shape(B, sz, h.brk) /\ al \in [B -> {0, 1}]
  BY DEF Tiled
<1>2. am \in [B -> {0, 1}] /\ am[b] = v /\ \A c \in B \ {b} : am[c] = al[c]
  BY <1>1
<1>3. \A d \in B : /\ d \in Int /\ sz[d] \in Int /\ sz[d] >= 16 /\ d >= 32 /\ d + sz[d] <= h.brk
                   /\ d \in Word /\ d + 4 \in Word /\ d - 4 \in Word /\ d + sz[d] - 8 \in Word
                   /\ d % 8 = 0 /\ sz[d] % 8 = 0
  BY <1>1, BlockWords
<1>4. /\ h.brk \in Int /\ h.brk % 8 = 0 /\ 4 \in Word /\ 24 \in Word /\ h.brk - 4 \in Word /\ 8 \in Word
  <2>1. h.brk \in Aligned /\ 32 <= h.brk
    BY <1>1 DEF Shape
  <2> QED
    BY <2>1, IsAligned, IsWord, HeapConstants
<1>5. /\ r \in Heaps /\ r.brk = h.brk /\ r.heap_listp = h.heap_listp
      /\ r.mem[b - 4] = sz[b] + v /\ r.mem[b + sz[b] - 8] = sz[b] + v
      /\ \A q \in Word \ {b - 4, b + sz[b] - 8} : r.mem[q] = h.mem[q]
  BY <1>1, PutTagsWrites
<1> HIDE DEF r, am
<1>6. r.mem[4] = h.mem[4] /\ r.mem[24] = h.mem[24] /\ r.mem[8] = h.mem[8] /\ r.mem[h.brk - 4] = h.mem[h.brk - 4]
  <2>1. {4, 24, 8, h.brk - 4} \cap {b - 4, b + sz[b] - 8} = {}
    BY <1>3, <1>4
  <2> QED
    BY <1>4, <1>5, <2>1
<1>7. ASSUME NEW c \in B, c # b
      PROVE  /\ r.mem[c - 4] = h.mem[c - 4] /\ r.mem[c + sz[c] - 8] = h.mem[c + sz[c] - 8]
             /\ r.mem[c] = h.mem[c] /\ r.mem[c + 4] = h.mem[c + 4]
             /\ \A q \in Word : c <= q /\ q < c + sz[c] - 8 => r.mem[q] = h.mem[q]
  <2>1. b + sz[b] <= c \/ c + sz[c] <= b
    BY <1>1, <1>7, Apart
  <2>2. {c - 4, c + sz[c] - 8, c, c + 4} \cap {b - 4, b + sz[b] - 8} = {}
    BY <1>3, <2>1
  <2>3. \A q \in Word : c <= q /\ q < c + sz[c] - 8 => q \notin {b - 4, b + sz[b] - 8}
    BY <1>3, <2>1, IsWord, HeapConstants
  <2> QED
    BY <1>3, <1>5, <2>2, <2>3
<1>8. /\ r.mem[b] = h.mem[b] /\ r.mem[b + 4] = h.mem[b + 4]
      /\ \A q \in Word : b <= q /\ q < b + sz[b] - 8 => r.mem[q] = h.mem[q]
  <2>1. {b, b + 4} \cap {b - 4, b + sz[b] - 8} = {}
    BY <1>3
  <2>2. \A q \in Word : b <= q /\ q < b + sz[b] - 8 => q \notin {b - 4, b + sz[b] - 8}
    BY <1>3, IsWord, HeapConstants
  <2> QED
    BY <1>3, <1>5, <2>1, <2>2
<1>9. Tiled(r, B, sz, am) /\ (Epilogue(h) => Epilogue(r))
  BY <1>1, <1>2, <1>5, <1>6 DEF Tiled, Front, Epilogue
<1>10. ASSUME NEW S \in SUBSET B, Tagged(h, S \ {b}, sz, al) PROVE Tagged(r, S \cup {b}, sz, am)
  BY <1>2, <1>5, <1>7, <1>10 DEF Tagged
<1>11. ASSUME NEW F \in SUBSET B, Listed(h, F) PROVE Listed(r, F)
  <2>1. \A c \in F : r.mem[c] = h.mem[c] /\ r.mem[c + 4] = h.mem[c + 4]
    BY <1>7, <1>8
  <2>2. PICK rank, N : Linked(h, F, rank, N)
    BY <1>11 DEF Listed
  <2>3. Linked(r, F, rank, N)
    BY <1>5, <1>6, <2>1, <2>2, ListStays
  <2> QED
    BY <2>3 DEF Listed
<1>12. Kept(B, h, sz, r, sz)
  BY <1>7, <1>8 DEF Kept
<1> QED
  BY <1>5, <1>9, <1>10, <1>11, <1>12 DEF r, am

-----------------------------------------------------------------------------
\* coalesce.

\* Two free neighbours x and y, one of them loose, become one loose block
\* when the other leaves the list.
LEMMA Absorb ==
    ASSUME NEW h, NEW B, NEW sz, NEW al, NEW b, Loose(h, B, sz, al, b),
           NEW x \in FreeOf(B, al), x + sz[x] \in FreeOf(B, al),
           NEW o, {b, o} = {x, x + sz[x]}, o # b
    PROVE  LET C == B \ {x + sz[x]}
               r == remove_free(h, o)
           IN  /\ Loose(r, C, Merge(B, sz, x), [d \in C |-> al[d]], x) /\ r.brk = h.brk
               /\ HeldOf(C, [d \in C |-> al[d]]) = HeldOf(B, al)
               /\ Kept(HeldOf(B, al), h, sz, r, Merge(B, sz, x))
               /\ \A q \in Word : OffList(q, FreeOf(B, al)) => r.mem[q] = h.mem[q]
<1> DEFINE y == x + sz[x]  C == B \ {y}  r == remove_free(h, o)  tz == Merge(B, sz, x)
           am == [d \in C |-> al[d]]  F == FreeOf(B, al)  G == F \ {b}
<1>1. /\ Tiled(h, B, sz, al) /\ Epilogue(h) /\ b \in B /\ al[b] = 0 /\ Tagged(h, B \ {b}, sz, al)
      /\ Listed(h, G) /\ Lone(sz, G)
  BY DEF Loose
<1>2. Shape(B, sz, h.brk) /\ al \in [B -> {0, 1}] /\ x \in B /\ y \in B /\ al[x] = 0 /\ al[y] = 0
  BY <1>1 DEF Tiled, FreeOf
<1>3. x # y
  BY <1>2, BlockWords
<1>4. o \in G /\ G \in SUBSET B /\ G \in SUBSET FreeOf(B, al) /\ G \ {o} = F \ {x, y}
  <2>1. {b, o} = {x, y}
    OBVIOUS
  <2> HIDE DEF y
  <2> QED
    BY <1>2, <2>1 DEF FreeOf
<1>5. /\ r \in Heaps /\ r.brk = h.brk /\ Listed(r, G \ {o})
      /\ \A q \in Word : OffList(q, G) => r.mem[q] = h.mem[q]
  <2>1. G \in SUBSET B /\ o \in G /\ Tiled(h, B, sz, al) /\ Listed(h, G)
    BY <1>1, <1>4
  <2> HIDE DEF G
  <2>2. /\ remove_free(h, o) \in Heaps /\ remove_free(h, o).brk = h.brk
        /\ Listed(remove_free(h, o), G \ {o})
        /\ \A q \in Word : OffList(q, G) => remove_free(h, o).mem[q] = h.mem[q]
    BY ONLY <2>1, Leaves
  <2> QED
    BY <2>2
<1>6. /\ Tiled(r, B, sz, al) /\ Epilogue(r) /\ Tagged(r, B \ {b}, sz, al)
      /\ Kept(HeldOf(B, al), h, sz, r, sz)
  <2> HIDE DEF G, r
  <2>1. /\ Tiled(r, B, sz, al) /\ (Epilogue(h) => Epilogue(r))
        /\ \A S \in SUBSET B : Tagged(h, S, sz, al) => Tagged(r, S, sz, al)
        /\ Kept(B \ G, h, sz, r, sz)
    BY <1>1, <1>4, <1>5, LinksOnly
  <2>2. HeldOf(B, al) \subseteq B \ G
    BY <1>4 DEF HeldOf, FreeOf
  <2> QED
    BY <1>1, <2>1, <2>2 DEF Kept
<1>7. Shape(C, tz, r.brk)
  BY <1>2, <1>5, MergeShape
<1>8. \A c \in C : c # x => tz[c] = sz[c]
  BY DEF Merge
<1> HIDE DEF tz, y, r
<1>9. am \in [C -> {0, 1}] /\ \A c \in C : am[c] = al[c]
  BY <1>2
<1> HIDE DEF am
<1>10. Tiled(r, C, tz, am)
  BY <1>6, <1>7, <1>9 DEF Tiled
<1>11. FreeOf(C, am) \ {x} = G \ {o} /\ x \in C /\ am[x] = 0
  BY <1>2, <1>3, <1>4, <1>9 DEF FreeOf
<1>12. Tagged(r, C \ {x}, tz, am)
  <2>1. C \ {x} \subseteq B \ {b}
    BY DEF y
  <2> QED
    BY <1>6, <1>8, <1>9, <2>1 DEF Tagged
<1>13. Lone(tz, FreeOf(C, am) \ {x})
  <2>1. \A c \in G \ {o} : c \in C /\ c # x /\ c \in G
    BY <1>4, <1>11 DEF FreeOf
  <2> QED
    BY <1>1, <1>8, <1>11, <2>1 DEF Lone
<1>14. HeldOf(C, am) = HeldOf(B, al)
  BY <1>2, <1>9 DEF HeldOf
<1>15. Kept(HeldOf(B, al), h, sz, r, tz)
  <2>1. \A c \in HeldOf(B, al) : tz[c] = sz[c]
    BY <1>2, <1>8 DEF HeldOf
  <2> QED
    BY <1>6, <2>1 DEF Kept
<1>16. Loose(r, C, tz, am, x)
  BY <1>5, <1>6, <1>10, <1>11, <1>12, <1>13 DEF Loose
<1>17. \A q \in Word : OffList(q, FreeOf(B, al)) => r.mem[q] = h.mem[q]
  BY <1>4, <1>5 DEF OffList
<1> QED
  BY <1>5, <1>14, <1>15, <1>16, <1>17 DEF tz, y, r, am

\* A loose block with its tags and no free neighbour joins the list.
LEMMA Settle ==
    ASSUME NEW h, NEW B, NEW sz, NEW al, NEW b, Loose(h, B, sz, al, b), Tagged(h, B, sz, al),
           b + sz[b] \notin FreeOf(B, al), \A c \in FreeOf(B, al) : c + sz[c] # b
    PROVE  LET r == add_free(h, b)
           IN  Whole(r, B, sz, al) /\ r.brk = h.brk /\ Kept(HeldOf(B, al), h, sz, r, sz)
<1> DEFINE F == FreeOf(B, al)  G == F \ {b}  r == add_free(h, b)
<1>1. /\ Tiled(h, B, sz, al) /\ Epilogue(h) /\ b \in B /\ al[b] = 0
      /\ Listed(h, G) /\ Lone(sz, G)
  BY DEF Loose
<1>2. G \in SUBSET B /\ b \in F /\ G \cup {b} = F /\ b \notin G
  BY <1>1 DEF FreeOf
<1>3. /\ r \in Heaps /\ r.brk = h.brk /\ Listed(r, F)
      /\ \A q \in Word : OffList(q, F) => r.mem[q] = h.mem[q]
  <2> HIDE DEF G
  <2>1. /\ r \in Heaps /\ r.brk = h.brk /\ Listed(r, G \cup {b})
        /\ \A q \in Word : OffList(q, G \cup {b}) => r.mem[q] = h.mem[q]
    BY <1>1, <1>2, Joins
  <2> QED
    BY <1>2, <2>1
<1>4. /\ Tiled(r, B, sz, al) /\ Epilogue(r) /\ Tagged(r, B, sz, al)
      /\ Kept(HeldOf(B, al), h, sz, r, sz)
  <2> HIDE DEF r
  <2>1. F \in SUBSET B /\ HeldOf(B, al) \subseteq B \ F
    BY DEF FreeOf, HeldOf
  <2> HIDE DEF F
  <2>2. /\ Tiled(r, B, sz, al) /\ (Epilogue(h) => Epilogue(r))
        /\ \A S \in SUBSET B : Tagged(h, S, sz, al) => Tagged(r, S, sz, al)
        /\ Kept(B \ F, h, sz, r, sz)
    BY <1>1, <1>3, <2>1, LinksOnly
  <2> QED
    BY <1>1, <2>1, <2>2 DEF Kept
<1>5. Lone(sz, F)
  BY <1>1, <1>2 DEF Lone
<1> QED
  BY <1>3, <1>4, <1>5 DEF Whole

\* The same, the tags being written first.
LEMMA SettleTagged ==
    ASSUME NEW h, NEW B, NEW sz, NEW al, NEW b, Loose(h, B, sz, al, b),
           b + sz[b] \notin FreeOf(B, al), \A c \in FreeOf(B, al) : c + sz[c] # b
    PROVE  LET r == add_free(PutTags(h, b, sz[b], 0), b)
           IN  Whole(r, B, sz, al) /\ r.brk = h.brk /\ Kept(HeldOf(B, al), h, sz, r, sz)
<1> DEFINE g == PutTags(h, b, sz[b], 0)  r == add_free(g, b)
<1>1. /\ Tiled(h, B, sz, al) /\ Epilogue(h) /\ b \in B /\ al[b] = 0 /\ Tagged(h, B \ {b}, sz, al)
      /\ Listed(h, FreeOf(B, al) \ {b}) /\ Lone(sz, FreeOf(B, al) \ {b})
  BY DEF Loose
<1>2. [al EXCEPT ![b] = 0] = al
  <2>1. al \in [B -> {0, 1}]
    BY <1>1 DEF Tiled
  <2> QED
    BY <1>1, <2>1
<1>3. /\ Tiled(g, B, sz, al) /\ g.brk = h.brk /\ (Epilogue(h) => Epilogue(g))
      /\ \A S \in SUBSET B : Tagged(h, S \ {b}, sz, al) => Tagged(g, S \cup {b}, sz, al)
      /\ \A F \in SUBSET B : Listed(h, F) => Listed(g, F)
      /\ Kept(B, h, sz, g, sz)
  <2>1. LET am == [al EXCEPT ![b] = 0]
        IN  /\ Tiled(g, B, sz, am) /\ g.brk = h.brk /\ (Epilogue(h) => Epilogue(g))
            /\ \A S \in SUBSET B : Tagged(h, S \ {b}, sz, al) => Tagged(g, S \cup {b}, sz, am)
            /\ \A F \in SUBSET B : Listed(h, F) => Listed(g, F)
            /\ Kept(B, h, sz, g, sz)
    BY <1>1, Marks
  <2> HIDE DEF g
  <2> QED
    BY <1>2, <2>1
<1> HIDE DEF g
<1>4. Tagged(g, B, sz, al)
  <2>1. Tagged(g, B \cup {b}, sz, al)
    BY <1>1, <1>3
  <2>2. B \cup {b} = B
    BY <1>1
  <2> QED
    BY <2>1, <2>2
<1>5. Loose(g, B, sz, al, b)
  <2>1. Tagged(g, B \ {b}, sz, al)
    BY <1>4 DEF Tagged
  <2>2. FreeOf(B, al) \ {b} \in SUBSET B
    BY DEF FreeOf
  <2> QED
    BY <1>1, <1>3, <2>1, <2>2 DEF Loose
<1>6. Whole(r, B, sz, al) /\ r.brk = g.brk /\ Kept(HeldOf(B, al), g, sz, r, sz)
  BY <1>4, <1>5, Settle
<1>7. Kept(HeldOf(B, al), h, sz, g, sz)
  BY <1>3 DEF Kept, HeldOf
<1> QED
  BY <1>3, <1>6, <1>7, KeptTrans DEF g

\* What the macros read in the tags of a block.
LEMMA ReadTags ==
    ASSUME NEW h, NEW B, NEW sz, NEW al, Tiled(h, B, sz, al), NEW S \in SUBSET B, Tagged(h, S, sz, al), NEW c \in S
    PROVE  /\ GET_SIZE(h, c - 4) = sz[c] /\ GET_ALLOC(h, c - 4) = al[c]
           /\ GET_SIZE(h, c + sz[c] - 8) = sz[c] /\ GET_ALLOC(h, c + sz[c] - 8) = al[c]
           /\ c \in Int /\ sz[c] \in Int /\ sz[c] >= 16
<1> DEFINE v == sz[c] + al[c]
<1>1. h.mem[c - 4] = v /\ h.mem[c + sz[c] - 8] = v
  BY DEF Tagged
<1>2. c \in Int /\ sz[c] \in Int /\ sz[c] >= 16 /\ sz[c] \in Aligned /\ al[c] \in {0, 1}
  BY BlockWords DEF Tiled
<1>3. v % 8 = al[c] /\ v % 2 = al[c] /\ v \in Nat
  BY <1>2, Unpack
<1>4. v - (v % 8) = sz[c]
  <2>1. CASE al[c] = 0
    BY <1>2, <1>3, <2>1
  <2>2. CASE al[c] = 1
    BY <1>2, <1>3, <2>2
  <2> QED
    BY <1>2, <2>1, <2>2
<1> HIDE DEF v
<1> QED
  BY <1>1, <1>2, <1>3, <1>4 DEF GET_SIZE, GET_ALLOC

\* What the macros read around a block.
LEMMA Reads ==
    ASSUME NEW h, NEW B, NEW sz, NEW al, Tiled(h, B, sz, al), Epilogue(h), Tagged(h, B, sz, al), NEW b \in B
    PROVE  /\ GET_SIZE(h, HDRP(b)) = sz[b] /\ GET_ALLOC(h, HDRP(b)) = al[b]
           /\ FTRP(h, b) = b + sz[b] - 8 /\ GET_ALLOC(h, FTRP(h, b)) = al[b]
           /\ NEXT_BLKP(h, b) = b + sz[b]
           /\ b + sz[b] \in B => /\ GET_ALLOC(h, HDRP(NEXT_BLKP(h, b))) = al[b + sz[b]]
                                 /\ GET_SIZE(h, HDRP(NEXT_BLKP(h, b))) = sz[b + sz[b]]
           /\ b + sz[b] \notin B => GET_ALLOC(h, HDRP(NEXT_BLKP(h, b))) = 1 /\ GET_SIZE(h, HDRP(NEXT_BLKP(h, b))) = 0
           /\ b = 32 => PREV_BLKP(h, b) = b
           /\ \A c \in B : c + sz[c] = b => PREV_BLKP(h, b) = c
<1>1. h \in Heaps /\ Front(h) /\ Shape(B, sz, h.brk) /\ al \in [B -> {0, 1}]
  BY DEF Tiled
<1>2. \A c \in B : /\ GET_SIZE(h, c - 4) = sz[c] /\ GET_ALLOC(h, c - 4) = al[c]
                   /\ GET_SIZE(h, c + sz[c] - 8) = sz[c] /\ GET_ALLOC(h, c + sz[c] - 8) = al[c]
                   /\ c \in Int /\ sz[c] \in Int /\ sz[c] >= 16
  BY ReadTags
<1>3. GET_SIZE(h, HDRP(b)) = sz[b] /\ GET_ALLOC(h, HDRP(b)) = al[b]
  BY <1>2 DEF HDRP
<1>4. FTRP(h, b) = b + sz[b] - 8 /\ NEXT_BLKP(h, b) = b + sz[b] /\ GET_ALLOC(h, FTRP(h, b)) = al[b]
  BY <1>2 DEF FTRP, HDRP, NEXT_BLKP
<1>5. b + sz[b] \in B => /\ GET_ALLOC(h, HDRP(NEXT_BLKP(h, b))) = al[b + sz[b]]
                         /\ GET_SIZE(h, HDRP(NEXT_BLKP(h, b))) = sz[b + sz[b]]
  BY <1>2, <1>4 DEF HDRP
<1>6. b + sz[b] \notin B => GET_ALLOC(h, HDRP(NEXT_BLKP(h, b))) = 1 /\ GET_SIZE(h, HDRP(NEXT_BLKP(h, b))) = 0
  <2>1. b + sz[b] \notin B => b + sz[b] = h.brk
    BY <1>1 DEF Shape
  <2>2. h.mem[h.brk - 4] = 1
    BY DEF Epilogue
  <2> QED
    BY <1>4, <2>1, <2>2 DEF HDRP, GET_ALLOC, GET_SIZE
<1>7. b = 32 => PREV_BLKP(h, b) = b
  BY <1>1 DEF PREV_BLKP, GET_SIZE, Front
<1>8. ASSUME NEW c \in B, c + sz[c] = b PROVE PREV_BLKP(h, b) = c
  <2>1. PREV_BLKP(h, b) = b - GET_SIZE(h, c + sz[c] - 8)
    <3>1. b - 8 = c + sz[c] - 8
      BY <1>2, <1>8
    <3> QED
      BY <3>1, Zenon DEF PREV_BLKP
  <2> QED
    BY <1>2, <1>8, <2>1
<1> QED
  BY <1>3, <1>4, <1>5, <1>6, <1>7, <1>8

\* Where blocks end after a merge.
LEMMA MergedEnds ==
    ASSUME NEW B, NEW sz, NEW brk, Shape(B, sz, brk), NEW x \in B, x + sz[x] \in B
    PROVE  LET tz == Merge(B, sz, x)
               y  == x + sz[x]
           IN  /\ tz[x] = sz[x] + sz[y] /\ x + tz[x] = y + sz[y] /\ tz[x] >= sz[x] /\ tz[x] >= sz[y]
               /\ tz[x] >= 16 /\ x \in B \ {y} /\ x # y /\ x \in Int /\ tz[x] \in Int
               /\ \A c \in B \ {y} : c # x => tz[c] = sz[c]
<1> DEFINE y == x + sz[x]
<1>1. x \in Int /\ sz[x] \in Int /\ sz[y] \in Int /\ sz[x] >= 16 /\ sz[y] >= 16
  BY BlockWords
<1>2. x # y /\ x \in B \ {y}
  BY <1>1
<1> HIDE DEF y
<1>3. Merge(B, sz, x)[x] = sz[x] + sz[y]
  BY <1>2 DEF Merge, y
<1>4. x + Merge(B, sz, x)[x] = y + sz[y]
  BY <1>1, <1>3 DEF y
<1> QED
  BY <1>1, <1>2, <1>3, <1>4 DEF Merge, y

\* What a call leaves: a whole heap in which the held blocks are as they were.
Left(S, h, sz, r, C, tz, am) ==
    Whole(r, C, tz, am) /\ r.brk = h.brk /\ HeldOf(C, am) = S /\ Kept(S, h, sz, r, tz)

\* coalesce, in all its four cases, makes a loose block part of a whole heap:
\* the free neighbours are merged, and the held blocks are as they were.
LEMMA Coalesce ==
    ASSUME NEW h, NEW B, NEW sz, NEW al, NEW b, Loose(h, B, sz, al, b), Tagged(h, B, sz, al)
    PROVE  LET r == coalesce(h, b)
           IN  \E C, tz, am : /\ Left(HeldOf(B, al), h, sz, r.heap, C, tz, am)
                              /\ r.bp \in C /\ am[r.bp] = 0 /\ tz[r.bp] >= sz[b]
<1> DEFINE F == FreeOf(B, al)  H == HeldOf(B, al)  prev == PREV_BLKP(h, b)  next == b + sz[b]
           r == coalesce(h, b)
           Goal(C, tz, am) == Left(H, h, sz, r.heap, C, tz, am) /\ r.bp \in C /\ am[r.bp] = 0 /\ tz[r.bp] >= sz[b]
<1>1. /\ Tiled(h, B, sz, al) /\ Epilogue(h) /\ b \in B /\ al[b] = 0 /\ Lone(sz, F \ {b})
      /\ Shape(B, sz, h.brk) /\ al \in [B -> {0, 1}]
  BY DEF Loose, Tiled
<1>2. \A d \in B : d \in Int /\ sz[d] \in Int /\ sz[d] >= 16 /\ d >= 32
  BY <1>1, BlockWords
<1>3. /\ GET_SIZE(h, HDRP(b)) = sz[b] /\ NEXT_BLKP(h, b) = next
      /\ next \in B => GET_ALLOC(h, HDRP(next)) = al[next] /\ GET_SIZE(h, HDRP(next)) = sz[next]
      /\ next \notin B => GET_ALLOC(h, HDRP(next)) = 1
      /\ b = 32 => prev = b
      /\ \A c \in B : c + sz[c] = b => prev = c
  BY <1>1, Reads
<1>4. /\ \A c \in B : GET_SIZE(h, HDRP(c)) = sz[c] /\ GET_ALLOC(h, FTRP(h, c)) = al[c]
  BY <1>1, Reads
<1>5. b # 32 => prev \in B /\ prev + sz[prev] = b
  <2>1. b # 32 => \E c \in B : c + sz[c] = b
    BY <1>1 DEF Shape
  <2> QED
    BY <1>3, <2>1
<1> DEFINE PA == GET_ALLOC(h, FTRP(h, prev)) = 1 \/ prev = b
           NA == GET_ALLOC(h, HDRP(next)) = 1
<1>6. NA <=> next \notin F
  BY <1>1, <1>3 DEF FreeOf
<1>7. /\ PA => \A c \in F : c + sz[c] # b
      /\ ~PA => prev \in F /\ prev + sz[prev] = b
  <2>1. PA => \A c \in F : c + sz[c] # b
    <3> SUFFICES ASSUME PA, NEW c \in F, c + sz[c] = b PROVE FALSE
      OBVIOUS
    <3>1. c \in B /\ al[c] = 0 /\ prev = c
      BY <1>3 DEF FreeOf
    <3>2. prev # b
      BY <1>2, <3>1
    <3> QED
      BY <1>4, <3>1, <3>2
  <2>2. ~PA => prev \in F /\ prev + sz[prev] = b
    <3> SUFFICES ASSUME ~PA PROVE prev \in F /\ prev + sz[prev] = b
      OBVIOUS
    <3>1. prev \in B /\ prev + sz[prev] = b
      BY <1>3, <1>5
    <3>2. al[prev] # 1
      BY <1>4, <3>1
    <3> QED
      BY <1>1, <3>1, <3>2 DEF FreeOf
  <2> QED
    BY <2>1, <2>2
<1>8. b \in F
  BY <1>1 DEF FreeOf
<1> DEFINE a  == IF PA THEN h ELSE remove_free(h, prev)
           a2 == IF NA THEN a ELSE remove_free(a, next)
           first == IF PA THEN b ELSE prev
           total == sz[b] + (IF PA THEN 0 ELSE GET_SIZE(h, HDRP(prev)))
                          + (IF NA THEN 0 ELSE GET_SIZE(h, HDRP(next)))
           a3 == IF PA /\ NA THEN a2 ELSE PutTags(a2, first, total, 0)
<1>9. r.heap = add_free(a3, first) /\ r.bp = first
  BY <1>3 DEF coalesce, Result
<1>10. ASSUME NEW x \in F, x + sz[x] \in F,
              NEW C, C = B \ {x + sz[x]}, NEW tz, tz = Merge(B, sz, x), NEW am, am = [d \in C |-> al[d]]
       PROVE  /\ tz[x] = sz[x] + sz[x + sz[x]] /\ x + tz[x] = x + sz[x] + sz[x + sz[x]] /\ tz[x] >= sz[x]
              /\ tz[x] >= sz[x + sz[x]] /\ x \in C /\ x # x + sz[x] /\ am[x] = 0
              /\ \A c \in C : c # x => tz[c] = sz[c]
              /\ FreeOf(C, am) = F \ {x + sz[x]}
              /\ x + tz[x] # x
  <2> DEFINE y == x + sz[x]
  <2>1. x \in B /\ y \in B /\ al[x] = 0
    BY <1>10 DEF FreeOf
  <2>2. /\ tz[x] = sz[x] + sz[y] /\ x + tz[x] = y + sz[y] /\ tz[x] >= sz[x] /\ tz[x] >= sz[y]
        /\ tz[x] >= 16 /\ x \in C /\ x # y /\ x \in Int /\ tz[x] \in Int
        /\ \A c \in C : c # x => tz[c] = sz[c]
    BY <1>1, <1>10, <2>1, MergedEnds
  <2>3. x + tz[x] # x
    BY <2>2
  <2> HIDE DEF y
  <2>4. FreeOf(C, am) = F \ {y}
    BY <1>10 DEF FreeOf, y
  <2> QED
    BY <1>10, <2>1, <2>2, <2>3, <2>4 DEF y
<1> HIDE DEF r, prev, PA, NA
<1>11. CASE PA /\ NA
  <2>1. a3 = h /\ first = b
    BY <1>11
  <2>2. Whole(add_free(h, b), B, sz, al) /\ add_free(h, b).brk = h.brk
        /\ Kept(H, h, sz, add_free(h, b), sz)
    BY <1>6, <1>7, <1>11, Settle
  <2>3. Goal(B, sz, al)
    BY <1>1, <1>2, <1>9, <2>1, <2>2 DEF Left
  <2> QED
    BY <2>3 DEF r
<1>12. CASE PA /\ ~NA
  <2> DEFINE C == B \ {next}  tz == Merge(B, sz, b)  am == [d \in C |-> al[d]]  g == remove_free(h, next)
  <2>1. next \in F /\ next # b
    BY <1>1, <1>2, <1>6, <1>8, <1>12
  <2>2. Loose(g, C, tz, am, b) /\ g.brk = h.brk /\ HeldOf(C, am) = H /\ Kept(H, h, sz, g, tz)
    BY <1>8, <2>1, Absorb
  <2>3. /\ tz[b] = sz[b] + sz[next] /\ b + tz[b] = next + sz[next] /\ tz[b] >= sz[b] /\ b \in C
        /\ am[b] = 0 /\ (\A c \in C : c # b => tz[c] = sz[c]) /\ FreeOf(C, am) = F \ {next} /\ b + tz[b] # b
    BY <1>8, <1>10, <2>1
  <2>4. a3 = PutTags(g, b, tz[b], 0) /\ first = b
    <3>1. total = sz[b] + 0 + sz[next]
      BY <1>3, <1>12, <2>1 DEF FreeOf
    <3>2. total = tz[b]
      BY <1>2, <2>1, <2>3, <3>1 DEF FreeOf
    <3> QED
      BY <1>12, <3>2
  <2> HIDE DEF C, tz, am, g, next, F, H, a3, first, r
  <2>5. b + tz[b] \notin FreeOf(C, am)
    <3>1. next + sz[next] \notin F \ {b}
      BY <1>1, <2>1 DEF Lone
    <3> QED
      BY <2>3, <3>1
  <2>6. \A c \in FreeOf(C, am) : c + tz[c] # b
    BY <1>7, <1>12, <2>3 DEF FreeOf
  <2>7. /\ Whole(add_free(PutTags(g, b, tz[b], 0), b), C, tz, am)
        /\ add_free(PutTags(g, b, tz[b], 0), b).brk = g.brk
        /\ Kept(HeldOf(C, am), g, tz, add_free(PutTags(g, b, tz[b], 0), b), tz)
    BY <2>2, <2>5, <2>6, SettleTagged
  <2>8. Goal(C, tz, am)
    BY <1>9, <2>2, <2>3, <2>4, <2>7, KeptTrans DEF Left
  <2> QED
    BY <2>8 DEF r, H
<1>13. CASE ~PA /\ NA
  <2> DEFINE C == B \ {b}  tz == Merge(B, sz, prev)  am == [d \in C |-> al[d]]  g == remove_free(h, prev)
  <2>1. prev \in F /\ prev + sz[prev] = b /\ prev # b /\ next \notin F
    BY <1>2, <1>6, <1>7, <1>13 DEF FreeOf
  <2>2. Loose(g, C, tz, am, prev) /\ g.brk = h.brk /\ HeldOf(C, am) = H /\ Kept(H, h, sz, g, tz)
    <3>1. {b, prev} = {prev, prev + sz[prev]}
      BY <2>1
    <3> QED
      BY <1>8, <2>1, <3>1, Absorb
  <2>3. /\ tz[prev] = sz[prev] + sz[b] /\ prev + tz[prev] = b + sz[b] /\ tz[prev] >= sz[b] /\ prev \in C
        /\ am[prev] = 0 /\ (\A c \in C : c # prev => tz[c] = sz[c]) /\ FreeOf(C, am) = F \ {b} /\ prev + tz[prev] # prev
    <3>1. prev + sz[prev] \in F /\ C = B \ {prev + sz[prev]}
      BY <1>8, <2>1
    <3> HIDE DEF C, F, next, tz, am
    <3>2. /\ tz[prev] = sz[prev] + sz[prev + sz[prev]] /\ prev + tz[prev] = prev + sz[prev] + sz[prev + sz[prev]]
          /\ tz[prev] >= sz[prev + sz[prev]] /\ prev \in C /\ am[prev] = 0
          /\ (\A c \in C : c # prev => tz[c] = sz[c])
          /\ FreeOf(C, am) = F \ {prev + sz[prev]} /\ prev + tz[prev] # prev
      BY <1>10, <2>1, <3>1 DEF tz, am
    <3> QED
      BY <2>1, <3>2
  <2>4. a3 = PutTags(g, prev, tz[prev], 0) /\ first = prev
    <3>1. total = sz[b] + sz[prev] + 0
      BY <1>4, <1>13, <2>1 DEF FreeOf
    <3>2. total = tz[prev]
      <4>1. sz[b] \in Int /\ sz[prev] \in Int
        BY <1>1, <1>2, <2>1 DEF FreeOf
      <4> QED
        BY <2>3, <3>1, <4>1
    <3> QED
      BY <1>13, <3>2
  <2>5. prev + tz[prev] \notin FreeOf(C, am)
    BY <2>1, <2>3
  <2> HIDE DEF C, tz, am, g, next, F, H, a3, first, r
  <2>6. \A c \in FreeOf(C, am) : c + tz[c] # prev
    <3>1. \A c \in F \ {b} : c + sz[c] # prev
      BY <1>1, <2>1 DEF Lone
    <3>2. \A c \in FreeOf(C, am) : c \in C
      BY DEF FreeOf
    <3> QED
      BY <2>3, <3>1, <3>2
  <2>7. /\ Whole(add_free(PutTags(g, prev, tz[prev], 0), prev), C, tz, am)
        /\ add_free(PutTags(g, prev, tz[prev], 0), prev).brk = g.brk
        /\ Kept(HeldOf(C, am), g, tz, add_free(PutTags(g, prev, tz[prev], 0), prev), tz)
    BY <2>2, <2>5, <2>6, SettleTagged
  <2>8. Goal(C, tz, am)
    BY <1>9, <2>2, <2>3, <2>4, <2>7, KeptTrans DEF Left
  <2> QED
    BY <2>8 DEF r, H
<1>14. CASE ~PA /\ ~NA
  <2> DEFINE C == B \ {b}  tz == Merge(B, sz, prev)  am == [d \in C |-> al[d]]  g == remove_free(h, prev)
             D == C \ {next}  uz == Merge(C, tz, prev)  an == [d \in D |-> am[d]]  k == remove_free(g, next)
  <2>1. prev \in F /\ prev + sz[prev] = b /\ prev # b /\ next \in F /\ next # b /\ next # prev
    BY <1>2, <1>6, <1>7, <1>8, <1>14 DEF FreeOf
  <2>2. Loose(g, C, tz, am, prev) /\ g.brk = h.brk /\ HeldOf(C, am) = H /\ Kept(H, h, sz, g, tz)
    <3>1. {b, prev} = {prev, prev + sz[prev]}
      BY <2>1
    <3> QED
      BY <1>8, <2>1, <3>1, Absorb
  <2>3. /\ tz[prev] = sz[prev] + sz[b] /\ prev + tz[prev] = next /\ tz[prev] >= sz[b] /\ prev \in C
        /\ am[prev] = 0 /\ (\A c \in C : c # prev => tz[c] = sz[c]) /\ FreeOf(C, am) = F \ {b} /\ prev + tz[prev] # prev
    <3>1. prev + sz[prev] \in F /\ C = B \ {prev + sz[prev]}
      BY <1>8, <2>1
    <3> HIDE DEF C, F, tz, am
    <3>2. /\ tz[prev] = sz[prev] + sz[prev + sz[prev]] /\ prev + tz[prev] = prev + sz[prev] + sz[prev + sz[prev]]
          /\ tz[prev] >= sz[prev + sz[prev]] /\ prev \in C /\ am[prev] = 0
          /\ (\A c \in C : c # prev => tz[c] = sz[c])
          /\ FreeOf(C, am) = F \ {prev + sz[prev]} /\ prev + tz[prev] # prev
      BY <1>10, <2>1, <3>1 DEF tz, am
    <3> QED
      BY <2>1, <3>2
  <2>4. Shape(C, tz, g.brk) /\ prev \in FreeOf(C, am) /\ next \in FreeOf(C, am) /\ Lone(tz, FreeOf(C, am) \ {prev})
    <3> HIDE DEF C, tz, am, g, next, F, H
    <3> QED
      BY <2>1, <2>2, <2>3 DEF Loose, Tiled
  <2>5. prev \in C /\ next \in C /\ tz[next] = sz[next] /\ next \in B /\ prev \in B
    <3> HIDE DEF tz, am, g, next
    <3> QED
      BY <2>1, <2>3 DEF FreeOf
  <2>6. Loose(k, D, uz, an, prev) /\ k.brk = g.brk /\ HeldOf(D, an) = HeldOf(C, am)
        /\ Kept(HeldOf(C, am), g, tz, k, uz)
    <3>1. {prev, next} = {prev, prev + tz[prev]} /\ prev + tz[prev] \in FreeOf(C, am) /\ D = C \ {prev + tz[prev]}
      BY <2>3, <2>4
    <3>2. /\ Loose(g, C, tz, am, prev) /\ prev \in FreeOf(C, am) /\ prev + tz[prev] \in FreeOf(C, am)
          /\ next # prev /\ {prev, next} = {prev, prev + tz[prev]}
      BY <2>1, <2>2, <2>4, <3>1
    <3> HIDE DEF C, tz, am, g, next
    <3>3. LET E == C \ {prev + tz[prev]}
              q == remove_free(g, next)
          IN  /\ Loose(q, E, Merge(C, tz, prev), [d \in E |-> am[d]], prev) /\ q.brk = g.brk
              /\ HeldOf(E, [d \in E |-> am[d]]) = HeldOf(C, am)
              /\ Kept(HeldOf(C, am), g, tz, q, Merge(C, tz, prev))
      BY ONLY <3>2, Absorb
    <3> QED
      BY <3>1, <3>3
  <2>7. /\ uz[prev] = tz[prev] + tz[next] /\ prev + uz[prev] = next + tz[next] /\ uz[prev] >= tz[prev]
        /\ prev \in D /\ \A c \in D : c # prev => uz[c] = tz[c]
    <3> HIDE DEF C, tz, am, g, next, F, H
    <3> QED
      BY <2>3, <2>4, <2>5, MergedEnds
  <2>8. a3 = PutTags(k, prev, uz[prev], 0) /\ first = prev /\ uz[prev] >= sz[b]
    <3>1. total = sz[b] + sz[prev] + sz[next]
      BY <1>3, <1>4, <1>14, <2>5
    <3>2. total = uz[prev] /\ uz[prev] >= sz[b]
      <4>1. sz[b] \in Int /\ sz[prev] \in Int /\ sz[next] \in Int
        BY <1>1, <1>2, <2>5
      <4>2. tz[prev] \in Int /\ uz[prev] \in Int
        BY <2>3, <2>5, <2>7, <4>1
      <4> QED
        BY <2>3, <2>5, <2>7, <3>1, <4>1, <4>2
    <3> QED
      BY <1>14, <3>2
  <2>9. an[prev] = 0 /\ FreeOf(D, an) \subseteq F \ {b, next}
    <3> HIDE DEF C, tz, am, g, next, F
    <3> QED
      BY <2>3, <2>7 DEF FreeOf
  <2> HIDE DEF tz, am, g, next, F, H, a3, first, r, uz, an, k
  <2>10. prev + uz[prev] \notin FreeOf(D, an)
    <3>1. next + sz[next] \notin F \ {b}
      BY <1>1, <2>1 DEF Lone
    <3> QED
      BY <2>5, <2>7, <2>9, <3>1
  <2>11. \A c \in FreeOf(D, an) : c + uz[c] # prev
    <3>1. \A c \in F \ {b} : c + sz[c] # prev
      BY <1>1, <2>1 DEF Lone
    <3>2. \A c \in FreeOf(D, an) : c \in D /\ c \in C /\ c \in F \ {b}
      BY <2>9 DEF FreeOf
    <3>3. prev + uz[prev] # prev
      <4>1. prev \in Int /\ uz[prev] \in Int /\ uz[prev] >= 16
        BY <1>1, <1>2, <2>5, <2>8, <2>6, BlockWords DEF Loose, Tiled
      <4> QED
        BY <4>1
    <3> QED
      BY <2>3, <2>7, <3>1, <3>2, <3>3
  <2> HIDE DEF C, D
  <2>12. /\ Whole(add_free(PutTags(k, prev, uz[prev], 0), prev), D, uz, an)
         /\ add_free(PutTags(k, prev, uz[prev], 0), prev).brk = k.brk
         /\ Kept(HeldOf(D, an), k, uz, add_free(PutTags(k, prev, uz[prev], 0), prev), uz)
    BY <2>6, <2>10, <2>11, SettleTagged
  <2>13. Kept(H, h, sz, k, uz)
    BY <2>2, <2>6, KeptTrans
  <2>14. Kept(H, h, sz, add_free(a3, first), uz)
    BY <2>2, <2>6, <2>8, <2>12, <2>13, KeptTrans
  <2>15. Goal(D, uz, an)
    BY <1>9, <2>2, <2>6, <2>7, <2>8, <2>9, <2>12, <2>14 DEF Left
  <2> QED
    BY <2>15 DEF r, H
<1> QED
  BY <1>11, <1>12, <1>13, <1>14

-----------------------------------------------------------------------------
\* mm_free and place.

\* A held block is freed: the others are as they were.
LEMMA FreeBlock ==
    ASSUME NEW h, NEW B, NEW sz, NEW al, Whole(h, B, sz, al), NEW b \in HeldOf(B, al)
    PROVE  \E C, tz, am : Left(HeldOf(B, al) \ {b}, h, sz, mm_free(h, b), C, tz, am)
<1> DEFINE g == PutTags(h, b, sz[b], 0)  a0 == [al EXCEPT ![b] = 0]  F == FreeOf(B, al)
<1>1. /\ Tiled(h, B, sz, al) /\ Epilogue(h) /\ Tagged(h, B, sz, al) /\ Listed(h, F) /\ Lone(sz, F)
      /\ b \in B /\ al[b] = 1 /\ al \in [B -> {0, 1}]
  BY DEF Whole, Tiled, HeldOf
<1>2. b # NULL /\ GET_SIZE(h, HDRP(b)) = sz[b]
  <2>1. b >= 32 /\ b \in Int
    BY <1>1, BlockWords DEF Tiled
  <2> QED
    BY <1>1, <2>1, Reads DEF NULL
<1>3. mm_free(h, b) = coalesce(g, b).heap
  BY <1>2 DEF mm_free
<1>4. /\ Tiled(g, B, sz, a0) /\ g.brk = h.brk /\ (Epilogue(h) => Epilogue(g))
      /\ \A S \in SUBSET B : Tagged(h, S \ {b}, sz, al) => Tagged(g, S \cup {b}, sz, a0)
      /\ \A E \in SUBSET B : Listed(h, E) => Listed(g, E)
      /\ Kept(B, h, sz, g, sz)
  BY <1>1, Marks
<1>5. a0[b] = 0 /\ \A c \in B \ {b} : a0[c] = al[c]
  BY <1>1
<1> HIDE DEF g, a0
<1>6. FreeOf(B, a0) \ {b} = F /\ HeldOf(B, a0) = HeldOf(B, al) \ {b}
  BY <1>1, <1>5 DEF FreeOf, HeldOf
<1>7. Tagged(g, B, sz, a0)
  <2>1. Tagged(h, B \ {b}, sz, al)
    BY <1>1 DEF Tagged
  <2>2. Tagged(g, B \cup {b}, sz, a0)
    BY <1>4, <2>1
  <2>3. B \cup {b} = B
    BY <1>1
  <2> QED
    BY <2>2, <2>3
<1>8. Tagged(g, B \ {b}, sz, a0) /\ F \in SUBSET B
  BY <1>7 DEF Tagged, FreeOf
<1>9. Loose(g, B, sz, a0, b)
  BY <1>1, <1>4, <1>5, <1>6, <1>8 DEF Loose
<1>10. PICK C, tz, am : Left(HeldOf(B, a0), g, sz, coalesce(g, b).heap, C, tz, am)
  BY <1>7, <1>9, Coalesce
<1>11. Kept(HeldOf(B, a0), h, sz, g, sz)
  BY <1>4, <1>6 DEF Kept, HeldOf
<1>12. Left(HeldOf(B, al) \ {b}, h, sz, mm_free(h, b), C, tz, am)
  BY <1>3, <1>4, <1>6, <1>10, <1>11, KeptTrans DEF Left
<1> QED
  BY <1>12

\* A free block is taken, whole or its first n bytes.
LEMMA Place ==
    ASSUME NEW h, NEW B, NEW sz, NEW al, Whole(h, B, sz, al), NEW b \in FreeOf(B, al),
           NEW n \in Aligned, 16 <= n, n <= sz[b]
    PROVE  \E C, tz, am : /\ Whole(place(h, b, n), C, tz, am)
                          /\ HeldOf(C, am) = HeldOf(B, al) \cup {b} /\ tz[b] >= n
                          /\ Kept(HeldOf(B, al), h, sz, place(h, b, n), tz)
<1> DEFINE F == FreeOf(B, al)  H == HeldOf(B, al)
<1>1. /\ Tiled(h, B, sz, al) /\ Epilogue(h) /\ Tagged(h, B, sz, al) /\ Listed(h, F) /\ Lone(sz, F)
      /\ b \in B /\ al[b] = 0 /\ al \in [B -> {0, 1}] /\ Shape(B, sz, h.brk) /\ h \in Heaps
      /\ F \in SUBSET B /\ H \subseteq B \ F
  BY DEF Whole, Tiled, FreeOf, HeldOf
<1>2. GET_SIZE(h, HDRP(b)) = sz[b] /\ sz[b] \in Int /\ n \in Int /\ b \in Int
  BY <1>1, Reads, BlockWords, IsAligned, HeapConstants
<1>3. CASE sz[b] - n >= 16
  <2> DEFINE c == b + n  C == B \cup {c}  tz == Split(B, sz, b, n)
             a0 == [d \in C |-> IF d = c THEN 0 ELSE al[d]]
             g1 == PutTags(h, b, n, 1)  a1 == [a0 EXCEPT ![b] = 1]
             g2 == remove_free(g1, b)   g3 == PutTags(g2, c, sz[b] - n, 0)
  <2>1. Shape(C, tz, h.brk) /\ c \notin B /\ c # b
    BY <1>1, <1>2, <1>3, SplitShape
  <2>2. tz[b] = n /\ tz[c] = sz[b] - n /\ \A d \in B \ {b} : tz[d] = sz[d]
    BY <1>1, <2>1 DEF Split
  <2>3. a0 \in [C -> {0, 1}] /\ a0[c] = 0 /\ (\A d \in B : a0[d] = al[d]) /\ b \in C /\ c \in C /\ B \in SUBSET C
    BY <1>1, <2>1
  <2>4. place(h, b, n) = coalesce(PutTags(g2, NEXT_BLKP(g2, b), sz[b] - n, 0), NEXT_BLKP(g2, b)).heap
    BY <1>2, <1>3 DEF place
  <2> HIDE DEF tz, C, c
  <2>5. a1 \in [C -> {0, 1}] /\ a1[b] = 1 /\ a1[c] = 0 /\ \A d \in B \ {b} : a1[d] = al[d]
    BY <2>1, <2>3
  <2> HIDE DEF a0
  <2>6. Tiled(h, C, tz, a0) /\ Tagged(h, B \ {b}, tz, a0)
    BY <1>1, <2>1, <2>2, <2>3 DEF Tiled, Tagged
  <2>7. /\ Tiled(g1, C, tz, a1) /\ g1.brk = h.brk /\ Epilogue(g1) /\ Tagged(g1, B, tz, a1)
        /\ Listed(g1, F) /\ Kept(C, h, tz, g1, tz)
    <3>1. LET r  == PutTags(h, b, tz[b], 1)
          IN  /\ Tiled(r, C, tz, a1) /\ r.brk = h.brk /\ (Epilogue(h) => Epilogue(r))
              /\ \A S \in SUBSET C : Tagged(h, S \ {b}, tz, a0) => Tagged(r, S \cup {b}, tz, a1)
              /\ \A E \in SUBSET C : Listed(h, E) => Listed(r, E)
              /\ Kept(C, h, tz, r, tz)
      BY <2>3, <2>6, Marks
    <3> HIDE DEF a1, F
    <3>2. F \in SUBSET C /\ B \cup {b} = B
      BY <1>1, <2>3
    <3> QED
      BY <1>1, <2>2, <2>3, <2>6, <3>1, <3>2
  <2> HIDE DEF a1, g1
  <2>8. /\ g2 \in Heaps /\ g2.brk = g1.brk /\ Listed(g2, F \ {b})
        /\ \A q \in Word : OffList(q, F) => g2.mem[q] = g1.mem[q]
    <3>1. F \in SUBSET C /\ b \in F
      BY <1>1, <2>3
    <3> HIDE DEF F
    <3> QED
      BY <2>7, <3>1, Leaves
  <2> HIDE DEF g2
  <2>9. Tiled(g2, C, tz, a1) /\ Epilogue(g2) /\ Tagged(g2, B, tz, a1) /\ Kept(C \ F, g1, tz, g2, tz)
    <3>1. F \in SUBSET C
      BY <1>1, <2>3
    <3> HIDE DEF F
    <3>2. /\ Tiled(g2, C, tz, a1) /\ (Epilogue(g1) => Epilogue(g2))
          /\ \A S \in SUBSET C : Tagged(g1, S, tz, a1) => Tagged(g2, S, tz, a1)
          /\ Kept(C \ F, g1, tz, g2, tz)
      BY <2>7, <2>8, <3>1, LinksOnly
    <3> QED
      BY <2>3, <2>7, <3>2
  <2>10. NEXT_BLKP(g2, b) = c
    <3>1. GET_SIZE(g2, b - 4) = tz[b]
      BY <1>1, <2>3, <2>9, ReadTags
    <3> QED
      BY <2>2, <3>1 DEF NEXT_BLKP, c
  <2>11. [a1 EXCEPT ![c] = 0] = a1
    BY <2>5
  <2>12. /\ Tiled(g3, C, tz, a1) /\ g3.brk = g2.brk /\ Epilogue(g3) /\ Tagged(g3, C, tz, a1)
         /\ Listed(g3, F \ {b}) /\ Kept(C, g2, tz, g3, tz)
    <3>1. LET r  == PutTags(g2, c, tz[c], 0)
              aa == [a1 EXCEPT ![c] = 0]
          IN  /\ Tiled(r, C, tz, aa) /\ r.brk = g2.brk /\ (Epilogue(g2) => Epilogue(r))
              /\ \A S \in SUBSET C : Tagged(g2, S \ {c}, tz, a1) => Tagged(r, S \cup {c}, tz, aa)
              /\ \A E \in SUBSET C : Listed(g2, E) => Listed(r, E)
              /\ Kept(C, g2, tz, r, tz)
      BY <2>3, <2>9, Marks
    <3>2. F \ {b} \in SUBSET C /\ B \ {c} = B /\ B \cup {c} = C
      BY <1>1, <2>1, <2>3 DEF C
    <3>3. g3 = PutTags(g2, c, tz[c], 0)
      BY <2>2
    <3> HIDE DEF F, g3
    <3> QED
      BY <2>3, <2>8, <2>9, <2>11, <3>1, <3>2, <3>3
  <2> HIDE DEF g3
  <2>13. FreeOf(C, a1) \ {c} = F \ {b} /\ HeldOf(C, a1) = H \cup {b}
    BY <1>1, <2>1, <2>5 DEF FreeOf, HeldOf, C
  <2>14. Lone(tz, F \ {b})
    BY <1>1, <2>2 DEF Lone
  <2>15. Loose(g3, C, tz, a1, c)
    <3>1. Tagged(g3, C \ {c}, tz, a1)
      BY <2>12 DEF Tagged
    <3> QED
      BY <2>3, <2>5, <2>12, <2>13, <2>14, <3>1 DEF Loose
  <2> DEFINE r == coalesce(g3, c).heap
  <2>16. place(h, b, n) = r
    BY <2>4, <2>10 DEF g3
  <2>17. PICK D, uz, an : Left(HeldOf(C, a1), g3, tz, r, D, uz, an)
    BY <2>12, <2>15, Coalesce
  <2> HIDE DEF r
  <2>18. H \subseteq C /\ H \subseteq C \ F /\ b \notin H
    BY <1>1, <2>3
  <2>19. Kept(H, h, sz, g1, tz)
    BY <1>1, <2>2, <2>7, <2>18 DEF Kept
  <2>20. Kept(H, g1, tz, g2, tz) /\ Kept(H, g2, tz, g3, tz) /\ Kept(H, g3, tz, r, uz)
    BY <2>9, <2>12, <2>13, <2>17, <2>18 DEF Kept, Left
  <2>21. Kept(H, h, sz, r, uz)
    BY <2>19, <2>20, KeptTrans
  <2>22. uz[b] = n
    BY <2>2, <2>13, <2>17 DEF Left, Kept
  <2>23. Whole(r, D, uz, an) /\ HeldOf(D, an) = H \cup {b} /\ uz[b] >= n
    BY <1>2, <2>13, <2>17, <2>22 DEF Left
  <2> QED
    BY <2>16, <2>21, <2>23
<1>4. CASE ~(sz[b] - n >= 16)
  <2> DEFINE g1 == PutTags(h, b, sz[b], 1)  a1 == [al EXCEPT ![b] = 1]  g2 == remove_free(g1, b)
  <2>1. place(h, b, n) = g2
    BY <1>2, <1>4 DEF place
  <2>2. a1[b] = 1 /\ \A d \in B \ {b} : a1[d] = al[d]
    BY <1>1
  <2>3. /\ Tiled(g1, B, sz, a1) /\ g1.brk = h.brk /\ Epilogue(g1) /\ Tagged(g1, B, sz, a1)
        /\ Listed(g1, F) /\ Kept(B, h, sz, g1, sz)
    <3>1. /\ Tiled(g1, B, sz, a1) /\ g1.brk = h.brk /\ (Epilogue(h) => Epilogue(g1))
          /\ \A S \in SUBSET B : Tagged(h, S \ {b}, sz, al) => Tagged(g1, S \cup {b}, sz, a1)
          /\ \A E \in SUBSET B : Listed(h, E) => Listed(g1, E)
          /\ Kept(B, h, sz, g1, sz)
      BY <1>1, Marks
    <3> HIDE DEF a1, F, g1
    <3>2. F \in SUBSET B /\ B \cup {b} = B /\ Tagged(h, B \ {b}, sz, al)
      BY <1>1 DEF Tagged
    <3> QED
      BY <1>1, <3>1, <3>2
  <2> HIDE DEF a1, g1
  <2>4. /\ g2 \in Heaps /\ g2.brk = g1.brk /\ Listed(g2, F \ {b})
        /\ \A q \in Word : OffList(q, F) => g2.mem[q] = g1.mem[q]
    <3>1. F \in SUBSET B /\ b \in F
      BY <1>1
    <3> HIDE DEF F
    <3> QED
      BY <2>3, <3>1, Leaves
  <2> HIDE DEF g2
  <2>5. Tiled(g2, B, sz, a1) /\ Epilogue(g2) /\ Tagged(g2, B, sz, a1) /\ Kept(B \ F, g1, sz, g2, sz)
    <3>1. F \in SUBSET B
      BY <1>1
    <3> HIDE DEF F
    <3>2. /\ Tiled(g2, B, sz, a1) /\ (Epilogue(g1) => Epilogue(g2))
          /\ \A S \in SUBSET B : Tagged(g1, S, sz, a1) => Tagged(g2, S, sz, a1)
          /\ Kept(B \ F, g1, sz, g2, sz)
      BY <2>3, <2>4, <3>1, LinksOnly
    <3> QED
      BY <2>3, <3>2
  <2>6. FreeOf(B, a1) = F \ {b} /\ HeldOf(B, a1) = H \cup {b}
    BY <1>1, <2>2 DEF FreeOf, HeldOf
  <2>7. Lone(sz, F \ {b})
    BY <1>1 DEF Lone
  <2>8. Whole(g2, B, sz, a1)
    BY <2>4, <2>5, <2>6, <2>7 DEF Whole
  <2>9. Kept(H, h, sz, g1, sz) /\ Kept(H, g1, sz, g2, sz)
    BY <1>1, <2>3, <2>5 DEF Kept
  <2>10. Kept(H, h, sz, g2, sz)
    BY <2>9, KeptTrans
  <2> QED
    BY <1>2, <2>1, <2>6, <2>8, <2>10
<1> QED
  BY <1>3, <1>4

-----------------------------------------------------------------------------
\* A function defined by following links until a stop exists, whatever the
\* links are: what a point reaches is the meet of the closed sets around it.

Closed(T, stop, next) == \A z \in T : z \notin stop => next[z] \in T

Reach(x, S, stop, next) == {y \in S : \A T \in SUBSET S : x \in T /\ Closed(T, stop, next) => y \in T}

\* What is reached from x is x and what its successor reaches.
LEMMA ReachStep ==
    ASSUME NEW S, NEW stop, NEW next, \A z \in S \ stop : next[z] \in S, NEW x \in S
    PROVE  /\ x \in stop => Reach(x, S, stop, next) = {x}
           /\ x \notin stop => Reach(x, S, stop, next) = {x} \cup Reach(next[x], S, stop, next)
<1> DEFINE R(y) == Reach(y, S, stop, next)
<1>1. x \in R(x)
  BY DEF Reach
<1>2. ASSUME x \in stop PROVE R(x) = {x}
  <2>1. Closed({x}, stop, next) /\ {x} \in SUBSET S
    BY <1>2 DEF Closed
  <2> QED
    BY <1>1, <2>1 DEF Reach
<1>3. ASSUME x \notin stop PROVE R(x) = {x} \cup R(next[x])
  <2> DEFINE T0 == {x} \cup R(next[x])
  <2>1. next[x] \in S
    BY <1>3
  <2>2. ASSUME NEW z \in R(next[x]), z \notin stop PROVE next[z] \in R(next[x])
    <3>1. z \in S /\ next[z] \in S
      BY <2>2 DEF Reach
    <3>2. ASSUME NEW T \in SUBSET S, next[x] \in T, Closed(T, stop, next) PROVE next[z] \in T
      <4>1. z \in T
        BY <3>2 DEF Reach
      <4> QED
        BY <2>2, <3>2, <4>1 DEF Closed
    <3> QED
      BY <3>1, <3>2 DEF Reach
  <2>3. T0 \in SUBSET S
    BY DEF Reach
  <2>4. next[x] \in R(next[x])
    BY <2>1 DEF Reach
  <2> HIDE DEF R
  <2>5. Closed(T0, stop, next)
    BY <2>2, <2>4 DEF Closed
  <2>6. R(x) \subseteq T0
    <3>1. x \in T0
      OBVIOUS
    <3> HIDE DEF T0
    <3> QED
      BY <2>3, <2>5, <3>1 DEF R, Reach
  <2>7. R(next[x]) \subseteq R(x)
    <3> SUFFICES ASSUME NEW y \in R(next[x]), NEW T \in SUBSET S, x \in T, Closed(T, stop, next)
                 PROVE  y \in T
      BY DEF R, Reach
    <3>1. next[x] \in T
      BY <1>3 DEF Closed
    <3> QED
      BY <3>1 DEF R, Reach
  <2> QED
    BY <1>1, <2>6, <2>7
<1> QED
  BY <1>2, <1>3

\* The value at the first stop.
LEMMA SearchExists ==
    ASSUME NEW S, NEW stop, NEW next, NEW v, \A z \in S \ stop : next[z] \in S
    PROVE  \E f : f = [x \in S |-> IF x \in stop THEN v[x] ELSE f[next[x]]]
<1> DEFINE E(x) == Reach(x, S, stop, next) \cap stop
           f == [x \in S |-> v[CHOOSE y \in E(x) : TRUE]]
<1>1. ASSUME NEW x \in S PROVE f[x] = IF x \in stop THEN v[x] ELSE f[next[x]]
  <2>1. CASE x \in stop
    <3>1. E(x) = {x}
      BY <2>1, ReachStep
    <3> HIDE DEF E
    <3>2. (CHOOSE y \in E(x) : TRUE) = x
      BY <3>1
    <3>3. f[x] = v[CHOOSE y \in E(x) : TRUE]
      OBVIOUS
    <3>4. f[x] = v[x]
      BY <3>2, <3>3, Zenon
    <3> QED
      BY <2>1, <3>4
  <2>2. CASE x \notin stop
    <3>1. E(x) = E(next[x]) /\ next[x] \in S
      BY <2>2, ReachStep
    <3> HIDE DEF E
    <3>2. f[x] = f[next[x]]
      BY <3>1
    <3> QED
      BY <2>2, <3>2
  <2> QED
    BY <2>1, <2>2
<1>2. f = [x \in S |-> f[x]]
  OBVIOUS
<1> HIDE DEF f
<1>3. f = [x \in S |-> IF x \in stop THEN v[x] ELSE f[next[x]]]
  BY <1>1, <1>2
<1> QED
  BY <1>3

\* The points on the way, and the value at the stop.
LEMMA WalkExists ==
    ASSUME NEW S, NEW stop, NEW next, NEW v, \A z \in S \ stop : next[z] \in S
    PROVE  \E f : f = [x \in S |-> IF x \in stop THEN v[x] ELSE {x} \cup f[next[x]]]
<1> DEFINE E(x) == Reach(x, S, stop, next)
           f == [x \in S |-> (E(x) \ stop) \cup UNION {v[y] : y \in E(x) \cap stop}]
<1>1. ASSUME NEW x \in S PROVE f[x] = IF x \in stop THEN v[x] ELSE {x} \cup f[next[x]]
  <2>1. CASE x \in stop
    <3>1. E(x) = {x}
      BY <2>1, ReachStep
    <3>2. f[x] = ({x} \ stop) \cup UNION {v[y] : y \in {x} \cap stop}
      BY <3>1
    <3>3. {x} \ stop = {} /\ {x} \cap stop = {x}
      BY <2>1
    <3>4. f[x] = v[x]
      BY <3>2, <3>3
    <3> QED
      BY <2>1, <3>4
  <2>2. CASE x \notin stop
    <3>1. E(x) = {x} \cup E(next[x]) /\ next[x] \in S
      BY <2>2, ReachStep
    <3>2. E(x) \cap stop = E(next[x]) \cap stop /\ E(x) \ stop = {x} \cup (E(next[x]) \ stop)
      BY <2>2, <3>1
    <3> HIDE DEF E
    <3>3. f[x] = {x} \cup f[next[x]]
      <4>1. f[x] = (E(x) \ stop) \cup UNION {v[y] : y \in E(x) \cap stop}
        OBVIOUS
      <4>2. f[next[x]] = (E(next[x]) \ stop) \cup UNION {v[y] : y \in E(next[x]) \cap stop}
        BY <3>1
      <4> QED
        BY <3>2, <4>1, <4>2
    <3> QED
      BY <2>2, <3>3
  <2> QED
    BY <2>1, <2>2
<1>2. f = [x \in S |-> f[x]]
  OBVIOUS
<1> HIDE DEF f
<1>3. f = [x \in S |-> IF x \in stop THEN v[x] ELSE {x} \cup f[next[x]]]
  BY <1>1, <1>2
<1> QED
  BY <1>3

\* An assignment to brk leaves the words alone.
LEMMA SetBreak ==
    ASSUME NEW h \in Heaps, NEW k \in Aligned
    PROVE  /\ SetBrk(h, k) \in Heaps /\ SetBrk(h, k).brk = k
           /\ SetBrk(h, k).heap_listp = h.heap_listp /\ SetBrk(h, k).mem = h.mem
<1>1. PICK m \in [Word -> Value], e \in Aligned, l \in Aligned :
         h = [mem |-> m, brk |-> e, heap_listp |-> l]
  BY DEF Heaps
<1>2. SetBrk(h, k) = [[mem |-> m, brk |-> e, heap_listp |-> l] EXCEPT !.brk = k]
  BY <1>1, Zenon DEF SetBrk
<1>3. SetBrk(h, k) = [mem |-> m, brk |-> k, heap_listp |-> l]
  BY <1>2
<1> QED
  BY <1>1, <1>3 DEF Heaps

-----------------------------------------------------------------------------
\* find_fit.

\* The search is a function: at every word it is what its definition says.
LEMMA FitDefined ==
    ASSUME NEW h, NEW n
    PROVE  \E fit : /\ find_fit(h, n) = fit[h.heap_listp]
                    /\ \A bp \in Word :
                          fit[bp] = IF bp = NULL \/ GET_ALLOC(h, HDRP(bp)) = 1 THEN NULL
                                    ELSE IF GET_SIZE(h, HDRP(bp)) >= n THEN bp
                                    ELSE IF NEXT_FP(h, bp) \in Word THEN fit[NEXT_FP(h, bp)] ELSE NULL
<1> DEFINE Body(f, bp) == IF bp = NULL \/ GET_ALLOC(h, HDRP(bp)) = 1 THEN NULL
                          ELSE IF GET_SIZE(h, HDRP(bp)) >= n THEN bp
                          ELSE IF NEXT_FP(h, bp) \in Word THEN f[NEXT_FP(h, bp)] ELSE NULL
           fit == CHOOSE f : f = [bp \in Word |-> Body(f, bp)]
<1>1. find_fit(h, n) = fit[h.heap_listp]
  BY Zenon DEF find_fit
<1>2. \E f : f = [bp \in Word |-> Body(f, bp)]
  <2> DEFINE stop == {bp \in Word : \/ bp = NULL \/ GET_ALLOC(h, HDRP(bp)) = 1
                                    \/ GET_SIZE(h, HDRP(bp)) >= n \/ NEXT_FP(h, bp) \notin Word}
             v == [bp \in Word |-> IF bp = NULL \/ GET_ALLOC(h, HDRP(bp)) = 1 THEN NULL
                                   ELSE IF GET_SIZE(h, HDRP(bp)) >= n THEN bp ELSE NULL]
             next == [bp \in Word |-> NEXT_FP(h, bp)]
  <2>1. \A z \in Word \ stop : next[z] \in Word
    OBVIOUS
  <2>2. PICK f : f = [x \in Word |-> IF x \in stop THEN v[x] ELSE f[next[x]]]
    <3> HIDE DEF stop, v, next
    <3>1. \E f : f = [x \in Word |-> IF x \in stop THEN v[x] ELSE f[next[x]]]
      <4> DEFINE P(S0, s0, n0, v0) ==
                    (\A z \in S0 \ s0 : n0[z] \in S0)
                       => \E f : f = [x \in S0 |-> IF x \in s0 THEN v0[x] ELSE f[n0[x]]]
      <4>1. \A S0, s0, n0, v0 : P(S0, s0, n0, v0)
        BY SearchExists, Zenon
      <4>2. P(Word, stop, next, v)
        <5> HIDE DEF P
        <5> QED
          BY <4>1
      <4> QED
        BY <2>1, <4>2, Zenon
    <3> QED
      BY ONLY <3>1, Zenon
  <2>3. ASSUME NEW x \in Word PROVE (IF x \in stop THEN v[x] ELSE f[next[x]]) = Body(f, x)
    <3> DEFINE A == x = NULL \/ GET_ALLOC(h, HDRP(x)) = 1  Z == GET_SIZE(h, HDRP(x)) >= n  X == NEXT_FP(h, x)
    <3>1. /\ x \in stop <=> A \/ Z \/ X \notin Word
          /\ v[x] = IF A THEN NULL ELSE IF Z THEN x ELSE NULL
          /\ next[x] = X
      OBVIOUS
    <3>2. Body(f, x) = IF A THEN NULL ELSE IF Z THEN x ELSE IF X \in Word THEN f[X] ELSE NULL
      BY Zenon
    <3> HIDE DEF A, Z, X, stop, v, next, Body
    <3> QED
      BY <3>1, <3>2
  <2>4. \A x \in Word : f[x] = Body(f, x)
    <3> HIDE DEF Body, stop, v, next
    <3> QED
      BY <2>2, <2>3
  <2>5. f = [x \in Word |-> f[x]]
    <3> HIDE DEF Body, stop, v, next
    <3> QED
      BY <2>2
  <2>6. f = [x \in Word |-> Body(f, x)]
    <3> HIDE DEF Body, stop, v, next
    <3> QED
      BY <2>4, <2>5
  <2> QED
    BY <2>6
<1>3. fit = [bp \in Word |-> Body(fit, bp)]
  BY <1>2, Zenon
<1>4. \A bp \in Word : fit[bp] = Body(fit, bp)
  <2> HIDE DEF fit, Body
  <2> QED
    BY <1>3
<1> HIDE DEF fit
<1> QED
  BY <1>1, <1>4

\* The search finds a free block that is large enough if there is one.
LEMMA FindFit ==
    ASSUME NEW h, NEW B, NEW sz, NEW al, Whole(h, B, sz, al), NEW n \in Int
    PROVE  LET bp == find_fit(h, n)
           IN  /\ bp = NULL => \A c \in FreeOf(B, al) : sz[c] < n
               /\ bp # NULL => bp \in FreeOf(B, al) /\ sz[bp] >= n
<1> DEFINE F == FreeOf(B, al)
<1>1. /\ Tiled(h, B, sz, al) /\ Epilogue(h) /\ Tagged(h, B, sz, al) /\ F \in SUBSET B
      /\ Shape(B, sz, h.brk) /\ h.mem[4] = 9
  BY DEF Whole, Tiled, FreeOf, Front
<1>2. PICK rank, N : Linked(h, F, rank, N)
  BY DEF Whole, Listed
<1>3. PICK fit : /\ find_fit(h, n) = fit[h.heap_listp]
                 /\ \A bp \in Word :
                       fit[bp] = IF bp = NULL \/ GET_ALLOC(h, HDRP(bp)) = 1 THEN NULL
                                 ELSE IF GET_SIZE(h, HDRP(bp)) >= n THEN bp
                                 ELSE IF NEXT_FP(h, bp) \in Word THEN fit[NEXT_FP(h, bp)] ELSE NULL
  BY FitDefined
<1>4. 8 \in Word /\ \A c \in F : c \in Word /\ c # NULL /\ c # 8 /\ sz[c] \in Int
  BY <1>1, LinkWords, BlockWords
<1>5. fit[8] = NULL
  <2>1. GET_ALLOC(h, HDRP(8)) = 1
    <3>1. HDRP(8) = 4
      BY DEF HDRP
    <3> QED
      BY <1>1, <3>1 DEF GET_ALLOC
  <2> QED
    BY <1>3, <1>4, <2>1
<1>6. ASSUME NEW c \in F
      PROVE  /\ fit[c] = IF sz[c] >= n THEN c ELSE fit[h.mem[c + 4]]
             /\ h.mem[c + 4] \in F \cup {8}
             /\ h.mem[c + 4] # 8 => rank[h.mem[c + 4]] < rank[c]
             /\ c # h.heap_listp => h.mem[c] \in F /\ h.mem[h.mem[c] + 4] = c
  <2>1. GET_ALLOC(h, HDRP(c)) = 0 /\ GET_SIZE(h, HDRP(c)) = sz[c]
    <3>1. c \in B /\ al[c] = 0
      BY DEF FreeOf
    <3> QED
      BY <1>1, <3>1, Reads
  <2>2. /\ h.mem[c + 4] \in F \cup {8}
        /\ h.mem[c + 4] # 8 => rank[h.mem[c + 4]] < rank[c]
        /\ c # h.heap_listp => h.mem[c] \in F /\ h.mem[h.mem[c] + 4] = c
    BY <1>2 DEF Linked
  <2>3. h.mem[c + 4] \in Word
    BY <1>4, <2>2
  <2> QED
    BY <1>3, <1>4, <2>1, <2>2, <2>3 DEF NEXT_FP
<1>7. N \in Nat /\ h.heap_listp \in F \cup {8} /\ \A c \in F : rank[c] \in 0..N
  BY <1>2 DEF Linked
<1>8. \A c \in F : fit[c] # NULL => fit[c] \in F /\ sz[fit[c]] >= n
  <2> DEFINE Bad == {c \in F : fit[c] # NULL /\ ~(fit[c] \in F /\ sz[fit[c]] >= n)}
  <2> SUFFICES ASSUME Bad # {} PROVE FALSE
    OBVIOUS
  <2>1. \A c \in Bad : c \in F /\ fit[c] # NULL /\ ~(fit[c] \in F /\ sz[fit[c]] >= n) /\ rank[c] \in 0..N
    BY <1>7
  <2>2. \A c \in F : c \notin Bad => fit[c] = NULL \/ (fit[c] \in F /\ sz[fit[c]] >= n)
    OBVIOUS
  <2> HIDE DEF Bad, F
  <2>3. PICK c \in Bad : \A d \in Bad : rank[c] <= rank[d]
    BY <1>7, <2>1, RankExtremes
  <2>4. ~(sz[c] >= n) /\ fit[c] = fit[h.mem[c + 4]]
    BY <1>6, <2>1, <2>3
  <2>5. h.mem[c + 4] # 8
    BY <1>5, <2>1, <2>3, <2>4
  <2>6. h.mem[c + 4] \in F /\ rank[h.mem[c + 4]] < rank[c]
    BY <1>6, <2>1, <2>3, <2>5
  <2>7. h.mem[c + 4] \notin Bad
    BY <2>1, <2>3, <2>6
  <2> QED
    BY <2>1, <2>2, <2>3, <2>4, <2>6, <2>7
<1>9. fit[h.heap_listp] = NULL => \A c \in F : fit[c] = NULL /\ sz[c] < n
  <2> DEFINE Bad == {c \in F : ~(fit[c] = NULL /\ sz[c] < n)}
  <2> SUFFICES ASSUME fit[h.heap_listp] = NULL, Bad # {} PROVE FALSE
    OBVIOUS
  <2>1. \A c \in Bad : c \in F /\ ~(fit[c] = NULL /\ sz[c] < n) /\ rank[c] \in 0..N
    BY <1>7
  <2>2. \A c \in F : c \notin Bad => fit[c] = NULL /\ sz[c] < n
    OBVIOUS
  <2> HIDE DEF Bad, F
  <2>3. PICK c \in Bad : \A d \in Bad : rank[d] <= rank[c]
    BY <1>7, <2>1, RankExtremes
  <2>4. fit[c] = NULL => sz[c] < n
    BY <1>4, <1>6, <2>1
  <2>5. fit[c] # NULL
    BY <2>1, <2>4
  <2>6. c # h.heap_listp
    BY <2>5
  <2>7. h.mem[c] \in F /\ h.mem[h.mem[c] + 4] = c
    BY <1>6, <2>1, <2>6
  <2>8. rank[c] < rank[h.mem[c]]
    BY <1>4, <1>6, <2>1, <2>7
  <2>9. h.mem[c] \notin Bad
    BY <2>1, <2>3, <2>8
  <2>10. fit[h.mem[c]] = NULL /\ sz[h.mem[c]] < n
    BY <2>2, <2>7, <2>9
  <2>11. fit[h.mem[c]] = fit[c]
    BY <1>4, <1>6, <2>7, <2>10
  <2> QED
    BY <2>5, <2>10, <2>11
<1> QED
  BY <1>3, <1>5, <1>7, <1>8, <1>9

-----------------------------------------------------------------------------
\* extend_heap and mm_init.

\* The last word of the heap belongs to nobody.
LEMMA WriteEpilogue ==
    ASSUME NEW h, NEW B, NEW sz, NEW al, Tiled(h, B, sz, al)
    PROVE  LET r == PUT(h, h.brk - 4, 1)
           IN  /\ Tiled(r, B, sz, al) /\ Epilogue(r) /\ r.brk = h.brk
               /\ \A S \in SUBSET B : Tagged(h, S, sz, al) => Tagged(r, S, sz, al)
               /\ \A F \in SUBSET B : Listed(h, F) => Listed(r, F)
               /\ Kept(B, h, sz, r, sz)
<1> DEFINE k == h.brk - 4  r == PUT(h, k, 1)
<1>1. h \in Heaps /\ Front(h) /\ Shape(B, sz, h.brk) /\ al \in [B -> {0, 1}]
  BY DEF Tiled
<1>2. \A d \in B : /\ d \in Int /\ sz[d] \in Int /\ sz[d] >= 16 /\ d >= 32 /\ d + sz[d] <= h.brk
                   /\ d \in Word /\ d + 4 \in Word /\ d - 4 \in Word /\ d + sz[d] - 8 \in Word
  BY <1>1, BlockWords
<1>3. h.brk \in Int /\ h.brk >= 32 /\ k \in Word /\ 4 \in Word /\ 24 \in Word /\ 8 \in Word
  <2>1. h.brk \in Aligned /\ 32 <= h.brk
    BY <1>1 DEF Shape
  <2> QED
    BY <2>1, IsAligned, IsWord, HeapConstants
<1>4. /\ r \in Heaps /\ r.brk = h.brk /\ r.heap_listp = h.heap_listp
      /\ \A q \in Word : r.mem[q] = IF q = k THEN 1 ELSE h.mem[q]
  <2>1. 1 \in Value /\ k \in Word
    BY <1>3 DEF Value
  <2> HIDE DEF k
  <2> QED
    BY <1>1, <2>1, PutWord
<1>5. \A q \in Word : q < k => r.mem[q] = h.mem[q]
  BY <1>3, <1>4
<1>6. r.mem[h.brk - 4] = 1
  BY <1>3, <1>4
<1>7. 4 < k /\ 24 < k /\ 8 < k
  BY <1>3
<1>8. \A d \in B : /\ d < k /\ d + 4 < k /\ d - 4 < k /\ d + sz[d] - 8 < k
                   /\ \A q \in Word : q < d + sz[d] - 8 => q < k
  BY <1>2, <1>3, IsWord, HeapConstants
<1> HIDE DEF k, r
<1>9. Tiled(r, B, sz, al) /\ Epilogue(r)
  BY <1>1, <1>3, <1>4, <1>5, <1>6, <1>7 DEF Tiled, Front, Epilogue
<1>10. \A S \in SUBSET B : Tagged(h, S, sz, al) => Tagged(r, S, sz, al)
  BY <1>2, <1>5, <1>8 DEF Tagged
<1>11. ASSUME NEW F \in SUBSET B, Listed(h, F) PROVE Listed(r, F)
  <2>1. r.mem[8] = h.mem[8] /\ \A c \in F : r.mem[c] = h.mem[c] /\ r.mem[c + 4] = h.mem[c + 4]
    BY <1>2, <1>3, <1>5, <1>7, <1>8
  <2>2. PICK rank, N : Linked(h, F, rank, N)
    BY <1>11 DEF Listed
  <2>3. Linked(r, F, rank, N)
    BY <1>4, <2>1, <2>2, ListStays
  <2> QED
    BY <2>3 DEF Listed
<1>12. Kept(B, h, sz, r, sz)
  BY <1>5, <1>8 DEF Kept
<1> QED
  BY <1>4, <1>9, <1>10, <1>11, <1>12 DEF r, k

\* The heap grows by n bytes, which end in a free block of at least n; the
\* epilogue, which mm_init has not written yet, is not asked for.
LEMMA Extend ==
    ASSUME NEW h, NEW B, NEW sz, NEW al, Tiled(h, B, sz, al), Tagged(h, B, sz, al),
           Listed(h, FreeOf(B, al)), Lone(sz, FreeOf(B, al)),
           NEW n \in Nat, n % 8 = 0, 16 <= n
    PROVE  LET r == extend_heap(h, n \div 4)
           IN  /\ h.brk + n > MaxHeap => r = Result(h, NULL)
               /\ h.brk + n <= MaxHeap =>
                     \E C, tz, am : /\ Whole(r.heap, C, tz, am) /\ HeldOf(C, am) = HeldOf(B, al)
                                    /\ Kept(HeldOf(B, al), h, sz, r.heap, tz)
                                    /\ r.bp \in FreeOf(C, am) /\ tz[r.bp] >= n
<1> DEFINE k == h.brk  F == FreeOf(B, al)  H == HeldOf(B, al)  r == extend_heap(h, n \div 4)
<1>1. /\ h \in Heaps /\ Front(h) /\ Shape(B, sz, k) /\ al \in [B -> {0, 1}] /\ F \in SUBSET B
      /\ H \subseteq B
  BY DEF Tiled, FreeOf, HeldOf
<1>2. k \in Int /\ k % 8 = 0 /\ k >= 32 /\ MaxHeap \in Nat
  BY <1>1, IsAligned, HeapConstants DEF Shape
<1>3. (n \div 4) % 2 = 0 /\ (n \div 4) * 4 = n
  OBVIOUS
<1>4. r = IF k + n <= MaxHeap
          THEN IF k = -1 THEN Result(SetBrk(h, k + n), NULL)
               ELSE coalesce(PUT(PutTags(SetBrk(h, k + n), k, n, 0), k + n - 4, PACK(0, 1)), k)
          ELSE Result(h, NULL)
  <2>1. mem_sbrk(h, n) = IF k + n <= MaxHeap THEN Result(SetBrk(h, k + n), k) ELSE Result(h, -1)
    BY DEF mem_sbrk
  <2>2. (IF (n \div 4) % 2 = 1 THEN (n \div 4 + 1) * 4 ELSE (n \div 4) * 4) = n
    BY <1>3
  <2>3. r = IF mem_sbrk(h, n).bp = -1 THEN Result(h, NULL)
            ELSE coalesce(PUT(PutTags(mem_sbrk(h, n).heap, mem_sbrk(h, n).bp, n, 0),
                              mem_sbrk(h, n).bp + n - 4, PACK(0, 1)), mem_sbrk(h, n).bp)
    BY <2>2, Zenon DEF extend_heap
  <2>4. CASE k + n <= MaxHeap
    <3>1. mem_sbrk(h, n).bp = k /\ mem_sbrk(h, n).heap = SetBrk(h, k + n)
      BY <2>1, <2>4 DEF Result
    <3>2. k # -1
      BY <1>2
    <3> HIDE DEF k, r
    <3> QED
      BY <2>3, <2>4, <3>1, <3>2
  <2>5. CASE ~(k + n <= MaxHeap)
    <3>1. mem_sbrk(h, n).bp = -1
      BY <2>1, <2>5 DEF Result
    <3> HIDE DEF k, r
    <3> QED
      BY <2>3, <2>5, <3>1
  <2> QED
    BY <2>4, <2>5
<1>5. CASE k + n > MaxHeap
  <2>1. ~(k + n <= MaxHeap)
    BY <1>2, <1>5
  <2> QED
    BY <1>4, <1>5, <2>1
<1>6. CASE k + n <= MaxHeap
  <2> DEFINE C == B \cup {k}  tz == Grow(B, sz, k, n)  am == [d \in C |-> IF d = k THEN 0 ELSE al[d]]
             g1 == SetBrk(h, k + n)  g2 == PutTags(g1, k, n, 0)  g3 == PUT(g2, k + n - 4, 1)
  <2>1. n \in Aligned /\ k + n \in Aligned
    BY <1>2, <1>6, IsAligned
  <2>2. Shape(C, tz, k + n) /\ k \notin B
    BY <1>1, <1>6, <2>1, GrowShape
  <2>3. r = coalesce(g3, k)
    BY <1>2, <1>4, <1>6 DEF PACK
  <2>4. g1 \in Heaps /\ g1.brk = k + n /\ g1.heap_listp = h.heap_listp /\ g1.mem = h.mem
    BY <1>1, <2>1, SetBreak
  <2>5. tz[k] = n /\ (\A d \in B : tz[d] = sz[d]) /\ k \in C
    BY <2>2 DEF Grow
  <2> HIDE DEF tz, k, g1
  <2>6. am \in [C -> {0, 1}] /\ am[k] = 0 /\ (\A d \in B : am[d] = al[d]) /\ B \in SUBSET C /\ B \cup {k} = C
        /\ B \ {k} = B
    BY <1>1, <2>2
  <2> HIDE DEF am, C
  <2>7. Tiled(g1, C, tz, am) /\ Tagged(g1, B, tz, am)
    BY <1>1, <2>2, <2>4, <2>5, <2>6 DEF Tiled, Tagged, Front
  <2>8. Listed(g1, F)
    BY <2>4, ListStays DEF Listed
  <2>9. [am EXCEPT ![k] = 0] = am
    BY <2>6
  <2>10. Tiled(g2, C, tz, am) /\ g2.brk = g1.brk /\ Tagged(g2, C, tz, am) /\ Listed(g2, F) /\ Kept(C, g1, tz, g2, tz)
    <3>1. LET x  == PutTags(g1, k, tz[k], 0)
              aa == [am EXCEPT ![k] = 0]
          IN  /\ Tiled(x, C, tz, aa) /\ x.brk = g1.brk /\ (Epilogue(g1) => Epilogue(x))
              /\ \A S \in SUBSET C : Tagged(g1, S \ {k}, tz, am) => Tagged(x, S \cup {k}, tz, aa)
              /\ \A E \in SUBSET C : Listed(g1, E) => Listed(x, E)
              /\ Kept(C, g1, tz, x, tz)
      BY <2>5, <2>7, Marks
    <3>2. F \in SUBSET C /\ g2 = PutTags(g1, k, tz[k], 0)
      BY <1>1, <2>5, <2>6
    <3> HIDE DEF F, g2
    <3> QED
      BY <2>6, <2>7, <2>8, <2>9, <3>1, <3>2
  <2> HIDE DEF g2
  <2>11. /\ Tiled(g3, C, tz, am) /\ Epilogue(g3) /\ Tagged(g3, C, tz, am) /\ Listed(g3, F)
         /\ Kept(C, g2, tz, g3, tz)
    <3>1. F \in SUBSET C /\ g2.brk = k + n
      BY <1>1, <2>4, <2>6, <2>10
    <3>2. g2.brk - 4 = k + n - 4
      BY <1>2, <3>1 DEF k
    <3> QED
      BY <2>10, <3>1, <3>2, WriteEpilogue
  <2> HIDE DEF g3
  <2>12. FreeOf(C, am) \ {k} = F /\ HeldOf(C, am) = H /\ k \in FreeOf(C, am)
    BY <2>2, <2>5, <2>6 DEF FreeOf, HeldOf, C
  <2>13. Loose(g3, C, tz, am, k)
    <3>1. Lone(tz, F)
      BY <1>1, <2>5 DEF Lone
    <3>2. Tagged(g3, C \ {k}, tz, am)
      BY <2>11 DEF Tagged
    <3> QED
      BY <2>5, <2>6, <2>11, <2>12, <3>1, <3>2 DEF Loose
  <2>14. PICK D, uz, an : /\ Left(HeldOf(C, am), g3, tz, r.heap, D, uz, an)
                          /\ r.bp \in D /\ an[r.bp] = 0 /\ uz[r.bp] >= tz[k]
    <3> HIDE DEF r
    <3> QED
      BY <2>3, <2>11, <2>13, Coalesce
  <2> HIDE DEF r
  <2>15. Kept(H, h, sz, g1, tz)
    BY <1>1, <2>4, <2>5 DEF Kept
  <2>16. Kept(H, g1, tz, g2, tz) /\ Kept(H, g2, tz, g3, tz) /\ Kept(H, g3, tz, r.heap, uz)
    BY <1>1, <2>6, <2>10, <2>11, <2>12, <2>14 DEF Kept, Left
  <2>17. Kept(H, h, sz, r.heap, uz)
    BY <2>15, <2>16, KeptTrans
  <2>18. Whole(r.heap, D, uz, an) /\ HeldOf(D, an) = H /\ r.bp \in FreeOf(D, an) /\ uz[r.bp] >= n
    BY <2>5, <2>12, <2>14 DEF Left, FreeOf
  <2>19. ~(k + n > MaxHeap)
    BY <1>2, <1>6 DEF k
  <2> QED
    BY <2>17, <2>18, <2>19 DEF r, k
<1> QED
  BY <1>2, <1>5, <1>6

\* mm_init leaves one free block and nothing held; of what the area held
\* before it needs that word 24 is zero, which no operation changes.
LEMMA MmInit ==
    ASSUME NEW h \in Heaps, h.mem[24] = 0
    PROVE  \E C, tz, am : Whole(mm_init(h), C, tz, am) /\ HeldOf(C, am) = {}
<1> DEFINE h0 == SetBrk(h, 0)  h1 == SetBrk(h0, 32)  h2 == PUT(h1, 0, 0)  h3 == PUT(h2, 4, 9)
           h4 == PUT(h3, 8, 9)  h5 == PUT(h4, 12, 1)  h6 == SetHead(h5, 8)
<1>1. /\ 0 \in Aligned /\ 8 \in Aligned /\ 32 \in Aligned /\ {0, 4, 8, 12, 24} \subseteq Word
      /\ 32 <= MaxHeap /\ {0, 9, 1} \subseteq Value
  BY IsAligned, IsWord, HeapConstants DEF Value
<1>2. mm_init(h) = extend_heap(h6, Chunk \div 4).heap
  <2>1. h0.brk = 0
    BY <1>1, SetBreak
  <2>2. mem_sbrk(h0, 32) = Result(h1, 0)
    BY <1>1, <2>1 DEF mem_sbrk
  <2>3. mem_sbrk(h0, 32).heap = h1 /\ mem_sbrk(h0, 32).bp = 0
    BY <2>2 DEF Result
  <2> DEFINE s == mem_sbrk(h0, 32)
  <2>4. mm_init(h) = extend_heap(SetHead(PUT(PUT(PUT(PUT(s.heap, s.bp, 0), s.bp + 4, PACK(8, 1)),
                                                 s.bp + 8, PACK(8, 1)), s.bp + 12, PACK(0, 1)), s.bp + 8),
                                 Chunk \div 4).heap
    BY DEF mm_init
  <2>5. PACK(8, 1) = 9 /\ PACK(0, 1) = 1
    BY DEF PACK
  <2> HIDE DEF h1, s
  <2>6. s.heap = h1 /\ s.bp = 0
    BY <2>3 DEF s
  <2> QED
    BY <2>4, <2>5, <2>6
<1>3. h1 \in Heaps /\ h1.brk = 32 /\ h1.mem = h.mem
  <2>1. h0 \in Heaps /\ h0.mem = h.mem
    BY <1>1, SetBreak
  <2> HIDE DEF h0
  <2> QED
    BY <1>1, <2>1, SetBreak
<1> HIDE DEF h1
<1>4. h2 \in Heaps /\ h2.brk = 32 /\ \A q \in Word : q # 0 => h2.mem[q] = h.mem[q]
  <2>1. h1 \in Heaps /\ 0 \in Word /\ 0 \in Value
    BY <1>1, <1>3
  <2>2. /\ h2 \in Heaps /\ h2.brk = h1.brk /\ h2.heap_listp = h1.heap_listp
        /\ \A q \in Word : h2.mem[q] = IF q = 0 THEN 0 ELSE h1.mem[q]
    BY <2>1, PutWord
  <2> HIDE DEF h2
  <2> QED
    BY <1>1, <1>3, <2>2
<1> HIDE DEF h2
<1>5. h3 \in Heaps /\ h3.brk = 32 /\ h3.mem[4] = 9 /\ h3.mem[24] = 0
  <2>1. h2 \in Heaps /\ 4 \in Word /\ 9 \in Value
    BY <1>1, <1>4
  <2>2. /\ h3 \in Heaps /\ h3.brk = h2.brk /\ h3.heap_listp = h2.heap_listp
        /\ \A q \in Word : h3.mem[q] = IF q = 4 THEN 9 ELSE h2.mem[q]
    BY <2>1, PutWord
  <2> HIDE DEF h3
  <2> QED
    BY <1>1, <1>4, <2>2
<1> HIDE DEF h3
<1>6. h4 \in Heaps /\ h4.brk = 32 /\ h4.mem[4] = 9 /\ h4.mem[24] = 0
  <2>1. h3 \in Heaps /\ 8 \in Word /\ 9 \in Value
    BY <1>1, <1>5
  <2>2. /\ h4 \in Heaps /\ h4.brk = h3.brk /\ h4.heap_listp = h3.heap_listp
        /\ \A q \in Word : h4.mem[q] = IF q = 8 THEN 9 ELSE h3.mem[q]
    BY <2>1, PutWord
  <2> HIDE DEF h4
  <2> QED
    BY <1>1, <1>5, <2>2
<1> HIDE DEF h4
<1>7. h5 \in Heaps /\ h5.brk = 32 /\ h5.mem[4] = 9 /\ h5.mem[24] = 0
  <2>1. h4 \in Heaps /\ 12 \in Word /\ 1 \in Value
    BY <1>1, <1>6
  <2>2. /\ h5 \in Heaps /\ h5.brk = h4.brk /\ h5.heap_listp = h4.heap_listp
        /\ \A q \in Word : h5.mem[q] = IF q = 12 THEN 1 ELSE h4.mem[q]
    BY <2>1, PutWord
  <2> HIDE DEF h5
  <2> QED
    BY <1>1, <1>6, <2>2
<1> HIDE DEF h5
<1>8. h6 \in Heaps /\ h6.brk = 32 /\ h6.mem[4] = 9 /\ h6.mem[24] = 0 /\ h6.heap_listp = 8
  BY <1>1, <1>7, HeadSet
<1> HIDE DEF h6
<1> DEFINE e == [c \in {} |-> 0]
<1>9. Shape({}, e, 32)
  BY <1>1 DEF Shape
<1>10. Tiled(h6, {}, e, e) /\ Tagged(h6, {}, e, e)
  BY <1>8, <1>9 DEF Tiled, Front, Tagged
<1>11. FreeOf({}, e) = {} /\ HeldOf({}, e) = {}
  BY DEF FreeOf, HeldOf
<1>12. Listed(h6, {}) /\ Lone(e, {})
  <2>1. Linked(h6, {}, e, 0)
    BY <1>8 DEF Linked
  <2> QED
    BY <2>1 DEF Listed, Lone
<1>13. Chunk \in Nat /\ Chunk % 8 = 0 /\ 16 <= Chunk /\ h6.brk + Chunk <= MaxHeap
  BY <1>8, HeapConstants
<1> HIDE DEF e
<1>14. \E C, tz, am : /\ Whole(extend_heap(h6, Chunk \div 4).heap, C, tz, am)
                      /\ HeldOf(C, am) = HeldOf({}, e)
  BY <1>10, <1>11, <1>12, <1>13, Extend
<1> QED
  BY <1>2, <1>11, <1>14

-----------------------------------------------------------------------------
\* mm_malloc.

\* No size asked for is so near SIZE_MAX that mm_malloc's rounding wraps.
RequestsFit == \A n \in Sizes : n + 15 < SizeMod

\* The rounded size has room for the request and the tags.
LEMMA AdjustedSize ==
    ASSUME RequestsFit, NEW n \in Sizes
    PROVE  /\ n \in Nat /\ Adjusted(n) \in Nat /\ Adjusted(n) % 8 = 0
           /\ 16 <= Adjusted(n) /\ n + 8 <= Adjusted(n)
<1>1. n \in Nat /\ n + 15 < SizeMod /\ SizeMod \in Nat
  BY HeapConstants DEF RequestsFit
<1>2. (n + 15) % SizeMod = n + 15
  BY <1>1
<1>3. CASE n <= 8
  BY <1>1, <1>3 DEF Adjusted
<1>4. CASE ~(n <= 8)
  <2> DEFINE k == (n + 15) \div 8
  <2>1. Adjusted(n) = 8 * k
    BY <1>2, <1>4 DEF Adjusted
  <2>2. k \in Nat /\ 8 * k <= n + 15 /\ 8 * k >= n + 8
    BY <1>1
  <2> HIDE DEF k
  <2>3. (8 * k) % 8 = 0
    BY <2>2
  <2> QED
    BY <1>1, <1>4, <2>1, <2>2, <2>3
<1> QED
  BY <1>3, <1>4

\* mm_malloc adds one block of the size asked for to the held ones and keeps
\* what is in the others, or changes nothing.
LEMMA MmMalloc ==
    ASSUME RequestsFit, NEW h, NEW B, NEW sz, NEW al, Whole(h, B, sz, al), NEW n \in Sizes
    PROVE  LET r == mm_malloc(h, n)
               asize == Adjusted(n)
           IN  /\ r.bp = NULL =>
                     /\ r.heap = h
                     /\ n # 0 => /\ \A c \in FreeOf(B, al) : sz[c] < asize
                                 /\ h.brk + (IF asize > Chunk THEN asize ELSE Chunk) > MaxHeap
               /\ r.bp # NULL =>
                     \E C, tz, am : /\ Whole(r.heap, C, tz, am)
                                    /\ HeldOf(C, am) = HeldOf(B, al) \cup {r.bp} /\ r.bp \notin HeldOf(B, al)
                                    /\ tz[r.bp] >= n + 8
                                    /\ Kept(HeldOf(B, al), h, sz, r.heap, tz)
<1> DEFINE r == mm_malloc(h, n)  asize == Adjusted(n)  bp == find_fit(h, asize)
           k == IF asize > Chunk THEN asize ELSE Chunk  more == extend_heap(h, k \div 4)
           F == FreeOf(B, al)  H == HeldOf(B, al)
<1>1. n \in Nat /\ asize \in Nat /\ asize % 8 = 0 /\ 16 <= asize /\ n + 8 <= asize
  BY AdjustedSize
<1>2. r = IF n = 0 THEN Result(h, NULL)
          ELSE IF bp # NULL THEN Result(place(h, bp, asize), bp)
          ELSE IF more.bp = NULL THEN Result(h, NULL)
          ELSE Result(place(more.heap, more.bp, asize), more.bp)
  BY DEF mm_malloc
<1> HIDE DEF asize
<1>3. /\ bp = NULL => \A c \in F : sz[c] < asize
      /\ bp # NULL => bp \in F /\ sz[bp] >= asize
  BY <1>1, FindFit
<1>4. k \in Nat /\ k % 8 = 0 /\ 16 <= k /\ k >= asize /\ k # 0
  BY <1>1, HeapConstants
<1>5. h.brk \in Int /\ MaxHeap \in Int
  <2>1. h.brk \in Aligned
    BY DEF Whole, Tiled, Shape
  <2> QED
    BY <2>1, IsAligned, HeapConstants
<1>6. ASSUME NEW g, NEW C, NEW tz, NEW am, Whole(g, C, tz, am), NEW p \in FreeOf(C, am), tz[p] >= asize
      PROVE  /\ p # NULL /\ p \notin HeldOf(C, am)
             /\ \E D, uz, an : /\ Whole(place(g, p, asize), D, uz, an)
                               /\ HeldOf(D, an) = HeldOf(C, am) \cup {p} /\ uz[p] >= n + 8
                               /\ Kept(HeldOf(C, am), g, tz, place(g, p, asize), uz)
  <2>1. p \in C /\ p \notin HeldOf(C, am) /\ Shape(C, tz, g.brk)
    BY <1>6 DEF FreeOf, HeldOf, Whole, Tiled
  <2>2. p >= 32 /\ p \in Int /\ tz[p] \in Aligned /\ tz[p] \in Int
    BY <2>1, BlockWords
  <2>3. asize \in Aligned
    BY <1>1, <1>6, <2>2, IsAligned, HeapConstants
  <2>4. PICK D, uz, an : /\ Whole(place(g, p, asize), D, uz, an)
                         /\ HeldOf(D, an) = HeldOf(C, am) \cup {p} /\ uz[p] >= asize
                         /\ Kept(HeldOf(C, am), g, tz, place(g, p, asize), uz)
    BY <1>1, <1>6, <2>3, Place
  <2>5. uz[p] \in Int
    <3>1. p \in D /\ Shape(D, uz, place(g, p, asize).brk)
      BY <2>4 DEF Whole, Tiled, HeldOf
    <3> QED
      BY <3>1, BlockWords
  <2>6. uz[p] >= n + 8
    BY <1>1, <2>4, <2>5
  <2> QED
    BY <2>1, <2>2, <2>4, <2>6 DEF NULL
<1> HIDE DEF r, bp, more, k
<1>7. CASE n = 0
  <2>1. r.heap = h /\ r.bp = NULL
    BY <1>2, <1>7 DEF Result
  <2> QED
    BY <1>7, <2>1 DEF r
<1>8. CASE n # 0 /\ bp # NULL
  <2>1. r.heap = place(h, bp, asize) /\ r.bp = bp
    BY <1>2, <1>8 DEF Result
  <2> QED
    BY <1>3, <1>6, <1>8, <2>1 DEF r
<1>9. CASE n # 0 /\ bp = NULL
  <2>1. /\ Tiled(h, B, sz, al) /\ Tagged(h, B, sz, al) /\ Listed(h, F) /\ Lone(sz, F)
    BY DEF Whole
  <2>2. /\ h.brk + k > MaxHeap => more = Result(h, NULL)
        /\ h.brk + k <= MaxHeap =>
              \E C, tz, am : /\ Whole(more.heap, C, tz, am) /\ HeldOf(C, am) = HeldOf(B, al)
                             /\ Kept(HeldOf(B, al), h, sz, more.heap, tz)
                             /\ more.bp \in FreeOf(C, am) /\ tz[more.bp] >= k
    BY <1>4, <2>1, Extend DEF more
  <2>3. CASE h.brk + k > MaxHeap
    <3>1. more.bp = NULL
      BY <2>2, <2>3 DEF Result
    <3>2. r.heap = h /\ r.bp = NULL
      BY <1>2, <1>9, <3>1 DEF Result
    <3> QED
      BY <1>3, <1>9, <2>3, <3>2 DEF r, k, asize
  <2>4. CASE h.brk + k <= MaxHeap
    <3>1. PICK C, tz, am : /\ Whole(more.heap, C, tz, am) /\ HeldOf(C, am) = HeldOf(B, al)
                           /\ Kept(HeldOf(B, al), h, sz, more.heap, tz)
                           /\ more.bp \in FreeOf(C, am) /\ tz[more.bp] >= k
      BY <2>2, <2>4
    <3>2. tz[more.bp] >= asize
      <4>1. more.bp \in C /\ Shape(C, tz, more.heap.brk)
        BY <3>1 DEF Whole, Tiled, FreeOf
      <4>2. tz[more.bp] \in Int
        BY <4>1, BlockWords
      <4> QED
        BY <1>1, <1>4, <3>1, <4>2
    <3>3. PICK D, uz, an : /\ Whole(place(more.heap, more.bp, asize), D, uz, an)
                           /\ HeldOf(D, an) = HeldOf(C, am) \cup {more.bp} /\ uz[more.bp] >= n + 8
                           /\ Kept(HeldOf(C, am), more.heap, tz, place(more.heap, more.bp, asize), uz)
      BY <1>6, <3>1, <3>2
    <3>4. more.bp # NULL /\ more.bp \notin HeldOf(C, am)
      BY <1>6, <3>1, <3>2
    <3>5. r.heap = place(more.heap, more.bp, asize) /\ r.bp = more.bp
      BY <1>2, <1>9, <3>4 DEF Result
    <3>6. Kept(H, h, sz, r.heap, uz)
      BY <3>1, <3>3, <3>5, KeptTrans
    <3> QED
      BY <3>1, <3>3, <3>4, <3>5, <3>6 DEF r
  <2> QED
    BY <1>4, <1>5, <2>3, <2>4
<1> QED
  BY <1>7, <1>8, <1>9

\* What is written inside a held block disturbs nothing.
LEMMA WriteInside ==
    ASSUME NEW h, NEW B, NEW sz, NEW al, Whole(h, B, sz, al), NEW b \in HeldOf(B, al),
           NEW r \in Heaps, r.brk = h.brk, r.heap_listp = h.heap_listp,
           \A q \in Word : q < b \/ q >= b + sz[b] - 8 => r.mem[q] = h.mem[q]
    PROVE  Whole(r, B, sz, al) /\ Kept(B \ {b}, h, sz, r, sz)
<1>1. /\ Tiled(h, B, sz, al) /\ Epilogue(h) /\ Tagged(h, B, sz, al) /\ Listed(h, FreeOf(B, al))
      /\ Lone(sz, FreeOf(B, al)) /\ Shape(B, sz, h.brk) /\ al \in [B -> {0, 1}] /\ Front(h)
      /\ b \in B /\ b \notin FreeOf(B, al) /\ FreeOf(B, al) \in SUBSET B
  BY DEF Whole, Tiled, HeldOf, FreeOf
<1>2. \A d \in B : /\ d \in Int /\ sz[d] \in Int /\ sz[d] >= 16 /\ d >= 32 /\ d + sz[d] <= h.brk
                   /\ d \in Word /\ d + 4 \in Word /\ d - 4 \in Word /\ d + sz[d] - 8 \in Word
  BY <1>1, BlockWords
<1>3. h.brk \in Int /\ h.brk - 4 \in Word /\ 4 \in Word /\ 24 \in Word /\ 8 \in Word
  <2>1. h.brk \in Aligned /\ 32 <= h.brk
    BY <1>1 DEF Shape
  <2> QED
    BY <2>1, IsAligned, IsWord, HeapConstants
<1>4. r.mem[4] = h.mem[4] /\ r.mem[24] = h.mem[24] /\ r.mem[8] = h.mem[8]
  BY <1>1, <1>2, <1>3
<1>5. r.mem[h.brk - 4] = h.mem[h.brk - 4]
  BY <1>1, <1>2, <1>3
<1>6. ASSUME NEW c \in B, c # b
      PROVE  /\ r.mem[c] = h.mem[c] /\ r.mem[c + 4] = h.mem[c + 4]
             /\ \A q \in Word : c <= q /\ q < c + sz[c] - 8 => r.mem[q] = h.mem[q]
             /\ r.mem[c - 4] = h.mem[c - 4] /\ r.mem[c + sz[c] - 8] = h.mem[c + sz[c] - 8]
  <2>1. b + sz[b] <= c \/ c + sz[c] <= b
    BY <1>1, <1>6, Apart
  <2>2. CASE b + sz[b] <= c
    <3>1. \A q \in Word : c - 4 <= q => q >= b + sz[b] - 8
      BY <1>1, <1>2, <2>2, IsWord, HeapConstants
    <3>2. c - 4 <= c /\ c - 4 <= c + 4 /\ c - 4 <= c + sz[c] - 8 /\ c - 4 <= c - 4
      BY <1>2
    <3>3. \A q \in Word : c <= q => c - 4 <= q
      BY <1>2, IsWord, HeapConstants
    <3> QED
      BY <1>2, <3>1, <3>2, <3>3
  <2>3. CASE c + sz[c] <= b
    <3>1. \A q \in Word : q <= c + sz[c] - 8 => q < b
      BY <1>1, <1>2, <2>3, IsWord, HeapConstants
    <3>2. c <= c + sz[c] - 8 /\ c + 4 <= c + sz[c] - 4 /\ c - 4 <= c + sz[c] - 8
      BY <1>2
    <3>3. c + 4 < b
      BY <1>1, <1>2, <2>3
    <3>4. \A q \in Word : q < c + sz[c] - 8 => q <= c + sz[c] - 8
      BY <1>2, IsWord, HeapConstants
    <3>5. c + sz[c] - 8 <= c + sz[c] - 8
      BY <1>2
    <3> QED
      BY <1>2, <3>1, <3>2, <3>3, <3>4, <3>5
  <2> QED
    BY <2>1, <2>2, <2>3
<1>7. r.mem[b - 4] = h.mem[b - 4] /\ r.mem[b + sz[b] - 8] = h.mem[b + sz[b] - 8]
  <2>1. b - 4 < b /\ b + sz[b] - 8 >= b + sz[b] - 8
    BY <1>1, <1>2
  <2> QED
    BY <1>1, <1>2, <2>1
<1>8. Tiled(r, B, sz, al) /\ Epilogue(r)
  BY <1>1, <1>4, <1>5 DEF Tiled, Front, Epilogue
<1>9. Tagged(r, B, sz, al)
  BY <1>1, <1>6, <1>7 DEF Tagged
<1>10. Listed(r, FreeOf(B, al))
  <2>1. \A c \in FreeOf(B, al) : r.mem[c] = h.mem[c] /\ r.mem[c + 4] = h.mem[c + 4]
    BY <1>1, <1>6
  <2>2. PICK rank, N : Linked(h, FreeOf(B, al), rank, N)
    BY <1>1 DEF Listed
  <2>3. Linked(r, FreeOf(B, al), rank, N)
    BY <1>4, <2>1, <2>2, ListStays
  <2> QED
    BY <2>3 DEF Listed
<1>11. Kept(B \ {b}, h, sz, r, sz)
  BY <1>6 DEF Kept
<1> QED
  BY <1>1, <1>8, <1>9, <1>10, <1>11 DEF Whole

-----------------------------------------------------------------------------
\* mm_realloc.

\* memcpy writes the words of the new block, and nothing else.
LEMMA CopyWrites ==
    ASSUME NEW h \in Heaps, NEW to, NEW from, NEW n,
           \A p \in Word : p >= to /\ p < to + n => from + (p - to) \in Word
    PROVE  LET r == Copy(h, to, from, n)
           IN  /\ r \in Heaps /\ r.brk = h.brk /\ r.heap_listp = h.heap_listp
               /\ \A q \in Word : r.mem[q] = IF q >= to /\ q < to + n THEN h.mem[from + (q - to)] ELSE h.mem[q]
<1> DEFINE X == [p \in Word |-> IF p >= to /\ p < to + n THEN h.mem[from + (p - to)] ELSE h.mem[p]]
<1>1. PICK m \in [Word -> Value], e \in Aligned, l \in Aligned :
         h = [mem |-> m, brk |-> e, heap_listp |-> l]
  BY DEF Heaps
<1>2. Copy(h, to, from, n) = [h EXCEPT !.mem = X]
  BY Zenon DEF Copy
<1>3. X \in [Word -> Value]
  <2>1. ASSUME NEW p \in Word
        PROVE  (IF p >= to /\ p < to + n THEN h.mem[from + (p - to)] ELSE h.mem[p]) \in Value
    BY Fields
  <2> QED
    BY <2>1
<1> HIDE DEF X
<1>4. Copy(h, to, from, n) = [[mem |-> m, brk |-> e, heap_listp |-> l] EXCEPT !.mem = X]
  BY <1>1, <1>2, Zenon
<1>5. Copy(h, to, from, n) = [mem |-> X, brk |-> e, heap_listp |-> l]
  BY <1>4
<1>6. \A q \in Word : X[q] = IF q >= to /\ q < to + n THEN h.mem[from + (q - to)] ELSE h.mem[q]
  BY DEF X
<1> QED
  BY <1>1, <1>3, <1>5, <1>6 DEF Heaps

\* The user's writing likewise.
LEMMA MarkWrites ==
    ASSUME NEW h \in Heaps, NEW x \in Handle, NEW bp, NEW total, NEW n
    PROVE  LET r == Write(h, x, bp, total, n)
           IN  /\ r \in Heaps /\ r.brk = h.brk /\ r.heap_listp = h.heap_listp
               /\ \A q \in Word : r.mem[q] = IF q >= bp + n /\ q < bp + total THEN x ELSE h.mem[q]
<1> DEFINE X == [p \in Word |-> IF p >= bp + n /\ p < bp + total THEN x ELSE h.mem[p]]
<1>1. PICK m \in [Word -> Value], e \in Aligned, l \in Aligned :
         h = [mem |-> m, brk |-> e, heap_listp |-> l]
  BY DEF Heaps
<1>2. Write(h, x, bp, total, n) = [h EXCEPT !.mem = X]
  BY Zenon DEF Write
<1>3. X \in [Word -> Value]
  <2>1. x \in Value
    BY HeapConstants DEF Value
  <2>2. ASSUME NEW p \in Word
        PROVE  (IF p >= bp + n /\ p < bp + total THEN x ELSE h.mem[p]) \in Value
    BY <2>1, Fields
  <2> QED
    BY <2>2
<1> HIDE DEF X
<1>4. Write(h, x, bp, total, n) = [[mem |-> m, brk |-> e, heap_listp |-> l] EXCEPT !.mem = X]
  BY <1>1, <1>2, Zenon
<1>5. Write(h, x, bp, total, n) = [mem |-> X, brk |-> e, heap_listp |-> l]
  BY <1>4
<1>6. \A q \in Word : X[q] = IF q >= bp + n /\ q < bp + total THEN x ELSE h.mem[q]
  BY DEF X
<1> QED
  BY <1>1, <1>3, <1>5, <1>6 DEF Heaps

\* The block b has what the block old had.
Brought(h, sz, old, r, b) ==
    \A q \in Word : old <= q /\ q < old + sz[old] - 8 => r.mem[b + (q - old)] = h.mem[q]

\* A held block takes in the free block behind it.
LEMMA GrowInPlace ==
    ASSUME NEW h, NEW B, NEW sz, NEW al, Whole(h, B, sz, al), NEW b \in HeldOf(B, al),
           b + sz[b] \in FreeOf(B, al)
    PROVE  LET total == sz[b] + sz[b + sz[b]]
               r == PutTags(remove_free(h, b + sz[b]), b, total, 1)
           IN  \E C, tz, am : /\ Whole(r, C, tz, am) /\ HeldOf(C, am) = HeldOf(B, al) /\ tz[b] = total
                              /\ Kept(HeldOf(B, al) \ {b}, h, sz, r, tz)
                              /\ \A q \in Word : b <= q /\ q < b + sz[b] - 8 => r.mem[q] = h.mem[q]
<1> DEFINE y == b + sz[b]  total == sz[b] + sz[y]  g == remove_free(h, y)  r == PutTags(g, b, total, 1)
           C == B \ {y}  tz == Merge(B, sz, b)  am == [d \in C |-> al[d]]  F == FreeOf(B, al)  H == HeldOf(B, al)
<1>1. /\ Tiled(h, B, sz, al) /\ Epilogue(h) /\ Tagged(h, B, sz, al) /\ Listed(h, F) /\ Lone(sz, F)
      /\ Shape(B, sz, h.brk) /\ al \in [B -> {0, 1}] /\ b \in B /\ y \in B /\ al[b] = 1 /\ al[y] = 0
      /\ F \in SUBSET B /\ y \in F
  BY DEF Whole, Tiled, HeldOf, FreeOf
<1>2. Shape(C, tz, h.brk)
  BY <1>1, MergeShape
<1>3. /\ tz[b] = total /\ b + tz[b] = y + sz[y] /\ b \in C /\ b # y /\ \A c \in C \ {b} : tz[c] = sz[c]
  BY <1>1, MergedEnds
<1>4. tz[b] >= sz[b] /\ b \in Int /\ sz[b] \in Int /\ tz[b] \in Int
  BY <1>1, MergedEnds, BlockWords
<1> HIDE DEF tz, y
<1>5. am \in [C -> {0, 1}] /\ am[b] = 1 /\ \A c \in C : am[c] = al[c]
  BY <1>1, <1>3
<1> HIDE DEF am
<1>6. /\ g \in Heaps /\ g.brk = h.brk /\ Listed(g, F \ {y})
      /\ \A q \in Word : OffList(q, F) => g.mem[q] = h.mem[q]
  <2> HIDE DEF F
  <2> QED
    BY <1>1, Leaves
<1> HIDE DEF g
<1>7. Tiled(g, B, sz, al) /\ Epilogue(g) /\ Tagged(g, B, sz, al) /\ Kept(B \ F, h, sz, g, sz)
  <2> HIDE DEF F
  <2>1. /\ Tiled(g, B, sz, al) /\ (Epilogue(h) => Epilogue(g))
        /\ \A S \in SUBSET B : Tagged(h, S, sz, al) => Tagged(g, S, sz, al)
        /\ Kept(B \ F, h, sz, g, sz)
    BY <1>1, <1>6, LinksOnly
  <2> QED
    BY <1>1, <2>1
<1>8. Tiled(g, C, tz, am) /\ Tagged(g, C \ {b}, tz, am)
  <2>1. Tiled(g, C, tz, am)
    BY <1>2, <1>5, <1>6, <1>7 DEF Tiled
  <2>2. \A c \in C \ {b} : c \in B /\ tz[c] = sz[c] /\ am[c] = al[c]
    BY <1>3, <1>5
  <2> QED
    BY <1>7, <2>1, <2>2 DEF Tagged
<1>9. [am EXCEPT ![b] = 1] = am
  BY <1>3, <1>5
<1>10. F \ {y} \in SUBSET C /\ C \cup {b} = C /\ C \in SUBSET C
  BY <1>1, <1>3
<1>11. Tiled(r, C, tz, am) /\ Epilogue(r) /\ Tagged(r, C, tz, am) /\ Listed(r, F \ {y}) /\ Kept(C, g, tz, r, tz)
  <2>1. LET x  == PutTags(g, b, tz[b], 1)
            aa == [am EXCEPT ![b] = 1]
        IN  /\ Tiled(x, C, tz, aa) /\ x.brk = g.brk /\ (Epilogue(g) => Epilogue(x))
            /\ \A S \in SUBSET C : Tagged(g, S \ {b}, tz, am) => Tagged(x, S \cup {b}, tz, aa)
            /\ \A E \in SUBSET C : Listed(g, E) => Listed(x, E)
            /\ Kept(C, g, tz, x, tz)
    BY <1>3, <1>8, Marks
  <2>2. r = PutTags(g, b, tz[b], 1)
    BY <1>3
  <2> HIDE DEF C, F, r
  <2> QED
    BY <1>6, <1>7, <1>8, <1>9, <1>10, <2>1, <2>2
<1> HIDE DEF r
<1>12. FreeOf(C, am) = F \ {y} /\ HeldOf(C, am) = H
  BY <1>1, <1>5 DEF FreeOf, HeldOf
<1>13. Lone(tz, F \ {y})
  <2>1. \A c \in F \ {y} : tz[c] = sz[c]
    BY <1>1, <1>3 DEF FreeOf
  <2> QED
    BY <1>1, <2>1 DEF Lone
<1>14. Whole(r, C, tz, am)
  BY <1>11, <1>12, <1>13 DEF Whole
<1>15. Kept(H \ {b}, h, sz, r, tz)
  <2>1. \A c \in H \ {b} : c \in B \ F /\ c \in C /\ tz[c] = sz[c]
    BY <1>1, <1>3 DEF HeldOf, FreeOf
  <2>2. Kept(H \ {b}, h, sz, g, tz) /\ Kept(H \ {b}, g, tz, r, tz)
    BY <1>7, <1>11, <2>1 DEF Kept
  <2> QED
    BY <2>2, KeptTrans
<1>16. \A q \in Word : b <= q /\ q < b + sz[b] - 8 => r.mem[q] = h.mem[q]
  <2>1. \A q \in Word : q < b + sz[b] - 8 => q < b + tz[b] - 8
    BY <1>4, IsWord, HeapConstants
  <2>2. b \in B \ F
    BY <1>1 DEF FreeOf
  <2> QED
    BY <1>3, <1>7, <1>11, <2>1, <2>2 DEF Kept
<1> QED
  BY <1>3, <1>12, <1>14, <1>15, <1>16 DEF r, g, y

\* A block is copied into a larger one and freed.
LEMMA MoveBlock ==
    ASSUME NEW h, NEW B, NEW sz, NEW al, Whole(h, B, sz, al), NEW old \in HeldOf(B, al),
           NEW b \in HeldOf(B, al), b # old, sz[b] > sz[old]
    PROVE  LET r == mm_free(Copy(h, b, old, sz[old] - 4), old)
           IN  \E C, tz, am : /\ Whole(r, C, tz, am) /\ HeldOf(C, am) = HeldOf(B, al) \ {old}
                              /\ tz[b] = sz[b] /\ Kept(HeldOf(B, al) \ {old, b}, h, sz, r, tz)
                              /\ Brought(h, sz, old, r, b)
<1> DEFINE H == HeldOf(B, al)  g == Copy(h, b, old, sz[old] - 4)  r == mm_free(g, old)
<1>1. h \in Heaps /\ Shape(B, sz, h.brk) /\ b \in B /\ old \in B /\ H \subseteq B
  BY DEF Whole, Tiled, HeldOf
<1>2. /\ b \in Int /\ sz[b] \in Int /\ old \in Int /\ sz[old] \in Int /\ b % 8 = 0 /\ old % 8 = 0
      /\ sz[b] % 8 = 0 /\ sz[old] % 8 = 0 /\ b >= 32 /\ old >= 32 /\ sz[old] >= 16 /\ sz[b] >= 16
      /\ b + sz[b] <= h.brk /\ old + sz[old] <= h.brk /\ h.brk <= MaxHeap /\ h.brk \in Int
  BY <1>1, BlockWords
<1>3. sz[old] + 8 <= sz[b]
  BY <1>2
<1>4. ASSUME NEW p \in Word, p >= b, p < b + (sz[old] - 4)
      PROVE  old + (p - b) \in Word /\ p < b + sz[b] - 8
  <2>1. p \in Int /\ p % 4 = 0 /\ MaxHeap \in Int
    BY IsWord, HeapConstants
  <2>2. (old + (p - b)) % 4 = 0
    BY <1>2, <2>1
  <2>3. old + (p - b) \in 0..MaxHeap - 4
    BY <1>2, <1>4, <2>1
  <2> QED
    BY <1>2, <1>3, <1>4, <2>1, <2>2, <2>3, IsWord
<1>5. /\ g \in Heaps /\ g.brk = h.brk /\ g.heap_listp = h.heap_listp
      /\ \A q \in Word : g.mem[q] = IF q >= b /\ q < b + (sz[old] - 4) THEN h.mem[old + (q - b)] ELSE h.mem[q]
  BY <1>1, <1>4, CopyWrites
<1> HIDE DEF g
<1>6. \A q \in Word : q < b \/ q >= b + sz[b] - 8 => g.mem[q] = h.mem[q]
  <2> SUFFICES ASSUME NEW q \in Word, q < b \/ q >= b + sz[b] - 8, q >= b, q < b + (sz[old] - 4) PROVE FALSE
    BY <1>5
  <2>1. q \in Int
    BY IsWord, HeapConstants
  <2> QED
    BY <1>2, <1>4, <2>1
<1>7. Whole(g, B, sz, al) /\ Kept(B \ {b}, h, sz, g, sz)
  BY <1>5, <1>6, WriteInside
<1>8. PICK C, tz, am : Left(H \ {old}, g, sz, r, C, tz, am)
  BY <1>7, FreeBlock
<1> HIDE DEF r
<1>9. tz[b] = sz[b] /\ \A q \in Word : b <= q /\ q < b + sz[b] - 8 => r.mem[q] = g.mem[q]
  BY <1>8 DEF Left, Kept
<1>10. Kept(H \ {old, b}, h, sz, r, tz)
  <2>1. Kept(H \ {old, b}, h, sz, g, sz) /\ Kept(H \ {old, b}, g, sz, r, tz)
    BY <1>1, <1>7, <1>8 DEF Left, Kept
  <2> QED
    BY <2>1, KeptTrans
<1>11. Brought(h, sz, old, r, b)
  <2> SUFFICES ASSUME NEW q \in Word, old <= q, q < old + sz[old] - 8
               PROVE  r.mem[b + (q - old)] = h.mem[q]
    BY DEF Brought
  <2> DEFINE p == b + (q - old)
  <2>1. q \in Int /\ q % 4 = 0 /\ MaxHeap \in Int
    BY IsWord, HeapConstants
  <2>2. p % 4 = 0
    BY <1>2, <2>1
  <2>3. p \in 0..MaxHeap - 4 /\ p >= b /\ p < b + (sz[old] - 4) /\ p < b + sz[b] - 8 /\ old + (p - b) = q
    BY <1>2, <1>3, <2>1
  <2> HIDE DEF p
  <2>4. p \in Word
    BY <2>2, <2>3, IsWord
  <2>5. g.mem[p] = h.mem[q]
    BY <1>5, <2>3, <2>4
  <2>6. r.mem[p] = g.mem[p]
    BY <1>9, <2>3, <2>4
  <2> QED
    BY <2>5, <2>6 DEF p
<1> QED
  BY <1>8, <1>9, <1>10, <1>11 DEF Left, r, g

\* mm_realloc puts one block, which has what was in the old one, in its place
\* and keeps the others; of size 0 it frees it; or it changes nothing.
LEMMA MmRealloc ==
    ASSUME RequestsFit, NEW h, NEW B, NEW sz, NEW al, Whole(h, B, sz, al), NEW old \in HeldOf(B, al), NEW n \in Sizes
    PROVE  LET r == mm_realloc(h, old, n)
               H == HeldOf(B, al)
           IN  /\ r.bp # NULL =>
                     \E C, tz, am : /\ Whole(r.heap, C, tz, am)
                                    /\ HeldOf(C, am) = (H \ {old}) \cup {r.bp} /\ r.bp \notin H \ {old}
                                    /\ tz[r.bp] >= n + 8
                                    /\ Kept(H \ {old}, h, sz, r.heap, tz) /\ Brought(h, sz, old, r.heap, r.bp)
               /\ r.bp = NULL /\ n = 0 =>
                     \E C, tz, am : Left(H \ {old}, h, sz, r.heap, C, tz, am)
               /\ r.bp = NULL /\ n # 0 => r.heap = h
<1> DEFINE r == mm_realloc(h, old, n)  H == HeldOf(B, al)  y == old + sz[old]
           new == mm_malloc(h, n)  both == sz[old] + GET_SIZE(h, HDRP(NEXT_BLKP(h, old)))
           Got(g, b) == \E C, tz, am : /\ Whole(g, C, tz, am)
                                       /\ HeldOf(C, am) = (H \ {old}) \cup {b} /\ b \notin H \ {old}
                                       /\ tz[b] >= n + 8
                                       /\ Kept(H \ {old}, h, sz, g, tz) /\ Brought(h, sz, old, g, b)
<1>1. /\ Tiled(h, B, sz, al) /\ Epilogue(h) /\ Tagged(h, B, sz, al) /\ Shape(B, sz, h.brk)
      /\ old \in B /\ al[old] = 1 /\ al \in [B -> {0, 1}] /\ old \in H
  BY DEF Whole, Tiled, HeldOf
<1>2. /\ old \in Int /\ sz[old] \in Int /\ old >= 32 /\ old # NULL /\ sz[old] >= 16
  BY <1>1, BlockWords DEF NULL
<1>3. GET_SIZE(h, HDRP(old)) = sz[old] /\ NEXT_BLKP(h, old) = y
  BY <1>1, Reads
<1>4. n \in Nat /\ (n < SizeMod \div 2 => (n + 8) % SizeMod = n + 8) /\ SizeMod \div 2 \in Nat /\ SizeMod \div 2 > 0
  <2>1. n \in Nat /\ SizeMod \in Nat /\ MaxHeap \in Nat /\ MaxHeap >= 48 /\ MaxHeap < SizeMod \div 2
    BY HeapConstants
  <2>2. n + 15 < SizeMod
    BY DEF RequestsFit
  <2> QED
    BY <2>1, <2>2
<1>5. r = IF n >= SizeMod \div 2 THEN Result(h, NULL)
          ELSE IF n = 0 THEN Result(mm_free(h, old), NULL)
          ELSE IF old = NULL THEN mm_malloc(h, n)
          ELSE IF (n + 8) % SizeMod <= sz[old] THEN Result(h, old)
          ELSE IF GET_ALLOC(h, HDRP(NEXT_BLKP(h, old))) = 0 /\ both >= (n + 8) % SizeMod
               THEN Result(PutTags(remove_free(h, NEXT_BLKP(h, old)), old, both, 1), old)
          ELSE IF new.bp = NULL THEN Result(h, NULL)
          ELSE Moved(new, old, sz[old])
  BY <1>3 DEF mm_realloc
<1> HIDE DEF r, H
<1>6. CASE n >= SizeMod \div 2
  <2>1. r.heap = h /\ r.bp = NULL /\ n # 0
    BY <1>4, <1>5, <1>6 DEF Result
  <2> QED
    BY <2>1 DEF r
<1>7. CASE ~(n >= SizeMod \div 2) /\ n = 0
  <2>1. r.heap = mm_free(h, old) /\ r.bp = NULL
    BY <1>5, <1>7 DEF Result
  <2>2. \E C, tz, am : Left(H \ {old}, h, sz, r.heap, C, tz, am)
    BY <2>1, FreeBlock DEF H
  <2> QED
    BY <1>7, <2>1, <2>2 DEF r, H
<1>8. CASE ~(n >= SizeMod \div 2) /\ n # 0
  <2>1. (n + 8) % SizeMod = n + 8
    BY <1>4, <1>8
  <2>2. r = IF n + 8 <= sz[old] THEN Result(h, old)
            ELSE IF GET_ALLOC(h, HDRP(NEXT_BLKP(h, old))) = 0 /\ both >= n + 8
                 THEN Result(PutTags(remove_free(h, NEXT_BLKP(h, old)), old, both, 1), old)
            ELSE IF new.bp = NULL THEN Result(h, NULL)
            ELSE Moved(new, old, sz[old])
    <3> HIDE DEF both, new
    <3> QED
      BY <1>2, <1>5, <1>8, <2>1
  <2>3. CASE n + 8 <= sz[old]
    <3>1. r.heap = h /\ r.bp = old
      BY <2>2, <2>3 DEF Result
    <3>2. (H \ {old}) \cup {old} = H
      BY <1>1
    <3>3. sz[old] >= n + 8
      BY <1>2, <1>4, <2>3
    <3>4. Kept(H \ {old}, h, sz, h, sz)
      BY DEF Kept
    <3>5. Brought(h, sz, old, h, old)
      <4>1. \A q \in Word : old + (q - old) = q
        BY <1>2, IsWord, HeapConstants
      <4> QED
        BY <4>1 DEF Brought
    <3>6. Got(r.heap, r.bp)
      BY <3>1, <3>2, <3>3, <3>4, <3>5 DEF H
    <3> QED
      BY <1>2, <3>1, <3>6 DEF r, H
  <2>4. CASE ~(n + 8 <= sz[old]) /\ GET_ALLOC(h, HDRP(NEXT_BLKP(h, old))) = 0 /\ both >= n + 8
    <3>1. y \in B /\ al[y] = 0 /\ both = sz[old] + sz[y]
      BY <1>1, <1>3, <2>4, Reads
    <3>2. y \in FreeOf(B, al)
      BY <3>1 DEF FreeOf
    <3>3. r.heap = PutTags(remove_free(h, y), old, both, 1) /\ r.bp = old
      <4> HIDE DEF both, new, y
      <4> QED
        BY <1>3, <2>2, <2>4 DEF Result
    <3>4. PICK C, tz, am : /\ Whole(r.heap, C, tz, am) /\ HeldOf(C, am) = H /\ tz[old] = both
                           /\ Kept(H \ {old}, h, sz, r.heap, tz)
                           /\ \A q \in Word : old <= q /\ q < old + sz[old] - 8 => r.heap.mem[q] = h.mem[q]
      BY <3>1, <3>2, <3>3, GrowInPlace DEF H
    <3>5. (H \ {old}) \cup {old} = H
      BY <1>1
    <3>6. Brought(h, sz, old, r.heap, old)
      <4>1. \A q \in Word : old + (q - old) = q
        BY <1>2, IsWord, HeapConstants
      <4> QED
        BY <3>4, <4>1 DEF Brought
    <3> HIDE DEF both
    <3>7. Got(r.heap, r.bp)
      BY <2>4, <3>3, <3>4, <3>5, <3>6
    <3> QED
      BY <1>2, <3>3, <3>7 DEF r, H
  <2>5. CASE ~(n + 8 <= sz[old]) /\ ~(GET_ALLOC(h, HDRP(NEXT_BLKP(h, old))) = 0 /\ both >= n + 8)
    <3>1. r = IF new.bp = NULL THEN Result(h, NULL) ELSE Moved(new, old, sz[old])
      <4> HIDE DEF both, new, y
      <4> QED
        BY <2>2, <2>5
    <3>2. CASE new.bp = NULL
      <4>1. r.heap = h /\ r.bp = NULL
        BY <3>1, <3>2 DEF Result
      <4> QED
        BY <1>8, <4>1 DEF r
    <3>3. CASE new.bp # NULL
      <4> DEFINE b == new.bp
      <4>1. PICK C, tz, am : /\ Whole(new.heap, C, tz, am)
                             /\ HeldOf(C, am) = H \cup {b} /\ b \notin H
                             /\ tz[b] >= n + 8 /\ Kept(H, h, sz, new.heap, tz)
        BY <3>3, MmMalloc DEF H
      <4> HIDE DEF new
      <4>2. /\ r.heap = mm_free(Copy(new.heap, b, old, sz[old] - 4), old) /\ r.bp = b
        BY <3>1, <3>3 DEF Moved, Result
      <4>3. b # old /\ tz[old] = sz[old] /\ old \in HeldOf(C, am) /\ b \in HeldOf(C, am)
        BY <1>1, <4>1 DEF Kept
      <4>4. tz[b] \in Int
        <5>1. b \in C /\ Shape(C, tz, new.heap.brk)
          BY <4>1, <4>3 DEF Whole, Tiled, HeldOf
        <5> QED
          BY <5>1, BlockWords
      <4>5. tz[b] > tz[old]
        <5> HIDE DEF b
        <5> QED
          BY <1>2, <1>4, <2>5, <4>1, <4>3, <4>4
      <4>6. PICK D, uz, an : /\ Whole(r.heap, D, uz, an) /\ HeldOf(D, an) = HeldOf(C, am) \ {old}
                             /\ uz[b] = tz[b] /\ Kept(HeldOf(C, am) \ {old, b}, new.heap, tz, r.heap, uz)
                             /\ Brought(new.heap, tz, old, r.heap, b)
        <5> HIDE DEF b
        <5> QED
          BY <4>1, <4>2, <4>3, <4>5, MoveBlock
      <4> HIDE DEF b
      <4>7. HeldOf(D, an) = (H \ {old}) \cup {b} /\ HeldOf(C, am) \ {old, b} = H \ {old}
        BY <4>1, <4>3, <4>6
      <4>8. Kept(H \ {old}, h, sz, r.heap, uz)
        <5>1. Kept(H \ {old}, h, sz, new.heap, tz)
          BY <4>1 DEF Kept
        <5> QED
          BY <4>6, <4>7, <5>1, KeptTrans
      <4>9. Brought(h, sz, old, r.heap, b)
        BY <1>1, <4>1, <4>3, <4>6 DEF Brought, Kept
      <4>10. Got(r.heap, r.bp)
        BY <4>1, <4>2, <4>6, <4>7, <4>8, <4>9
      <4> QED
        BY <3>3, <4>2, <4>10 DEF r, H, b
    <3> QED
      BY <3>2, <3>3
  <2> QED
    BY <2>3, <2>4, <2>5
<1> QED
  BY <1>6, <1>7, <1>8

-----------------------------------------------------------------------------
\* The user's calls.

\* The inductive invariant: what the user holds, p, and asked for, s, against
\* the blocks of the heap.
Served(h, p, s, B, sz, al) ==
    /\ Whole(h, B, sz, al)
    /\ p \in [Handle -> Aligned] /\ s \in [Handle -> Sizes \cup {0}]
    /\ HeldOf(B, al) = {p[x] : x \in Handle} \ {NULL}
    /\ \A x, y \in Handle : p[x] = p[y] /\ p[x] # NULL => x = y
    /\ \A x \in Handle : IF p[x] = NULL THEN s[x] = 0
                         ELSE /\ sz[p[x]] >= s[x] + 8
                              /\ \A q \in Word : p[x] <= q /\ q < p[x] + s[x] => h.mem[q] = x

HeapInv ==
    /\ resets \in 0..Resets
    /\ \E B, sz, al : Served(heap, ptr, size, B, sz, al)

\* What a handle holds is a held block, and another handle holds another.
LEMMA ServedBlocks ==
    ASSUME NEW h, NEW p, NEW s, NEW B, NEW sz, NEW al, Served(h, p, s, B, sz, al), NEW x \in Handle, p[x] # NULL
    PROVE  /\ p[x] \in HeldOf(B, al) /\ p[x] \in B /\ sz[p[x]] \in Int /\ p[x] \in Int /\ s[x] \in Nat
           /\ \A y \in Handle \ {x} : p[y] # NULL => p[y] \in HeldOf(B, al) \ {p[x]}
<1>1. p[x] \in HeldOf(B, al) /\ p[x] \in B /\ Shape(B, sz, h.brk)
  BY DEF Served, HeldOf, Whole, Tiled
<1>2. sz[p[x]] \in Int /\ p[x] \in Int
  BY <1>1, BlockWords
<1>3. s[x] \in Nat
  <2>1. s[x] \in Sizes \cup {0}
    BY DEF Served
  <2>2. \A n \in Sizes : n \in Nat
    BY HeapConstants
  <2> QED
    BY <2>1, <2>2
<1> QED
  BY <1>1, <1>2, <1>3 DEF Served

\* The others keep what they have.
LEMMA OthersServed ==
    ASSUME NEW h, NEW p, NEW s, NEW B, NEW sz, NEW al, Served(h, p, s, B, sz, al), NEW S,
           NEW r, NEW tz, Kept(S, h, sz, r, tz), NEW x \in Handle, p[x] # NULL, p[x] \in S
    PROVE  /\ tz[p[x]] >= s[x] + 8
           /\ \A q \in Word : p[x] <= q /\ q < p[x] + s[x] => r.mem[q] = x
<1>1. /\ sz[p[x]] >= s[x] + 8
      /\ \A q \in Word : p[x] <= q /\ q < p[x] + s[x] => h.mem[q] = x
  BY DEF Served
<1>2. p[x] \in Int /\ sz[p[x]] \in Int /\ s[x] \in Nat
  BY ServedBlocks
<1>3. \A q \in Word : p[x] <= q /\ q < p[x] + s[x] => q < p[x] + sz[p[x]] - 8
  BY <1>1, <1>2, IsWord, HeapConstants
<1>4. tz[p[x]] = sz[p[x]] /\ \A q \in Word : p[x] <= q /\ q < p[x] + sz[p[x]] - 8 => r.mem[q] = h.mem[q]
  BY DEF Kept
<1> QED
  BY <1>1, <1>3, <1>4

\* Held blocks are where doubles can be.
LEMMA BlockIsAligned ==
    ASSUME NEW h, NEW B, NEW sz, NEW al, Whole(h, B, sz, al), NEW b \in HeldOf(B, al)
    PROVE  b \in Aligned /\ b \in Int /\ b % 4 = 0 /\ sz[b] \in Int /\ b >= 32
<1>1. b \in B /\ Shape(B, sz, h.brk)
  BY DEF HeldOf, Whole, Tiled
<1>2. b \in Aligned /\ b \in Int /\ b % 8 = 0 /\ sz[b] \in Int /\ b >= 32
  BY <1>1, BlockWords
<1> QED
  BY <1>2

\* A handle x takes the block b of n bytes instead of what it held, if it
\* held one; its mark is in the first k bytes, and it writes the rest.
LEMMA Serve ==
    ASSUME NEW h, NEW p, NEW s, NEW B, NEW sz, NEW al, Served(h, p, s, B, sz, al), NEW x \in Handle,
           NEW g, NEW C, NEW tz, NEW am, Whole(g, C, tz, am), NEW b, NEW n \in Sizes, NEW k \in Nat,
           HeldOf(C, am) = (HeldOf(B, al) \ {p[x]}) \cup {b}, b \notin HeldOf(B, al) \ {p[x]},
           tz[b] >= n + 8, Kept(HeldOf(B, al) \ {p[x]}, h, sz, g, tz),
           \A q \in Word : b <= q /\ q < b + k => g.mem[q] = x
    PROVE  Served(Write(g, x, b, n, k), [p EXCEPT ![x] = b], [s EXCEPT ![x] = n], C, tz, am)
<1> DEFINE H == HeldOf(B, al)  w == Write(g, x, b, n, k)  pp == [p EXCEPT ![x] = b]  ss == [s EXCEPT ![x] = n]
<1>1. /\ p \in [Handle -> Aligned] /\ s \in [Handle -> Sizes \cup {0}]
      /\ H = {p[y] : y \in Handle} \ {NULL}
      /\ \A y, z \in Handle : p[y] = p[z] /\ p[y] # NULL => y = z
      /\ \A y \in Handle : p[y] = NULL => s[y] = 0
  BY DEF Served
<1>2. b \in HeldOf(C, am) /\ b \in Aligned /\ b \in Int /\ tz[b] \in Int /\ b # NULL /\ g \in Heaps
  <2>1. b \in HeldOf(C, am) /\ g \in Heaps
    BY DEF Whole, Tiled
  <2>2. b \in Aligned /\ b \in Int /\ tz[b] \in Int /\ b >= 32
    BY <2>1, BlockIsAligned
  <2> QED
    BY <2>1, <2>2 DEF NULL
<1>3. n \in Nat
  BY HeapConstants
<1>4. /\ w \in Heaps /\ w.brk = g.brk /\ w.heap_listp = g.heap_listp
      /\ \A q \in Word : w.mem[q] = IF q >= b + k /\ q < b + n THEN x ELSE g.mem[q]
  BY <1>2, MarkWrites
<1> HIDE DEF w
<1>5. Whole(w, C, tz, am) /\ Kept(C \ {b}, g, tz, w, tz)
  <2>1. \A q \in Word : q < b \/ q >= b + tz[b] - 8 => ~(q >= b + k /\ q < b + n)
    BY <1>2, <1>3, IsWord, HeapConstants
  <2>2. \A q \in Word : q < b \/ q >= b + tz[b] - 8 => w.mem[q] = g.mem[q]
    BY <1>4, <2>1
  <2> QED
    BY <1>2, <1>4, <2>2, WriteInside
<1>6. Kept(H \ {p[x]}, h, sz, w, tz)
  <2>1. H \ {p[x]} \subseteq C \ {b}
    BY DEF HeldOf
  <2>2. Kept(H \ {p[x]}, g, tz, w, tz)
    BY <1>5, <2>1 DEF Kept
  <2> QED
    BY <2>2, KeptTrans
<1>7. pp[x] = b /\ ss[x] = n /\ \A y \in Handle \ {x} : pp[y] = p[y] /\ ss[y] = s[y]
  BY <1>1
<1>8. pp \in [Handle -> Aligned] /\ ss \in [Handle -> Sizes \cup {0}]
  BY <1>1, <1>2
<1> HIDE DEF pp, ss
<1>9. \A y \in Handle \ {x} : p[y] # NULL => p[y] \in H \ {p[x]}
  BY <1>1
<1>10. HeldOf(C, am) = {pp[y] : y \in Handle} \ {NULL}
  <2>1. ASSUME NEW c \in HeldOf(C, am) PROVE c \in {pp[y] : y \in Handle} \ {NULL}
    <3>1. CASE c = b
      BY <1>2, <1>7, <3>1
    <3>2. CASE c # b
      <4>1. c \in H \ {p[x]}
        BY <3>2
      <4>2. PICK y \in Handle : c = p[y] /\ c # NULL
        BY <1>1, <4>1
      <4>3. y # x
        BY <4>1, <4>2
      <4> QED
        BY <1>7, <4>2, <4>3
    <3> QED
      BY <3>1, <3>2
  <2>2. ASSUME NEW y \in Handle, pp[y] # NULL PROVE pp[y] \in HeldOf(C, am)
    BY <1>2, <1>7, <1>9, <2>2
  <2> QED
    BY <2>1, <2>2
<1>11. ASSUME NEW y \in Handle, NEW z \in Handle, pp[y] = pp[z], pp[y] # NULL PROVE y = z
  BY <1>1, <1>7, <1>9, <1>11
<1>12. ASSUME NEW y \in Handle
       PROVE  IF pp[y] = NULL THEN ss[y] = 0
              ELSE /\ tz[pp[y]] >= ss[y] + 8
                   /\ \A q \in Word : pp[y] <= q /\ q < pp[y] + ss[y] => w.mem[q] = y
  <2>1. CASE y = x
    <3>1. \A q \in Word : b <= q /\ q < b + n => w.mem[q] = x
      <4> SUFFICES ASSUME NEW q \in Word, b <= q, q < b + n, ~(q >= b + k) PROVE g.mem[q] = x
        BY <1>4
      <4>1. q < b + k
        BY <1>2, IsWord, HeapConstants
      <4> QED
        BY <4>1
    <3> QED
      BY <1>2, <1>7, <2>1, <3>1
  <2>2. CASE y # x /\ p[y] = NULL
    BY <1>1, <1>7, <2>2
  <2>3. CASE y # x /\ p[y] # NULL
    <3>1. p[y] \in H \ {p[x]}
      BY <1>9, <2>3
    <3>2. /\ tz[p[y]] >= s[y] + 8
          /\ \A q \in Word : p[y] <= q /\ q < p[y] + s[y] => w.mem[q] = y
      <4> HIDE DEF H
      <4> QED
        BY <1>6, <2>3, <3>1, OthersServed
    <3> QED
      BY <1>7, <2>3, <3>2
  <2> QED
    BY <2>1, <2>2, <2>3
<1>13. Served(w, pp, ss, C, tz, am)
  BY <1>5, <1>8, <1>10, <1>11, <1>12 DEF Served
<1> QED
  BY <1>13 DEF w, pp, ss

\* A handle gives its block back.
LEMMA Release ==
    ASSUME NEW h, NEW p, NEW s, NEW B, NEW sz, NEW al, Served(h, p, s, B, sz, al), NEW x \in Handle,
           p[x] # NULL, NEW g, NEW C, NEW tz, NEW am, Left(HeldOf(B, al) \ {p[x]}, h, sz, g, C, tz, am)
    PROVE  Served(g, [p EXCEPT ![x] = NULL], [s EXCEPT ![x] = 0], C, tz, am)
<1> DEFINE H == HeldOf(B, al)  pp == [p EXCEPT ![x] = NULL]  ss == [s EXCEPT ![x] = 0]
<1>1. /\ p \in [Handle -> Aligned] /\ s \in [Handle -> Sizes \cup {0}]
      /\ H = {p[y] : y \in Handle} \ {NULL}
      /\ \A y, z \in Handle : p[y] = p[z] /\ p[y] # NULL => y = z
      /\ \A y \in Handle : p[y] = NULL => s[y] = 0
  BY DEF Served
<1>2. Whole(g, C, tz, am) /\ HeldOf(C, am) = H \ {p[x]} /\ Kept(H \ {p[x]}, h, sz, g, tz)
  BY DEF Left
<1>3. pp[x] = NULL /\ ss[x] = 0 /\ \A y \in Handle \ {x} : pp[y] = p[y] /\ ss[y] = s[y]
  BY <1>1
<1>4. pp \in [Handle -> Aligned] /\ ss \in [Handle -> Sizes \cup {0}]
  <2>1. NULL \in Aligned
    BY IsAligned, HeapConstants DEF NULL
  <2> QED
    BY <1>1, <2>1
<1> HIDE DEF pp, ss
<1>5. \A y \in Handle \ {x} : p[y] # NULL => p[y] \in H \ {p[x]}
  BY <1>1
<1>6. HeldOf(C, am) = {pp[y] : y \in Handle} \ {NULL}
  <2>1. ASSUME NEW c \in H \ {p[x]} PROVE c \in {pp[y] : y \in Handle} \ {NULL}
    <3>1. PICK y \in Handle : c = p[y] /\ c # NULL
      BY <1>1
    <3>2. y # x
      BY <3>1
    <3> QED
      BY <1>3, <3>1, <3>2
  <2>2. ASSUME NEW y \in Handle, pp[y] # NULL PROVE pp[y] \in H \ {p[x]}
    BY <1>3, <1>5, <2>2
  <2> QED
    BY <1>2, <2>1, <2>2
<1>7. ASSUME NEW y \in Handle, NEW z \in Handle, pp[y] = pp[z], pp[y] # NULL PROVE y = z
  BY <1>1, <1>3, <1>7
<1>8. ASSUME NEW y \in Handle
      PROVE  IF pp[y] = NULL THEN ss[y] = 0
             ELSE /\ tz[pp[y]] >= ss[y] + 8
                  /\ \A q \in Word : pp[y] <= q /\ q < pp[y] + ss[y] => g.mem[q] = y
  <2>1. CASE y = x
    BY <1>3, <2>1
  <2>2. CASE y # x /\ p[y] = NULL
    BY <1>1, <1>3, <2>2
  <2>3. CASE y # x /\ p[y] # NULL
    <3>1. p[y] \in H \ {p[x]}
      BY <1>5, <2>3
    <3>2. /\ tz[p[y]] >= s[y] + 8
          /\ \A q \in Word : p[y] <= q /\ q < p[y] + s[y] => g.mem[q] = y
      <4> HIDE DEF H
      <4> QED
        BY <1>2, <2>3, <3>1, OthersServed
    <3> QED
      BY <1>3, <2>3, <3>2
  <2> QED
    BY <2>1, <2>2, <2>3
<1>9. Served(g, pp, ss, C, tz, am)
  BY <1>2, <1>4, <1>6, <1>7, <1>8 DEF Served
<1> QED
  BY <1>9 DEF pp, ss

\* Nobody holds anything of a heap mm_init has made.
LEMMA FreshServed ==
    ASSUME NEW h \in Heaps, h.mem[24] = 0
    PROVE  \E B, sz, al : Served(mm_init(h), [x \in Handle |-> NULL], [x \in Handle |-> 0], B, sz, al)
<1>1. PICK B, sz, al : Whole(mm_init(h), B, sz, al) /\ HeldOf(B, al) = {}
  BY MmInit
<1>2. NULL \in Aligned
  BY IsAligned, HeapConstants DEF NULL
<1>3. Served(mm_init(h), [x \in Handle |-> NULL], [x \in Handle |-> 0], B, sz, al)
  BY <1>1, <1>2 DEF Served
<1> QED
  BY <1>3

\* HeapInv is inductive: mm_init establishes it,
LEMMA InvInit == Init => HeapInv
<1> SUFFICES ASSUME Init PROVE HeapInv
  OBVIOUS
<1>1. NewHeap \in Heaps /\ NewHeap.mem[24] = 0
  <2>1. 24 \in Word /\ 0 \in Aligned /\ 0 \in Value
    BY IsWord, IsAligned, HeapConstants DEF Value
  <2> QED
    BY <2>1 DEF NewHeap, Heaps, NULL
<1>2. resets \in 0..Resets
  BY HeapConstants DEF Init
<1>3. /\ heap = mm_init(NewHeap) /\ ptr = [x \in Handle |-> NULL] /\ size = [x \in Handle |-> 0]
  BY DEF Init
<1>4. \E B, sz, al : Served(mm_init(NewHeap), [x \in Handle |-> NULL], [x \in Handle |-> 0], B, sz, al)
  <2> HIDE DEF NewHeap
  <2> QED
    BY <1>1, FreshServed
<1> QED
  BY <1>2, <1>3, <1>4 DEF HeapInv

\* Free,
LEMMA InvFree ==
    ASSUME HeapInv, NEW x \in Handle, Free(x)
    PROVE  HeapInv'
<1>1. PICK B, sz, al : Served(heap, ptr, size, B, sz, al)
  BY DEF HeapInv
<1>2. /\ ptr[x] # NULL /\ heap' = mm_free(heap, ptr[x]) /\ resets' = resets
      /\ ptr' = [ptr EXCEPT ![x] = NULL] /\ size' = [size EXCEPT ![x] = 0]
  BY DEF Free, Hold
<1>3. ptr[x] \in HeldOf(B, al) /\ Whole(heap, B, sz, al)
  BY <1>1, <1>2, ServedBlocks DEF Served
<1>4. PICK C, tz, am : Left(HeldOf(B, al) \ {ptr[x]}, heap, sz, mm_free(heap, ptr[x]), C, tz, am)
  BY <1>3, FreeBlock
<1>5. Served(mm_free(heap, ptr[x]), [ptr EXCEPT ![x] = NULL], [size EXCEPT ![x] = 0], C, tz, am)
  BY <1>1, <1>2, <1>4, Release
<1>6. Served(heap', ptr', size', C, tz, am)
  BY <1>2, <1>5
<1> QED
  BY <1>2, <1>6 DEF HeapInv

\* Malloc,
LEMMA InvMalloc ==
    ASSUME RequestsFit, HeapInv, NEW x \in Handle, NEW n \in Sizes, Malloc(x, n)
    PROVE  HeapInv'
<1>1. PICK B, sz, al : Served(heap, ptr, size, B, sz, al)
  BY DEF HeapInv
<1> DEFINE r == mm_malloc(heap, n)  H == HeldOf(B, al)
<1>2. /\ ptr[x] = NULL
      /\ IF r.bp = NULL THEN heap' = r.heap /\ UNCHANGED <<ptr, size, resets>>
         ELSE heap' = Write(r.heap, x, r.bp, n, 0) /\ Hold(x, r.bp, n)
  BY DEF Malloc
<1>3. Whole(heap, B, sz, al) /\ NULL \notin H
  BY <1>1 DEF Served
<1>4. /\ r.bp = NULL => r.heap = heap
      /\ r.bp # NULL =>
            \E C, tz, am : /\ Whole(r.heap, C, tz, am)
                           /\ HeldOf(C, am) = H \cup {r.bp} /\ r.bp \notin H
                           /\ tz[r.bp] >= n + 8 /\ Kept(H, heap, sz, r.heap, tz)
  BY <1>3, MmMalloc
<1> HIDE DEF r
<1>5. CASE r.bp = NULL
  BY <1>2, <1>4, <1>5 DEF HeapInv
<1>6. CASE r.bp # NULL
  <2>1. PICK C, tz, am : /\ Whole(r.heap, C, tz, am)
                         /\ HeldOf(C, am) = H \cup {r.bp} /\ r.bp \notin H
                         /\ tz[r.bp] >= n + 8 /\ Kept(H, heap, sz, r.heap, tz)
    BY <1>4, <1>6
  <2>2. H \ {ptr[x]} = H
    BY <1>2, <1>3
  <2>3. \A q \in Word : ~(r.bp <= q /\ q < r.bp + 0)
    <3>1. r.bp \in HeldOf(C, am)
      BY <2>1
    <3>2. r.bp \in Int
      BY <2>1, <3>1, BlockIsAligned
    <3> QED
      BY <3>2, IsWord, HeapConstants
  <2>4. Served(Write(r.heap, x, r.bp, n, 0), [ptr EXCEPT ![x] = r.bp], [size EXCEPT ![x] = n], C, tz, am)
    <3>1. /\ HeldOf(C, am) = (H \ {ptr[x]}) \cup {r.bp} /\ r.bp \notin H \ {ptr[x]}
          /\ Kept(H \ {ptr[x]}, heap, sz, r.heap, tz) /\ 0 \in Nat
          /\ \A q \in Word : r.bp <= q /\ q < r.bp + 0 => r.heap.mem[q] = x
      BY <2>1, <2>2, <2>3
    <3> QED
      BY <1>1, <2>1, <3>1, Serve
  <2>5. /\ heap' = Write(r.heap, x, r.bp, n, 0) /\ ptr' = [ptr EXCEPT ![x] = r.bp]
        /\ size' = [size EXCEPT ![x] = n] /\ resets' = resets
    BY <1>2, <1>6 DEF Hold
  <2>6. Served(heap', ptr', size', C, tz, am)
    BY <2>4, <2>5
  <2> QED
    BY <2>5, <2>6 DEF HeapInv
<1> QED
  BY <1>5, <1>6

\* Realloc,
LEMMA InvRealloc ==
    ASSUME RequestsFit, HeapInv, NEW x \in Handle, NEW n \in Sizes, Realloc(x, n)
    PROVE  HeapInv'
<1>1. PICK B, sz, al : Served(heap, ptr, size, B, sz, al)
  BY DEF HeapInv
<1> DEFINE r == mm_realloc(heap, ptr[x], n)  H == HeldOf(B, al)  old == ptr[x]
<1>2. /\ old # NULL
      /\ IF r.bp # NULL THEN heap' = Write(r.heap, x, r.bp, n, size[x]) /\ Hold(x, r.bp, n)
         ELSE IF n = 0 THEN heap' = r.heap /\ Hold(x, NULL, 0)
         ELSE heap' = r.heap /\ UNCHANGED <<ptr, size, resets>>
  BY DEF Realloc
<1>3. Whole(heap, B, sz, al) /\ old \in H /\ size[x] \in Nat /\ sz[old] \in Int /\ old \in Int
  BY <1>1, <1>2, ServedBlocks DEF Served
<1>4. /\ sz[old] >= size[x] + 8
      /\ \A q \in Word : old <= q /\ q < old + size[x] => heap.mem[q] = x
  BY <1>1, <1>2 DEF Served
<1>5. /\ r.bp # NULL =>
            \E C, tz, am : /\ Whole(r.heap, C, tz, am)
                           /\ HeldOf(C, am) = (H \ {old}) \cup {r.bp} /\ r.bp \notin H \ {old}
                           /\ tz[r.bp] >= n + 8
                           /\ Kept(H \ {old}, heap, sz, r.heap, tz) /\ Brought(heap, sz, old, r.heap, r.bp)
      /\ r.bp = NULL /\ n = 0 => \E C, tz, am : Left(H \ {old}, heap, sz, r.heap, C, tz, am)
      /\ r.bp = NULL /\ n # 0 => r.heap = heap
  <2> DEFINE P(h0, B0, sz0, al0, old0, n0) ==
               Whole(h0, B0, sz0, al0) /\ old0 \in HeldOf(B0, al0) /\ n0 \in Sizes =>
                 LET rr == mm_realloc(h0, old0, n0)
                     HH == HeldOf(B0, al0)
                 IN  /\ rr.bp # NULL =>
                           \E C, tz, am : /\ Whole(rr.heap, C, tz, am)
                                          /\ HeldOf(C, am) = (HH \ {old0}) \cup {rr.bp} /\ rr.bp \notin HH \ {old0}
                                          /\ tz[rr.bp] >= n0 + 8
                                          /\ Kept(HH \ {old0}, h0, sz0, rr.heap, tz)
                                          /\ Brought(h0, sz0, old0, rr.heap, rr.bp)
                     /\ rr.bp = NULL /\ n0 = 0 => \E C, tz, am : Left(HH \ {old0}, h0, sz0, rr.heap, C, tz, am)
                     /\ rr.bp = NULL /\ n0 # 0 => rr.heap = h0
  <2>1. \A h0, B0, sz0, al0, old0, n0 : P(h0, B0, sz0, al0, old0, n0)
    BY MmRealloc, Z3
  <2> HIDE DEF P
  <2>2. P(heap, B, sz, al, ptr[x], n)
    BY <2>1
  <2> QED
    BY <2>2, <1>3 DEF P
<1> HIDE DEF r
<1>6. CASE r.bp # NULL
  <2>1. PICK C, tz, am : /\ Whole(r.heap, C, tz, am)
                         /\ HeldOf(C, am) = (H \ {old}) \cup {r.bp} /\ r.bp \notin H \ {old}
                         /\ tz[r.bp] >= n + 8
                         /\ Kept(H \ {old}, heap, sz, r.heap, tz) /\ Brought(heap, sz, old, r.heap, r.bp)
    BY <1>5, <1>6
  <2>2. /\ r.bp \in Int /\ r.bp % 4 = 0 /\ old % 4 = 0
    <3>1. r.bp \in HeldOf(C, am)
      BY <2>1
    <3> QED
      BY <1>3, <2>1, <3>1, BlockIsAligned
  <2>3. ASSUME NEW q \in Word, r.bp <= q, q < r.bp + size[x] PROVE r.heap.mem[q] = x
    <3> DEFINE o == old + (q - r.bp)
    <3>1. q \in Int /\ q % 4 = 0 /\ MaxHeap \in Int
      BY IsWord, HeapConstants
    <3>2. o % 4 = 0 /\ old <= o /\ o < old + size[x] /\ o < old + sz[old] - 8 /\ r.bp + (o - old) = q /\ o \in Int
      <4> HIDE DEF old
      <4>1. old \in Int /\ size[x] \in Nat /\ sz[old] \in Int /\ sz[old] >= size[x] + 8 /\ r.bp \in Int
        BY <1>3, <1>4, <2>2
      <4>2. o \in Int /\ o >= old /\ o < old + size[x] /\ r.bp + (o - old) = q
        BY <2>3, <3>1, <4>1
      <4>3. o % 4 = 0
        BY <2>2, <3>1, <4>1
      <4> HIDE DEF o
      <4>4. o < old + sz[old] - 8
        BY <4>1, <4>2
      <4> QED
        BY <4>2, <4>3, <4>4
    <3>3. o \in 0..MaxHeap - 4
      <4>1. old \in B /\ Shape(B, sz, heap.brk)
        BY <1>3 DEF Whole, Tiled, HeldOf
      <4>2. old >= 32 /\ old + sz[old] <= heap.brk /\ heap.brk <= MaxHeap /\ heap.brk \in Int
        BY <4>1, BlockWords
      <4> HIDE DEF o
      <4> QED
        BY <1>3, <3>1, <3>2, <4>2
    <3> HIDE DEF o, old
    <3>4. o \in Word
      BY <3>2, <3>3, IsWord
    <3>5. heap.mem[o] = x
      BY <1>4, <3>2, <3>4
    <3>6. r.heap.mem[r.bp + (o - old)] = heap.mem[o]
      BY <2>1, <3>2, <3>4 DEF Brought
    <3> QED
      BY <3>2, <3>5, <3>6
  <2>4. Served(Write(r.heap, x, r.bp, n, size[x]), [ptr EXCEPT ![x] = r.bp], [size EXCEPT ![x] = n], C, tz, am)
    BY <1>1, <1>3, <2>1, <2>3, Serve
  <2>5. /\ heap' = Write(r.heap, x, r.bp, n, size[x]) /\ ptr' = [ptr EXCEPT ![x] = r.bp]
        /\ size' = [size EXCEPT ![x] = n] /\ resets' = resets
    BY <1>2, <1>6 DEF Hold
  <2>6. Served(heap', ptr', size', C, tz, am)
    BY <2>4, <2>5
  <2> QED
    BY <2>5, <2>6 DEF HeapInv
<1>7. CASE r.bp = NULL /\ n = 0
  <2>1. PICK C, tz, am : Left(H \ {old}, heap, sz, r.heap, C, tz, am)
    BY <1>5, <1>7
  <2>2. Served(r.heap, [ptr EXCEPT ![x] = NULL], [size EXCEPT ![x] = 0], C, tz, am)
    BY <1>1, <1>2, <2>1, Release
  <2>3. /\ heap' = r.heap /\ ptr' = [ptr EXCEPT ![x] = NULL] /\ size' = [size EXCEPT ![x] = 0] /\ resets' = resets
    BY <1>2, <1>7 DEF Hold
  <2>4. Served(heap', ptr', size', C, tz, am)
    BY <2>2, <2>3
  <2> QED
    BY <2>3, <2>4 DEF HeapInv
<1>8. CASE r.bp = NULL /\ n # 0
  BY <1>2, <1>5, <1>8 DEF HeapInv
<1> QED
  BY <1>6, <1>7, <1>8

\* Reset,
LEMMA InvReset ==
    ASSUME HeapInv, Reset
    PROVE  HeapInv'
<1>1. PICK B, sz, al : Served(heap, ptr, size, B, sz, al)
  BY DEF HeapInv
<1>2. heap \in Heaps /\ heap.mem[24] = 0
  BY <1>1 DEF Served, Whole, Tiled, Front
<1>3. /\ heap' = mm_init(heap) /\ ptr' = [x \in Handle |-> NULL] /\ size' = [x \in Handle |-> 0]
      /\ resets' \in 0..Resets
  BY HeapConstants DEF Reset, HeapInv
<1>4. PICK C, tz, am : Served(mm_init(heap), [x \in Handle |-> NULL], [x \in Handle |-> 0], C, tz, am)
  BY <1>2, FreshServed
<1>5. Served(heap', ptr', size', C, tz, am)
  BY <1>3, <1>4
<1> QED
  BY <1>3, <1>5 DEF HeapInv

\* hence every step, keeps it.
LEMMA InvStep ==
    ASSUME RequestsFit
    PROVE  HeapInv /\ [Next]_vars => HeapInv'
<1> SUFFICES ASSUME HeapInv, [Next]_vars PROVE HeapInv'
  OBVIOUS
<1>1. ASSUME NEW x \in Handle, Free(x) PROVE HeapInv'
  BY <1>1, InvFree
<1>2. ASSUME NEW x \in Handle, NEW n \in Sizes, Malloc(x, n) PROVE HeapInv'
  BY <1>2, InvMalloc
<1>3. ASSUME NEW x \in Handle, NEW n \in Sizes, Realloc(x, n) PROVE HeapInv'
  BY <1>3, InvRealloc
<1>4. CASE Reset
  BY <1>4, InvReset
<1>5. CASE UNCHANGED vars
  BY <1>5 DEF HeapInv, vars
<1> QED
  BY <1>1, <1>2, <1>3, <1>4, <1>5 DEF Next

\* In every state the words of the heap are cut into blocks as HeapInv says,
\* for every heap size, chunk, number of users and sizes asked for.
THEOREM HeapInvariant == ASSUME RequestsFit PROVE Spec => []HeapInv
<1>1. Init => HeapInv
  BY InvInit
<1>2. HeapInv /\ [Next]_vars => HeapInv'
  BY InvStep
<1> QED
  BY <1>1, <1>2, PTL DEF Spec

-----------------------------------------------------------------------------
\* What the invariants of the module read: the walk over the headers meets
\* the blocks of HeapInv, and no others.

\* The walk is a function: at every address it is what its definition says.
LEMMA WalkDefined ==
    ASSUME heap \in Heaps
    PROVE  \E walk : /\ Walk = walk[32]
                     /\ \A bp \in 32..MaxHeap :
                           walk[bp] = IF bp > heap.brk \/ bp % 8 # 0 THEN {-1}
                                      ELSE IF heap.mem[HDRP(bp)] = PACK(0, 1)
                                           THEN IF bp = heap.brk THEN {} ELSE {-1}
                                      ELSE IF GET_SIZE(heap, HDRP(bp)) = 0 \/ NEXT_BLKP(heap, bp) > MaxHeap THEN {-1}
                                      ELSE {bp} \cup walk[NEXT_BLKP(heap, bp)]
<1> DEFINE S == 32..MaxHeap
           Out(bp) == bp > heap.brk \/ bp % 8 # 0
           End(bp) == heap.mem[HDRP(bp)] = PACK(0, 1)
           Bad(bp) == GET_SIZE(heap, HDRP(bp)) = 0 \/ NEXT_BLKP(heap, bp) > MaxHeap
           Body(f, bp) == IF Out(bp) THEN {-1}
                          ELSE IF End(bp) THEN IF bp = heap.brk THEN {} ELSE {-1}
                          ELSE IF Bad(bp) THEN {-1}
                          ELSE {bp} \cup f[NEXT_BLKP(heap, bp)]
           walk == CHOOSE f : f = [bp \in S |-> Body(f, bp)]
<1>1. Walk = walk[32]
  BY Zenon DEF Walk
<1>2. \E f : f = [bp \in S |-> Body(f, bp)]
  <2> DEFINE stop == {bp \in S : Out(bp) \/ End(bp) \/ Bad(bp)}
             v == [bp \in S |-> IF ~Out(bp) /\ End(bp) /\ bp = heap.brk THEN {} ELSE {-1}]
             next == [bp \in S |-> NEXT_BLKP(heap, bp)]
  <2>1. \A z \in S \ stop : next[z] \in S
    <3> SUFFICES ASSUME NEW z \in S \ stop PROVE next[z] \in S
      OBVIOUS
    <3>1. z \in S /\ ~Out(z) /\ ~Bad(z) /\ next[z] = NEXT_BLKP(heap, z)
      OBVIOUS
    <3>2. heap.brk \in Aligned /\ heap.mem \in [Word -> Nat] /\ \A q \in Aligned : q \in 0..MaxHeap
      BY Fields, IsAligned DEF Value
    <3>3. z \in Int /\ 32 <= z /\ z <= MaxHeap /\ z % 8 = 0 /\ MaxHeap \in Nat
      BY <3>1, HeapConstants
    <3>4. z - 4 \in Word
      BY <3>3, IsWord
    <3>5. GET_SIZE(heap, z - 4) \in Nat
      <4> DEFINE w == heap.mem[z - 4]
      <4>1. w \in Nat
        BY <3>2, <3>4
      <4> HIDE DEF w
      <4>2. w - (w % 8) \in Nat
        BY <4>1
      <4> QED
        BY <4>2 DEF w, GET_SIZE
    <3>6. NEXT_BLKP(heap, z) = z + GET_SIZE(heap, z - 4) /\ ~(NEXT_BLKP(heap, z) > MaxHeap)
      BY <3>1 DEF NEXT_BLKP
    <3> HIDE DEF next, stop, Out, End, Bad
    <3> QED
      BY <3>1, <3>3, <3>5, <3>6
  <2>2. PICK f : f = [x \in S |-> IF x \in stop THEN v[x] ELSE {x} \cup f[next[x]]]
    <3> HIDE DEF stop, v, next, S
    <3>1. \E f : f = [x \in S |-> IF x \in stop THEN v[x] ELSE {x} \cup f[next[x]]]
      <4> DEFINE P(S0, s0, n0, v0) ==
                    (\A z \in S0 \ s0 : n0[z] \in S0)
                       => \E f : f = [x \in S0 |-> IF x \in s0 THEN v0[x] ELSE {x} \cup f[n0[x]]]
      <4>1. \A S0, s0, n0, v0 : P(S0, s0, n0, v0)
        BY WalkExists, Zenon
      <4>2. P(S, stop, next, v)
        <5> HIDE DEF P
        <5> QED
          BY <4>1
      <4> QED
        BY <2>1, <4>2, Zenon
    <3> QED
      BY ONLY <3>1, Zenon
  <2>3. ASSUME NEW x \in S PROVE (IF x \in stop THEN v[x] ELSE {x} \cup f[next[x]]) = Body(f, x)
    <3>1. /\ x \in stop <=> Out(x) \/ End(x) \/ Bad(x)
          /\ v[x] = IF ~Out(x) /\ End(x) /\ x = heap.brk THEN {} ELSE {-1}
          /\ next[x] = NEXT_BLKP(heap, x)
      BY Zenon
    <3>2. Body(f, x) = IF Out(x) THEN {-1}
                       ELSE IF End(x) THEN IF x = heap.brk THEN {} ELSE {-1}
                       ELSE IF Bad(x) THEN {-1} ELSE {x} \cup f[NEXT_BLKP(heap, x)]
      BY Zenon
    <3> HIDE DEF Out, End, Bad, stop, v, next, Body, S
    <3> QED
      BY <3>1, <3>2
  <2>4. \A x \in S : f[x] = Body(f, x)
    <3> HIDE DEF Body, stop, v, next, S
    <3> QED
      BY <2>2, <2>3
  <2>5. f = [x \in S |-> f[x]]
    <3> HIDE DEF Body, stop, v, next, S
    <3> QED
      BY <2>2
  <2>6. f = [x \in S |-> Body(f, x)]
    <3> HIDE DEF Body, stop, v, next, S
    <3> QED
      BY <2>4, <2>5
  <2> QED
    BY <2>6
<1>3. walk = [bp \in S |-> Body(walk, bp)]
  BY <1>2, Zenon
<1>4. \A bp \in S : walk[bp] = Body(walk, bp)
  <2> HIDE DEF walk, Body
  <2> QED
    BY <1>3
<1> HIDE DEF walk
<1> QED
  BY <1>1, <1>4

\* By induction from the end of the heap: from a block the walk meets it and
\* the blocks behind it.
LEMMA WalkIsBlocks ==
    ASSUME NEW B, NEW sz, NEW al, Whole(heap, B, sz, al)
    PROVE  Walk = B
<1>1. /\ Tiled(heap, B, sz, al) /\ Epilogue(heap) /\ Tagged(heap, B, sz, al) /\ Shape(B, sz, heap.brk)
      /\ heap \in Heaps /\ al \in [B -> {0, 1}] /\ B \subseteq Aligned
  BY DEF Whole, Tiled, Shape
<1>2. PICK walk : /\ Walk = walk[32]
                  /\ \A bp \in 32..MaxHeap :
                        walk[bp] = IF bp > heap.brk \/ bp % 8 # 0 THEN {-1}
                                   ELSE IF heap.mem[HDRP(bp)] = PACK(0, 1)
                                        THEN IF bp = heap.brk THEN {} ELSE {-1}
                                   ELSE IF GET_SIZE(heap, HDRP(bp)) = 0 \/ NEXT_BLKP(heap, bp) > MaxHeap THEN {-1}
                                   ELSE {bp} \cup walk[NEXT_BLKP(heap, bp)]
  BY <1>1, WalkDefined
<1>3. heap.brk \in Int /\ heap.brk \in 32..MaxHeap /\ heap.brk % 8 = 0 /\ MaxHeap \in Nat
  <2>1. heap.brk \in Aligned /\ 32 <= heap.brk
    BY <1>1 DEF Shape
  <2> QED
    BY <2>1, IsAligned, HeapConstants
<1>4. \A b \in B : /\ b \in Int /\ b \in 32..MaxHeap /\ b % 8 = 0 /\ sz[b] \in Int /\ sz[b] >= 16
                   /\ b + sz[b] <= heap.brk /\ b + sz[b] \in B \cup {heap.brk}
  BY <1>1, <1>3, BlockWords, Neighbours
<1>5. walk[heap.brk] = {}
  <2>1. heap.mem[HDRP(heap.brk)] = PACK(0, 1)
    BY <1>1 DEF Epilogue, HDRP, PACK
  <2>2. ~(heap.brk > heap.brk \/ heap.brk % 8 # 0) /\ heap.brk \in 32..MaxHeap
    BY <1>3
  <2> QED
    BY <1>2, <2>1, <2>2, Zenon
<1>6. ASSUME NEW b \in B PROVE walk[b] = {b} \cup walk[b + sz[b]]
  <2>1. GET_SIZE(heap, HDRP(b)) = sz[b] /\ NEXT_BLKP(heap, b) = b + sz[b]
    BY <1>1, Reads
  <2>2. heap.mem[HDRP(b)] # PACK(0, 1)
    <3>1. heap.mem[b - 4] = sz[b] + al[b] /\ al[b] \in {0, 1}
      BY <1>1 DEF Tagged
    <3> QED
      BY <1>4, <3>1 DEF HDRP, PACK
  <2>3. ~(b > heap.brk \/ b % 8 # 0) /\ ~(sz[b] = 0 \/ b + sz[b] > MaxHeap) /\ b \in 32..MaxHeap
    BY <1>3, <1>4
  <2> QED
    BY <1>2, <2>1, <2>2, <2>3, Zenon
<1> DEFINE From(b) == {c \in B : c >= b}
           Wrong == {b \in B \cup {heap.brk} : walk[b] # From(b)}
           rank == [b \in Wrong |-> heap.brk - b]
<1>7. Wrong = {}
  <2> SUFFICES ASSUME Wrong # {} PROVE FALSE
    OBVIOUS
  <2>1. \A b \in Wrong : rank[b] \in 0..heap.brk /\ rank[b] = heap.brk - b /\ b \in Int /\ b \in B \cup {heap.brk}
    BY <1>3, <1>4
  <2>2. PICK b \in Wrong : \A c \in Wrong : rank[b] <= rank[c]
    <3> HIDE DEF Wrong, rank
    <3>0. heap.brk \in Nat
      BY <1>3
    <3>1. heap.brk \in Nat /\ Wrong # {} /\ \A b \in Wrong : rank[b] \in 0..heap.brk
      BY <3>0, <2>1
    <3> QED
      BY ONLY <3>1, RankExtremes
  <2>3. CASE b = heap.brk
    <3>1. \A c \in B : ~(c >= heap.brk)
      <4> SUFFICES ASSUME NEW c \in B PROVE ~(c >= heap.brk)
        OBVIOUS
      <4>1. c \in Int /\ sz[c] \in Int /\ sz[c] >= 16 /\ c + sz[c] <= heap.brk
        BY <1>4
      <4> QED
        BY ONLY <1>3, <4>1
    <3>2. From(heap.brk) = {}
      BY <3>1
    <3> QED
      BY <1>5, <2>3, <3>2
  <2>4. CASE b \in B
    <3> DEFINE y == b + sz[b]
    <3>1. y \in B \cup {heap.brk} /\ y \in Int /\ y > b
      BY <1>3, <1>4, <2>4
    <3>2. y \notin Wrong
      <4> SUFFICES ASSUME y \in Wrong PROVE FALSE
        OBVIOUS
      <4> HIDE DEF y, Wrong, rank
      <4> QED
        BY <1>3, <2>1, <2>2, <3>1
    <3>3. walk[y] = From(y)
      BY <3>1, <3>2
    <3>4. From(b) = {b} \cup From(y)
      <4>1. \A c \in B : c > b => c >= b + sz[b]
        BY <1>1, <2>4, Neighbours
      <4>2. \A c \in B : c >= b <=> c = b \/ c >= y
        <5> SUFFICES ASSUME NEW c \in B PROVE c >= b <=> c = b \/ c >= y
          OBVIOUS
        <5>1. c \in Int /\ b \in Int /\ (c > b => c >= y)
          BY <1>4, <2>4, <4>1
        <5> HIDE DEF y
        <5> QED
          BY <3>1, <5>1
      <4> HIDE DEF y
      <4> QED
        BY <2>4, <4>2
    <3>5. walk[b] = {b} \cup walk[y]
      BY <1>6, <2>4
    <3> QED
      BY <3>3, <3>4, <3>5
  <2> QED
    BY <2>1, <2>3, <2>4
<1>8. 32 \in B \cup {heap.brk}
  BY <1>1 DEF Shape
<1>9. walk[32] = From(32)
  BY <1>7, <1>8
<1>10. From(32) = B
  BY <1>4
<1> QED
  BY <1>2, <1>9, <1>10

\* The blocks of HeapInv are those the walk meets, with their tags.
LEMMA BlocksSeen ==
    ASSUME NEW B, NEW sz, NEW al, Served(heap, ptr, size, B, sz, al)
    PROVE  /\ Walk = B /\ -1 \notin B /\ FreeBlocks = FreeOf(B, al)
           /\ {bp \in Walk : bp = -1 \/ ~IsFree(bp)} = HeldOf(B, al)
           /\ \A b \in B : /\ SizeOf(b) = sz[b] /\ sz[b] >= 16 /\ (IsFree(b) <=> al[b] = 0)
                           /\ NEXT_BLKP(heap, b) = b + sz[b]
                           /\ heap.mem[FTRP(heap, b)] = heap.mem[HDRP(b)]
<1>1. /\ Whole(heap, B, sz, al) /\ Tiled(heap, B, sz, al) /\ Epilogue(heap) /\ Tagged(heap, B, sz, al)
      /\ Shape(B, sz, heap.brk) /\ al \in [B -> {0, 1}]
  BY DEF Served, Whole, Tiled
<1>2. Walk = B
  BY <1>1, WalkIsBlocks
<1>3. -1 \notin B
  BY <1>1, BlockWords
<1>4. ASSUME NEW b \in B
      PROVE  /\ SizeOf(b) = sz[b] /\ sz[b] >= 16 /\ (IsFree(b) <=> al[b] = 0)
             /\ NEXT_BLKP(heap, b) = b + sz[b]
             /\ heap.mem[FTRP(heap, b)] = heap.mem[HDRP(b)]
  <2>1. /\ GET_SIZE(heap, HDRP(b)) = sz[b] /\ GET_ALLOC(heap, HDRP(b)) = al[b]
        /\ FTRP(heap, b) = b + sz[b] - 8 /\ NEXT_BLKP(heap, b) = b + sz[b]
    BY <1>1, Reads
  <2>2. heap.mem[b - 4] = heap.mem[b + sz[b] - 8]
    BY <1>1 DEF Tagged
  <2>3. sz[b] >= 16
    BY <1>1, BlockWords
  <2> QED
    BY <2>1, <2>2, <2>3 DEF SizeOf, IsFree, HDRP
<1>5. FreeBlocks = FreeOf(B, al)
  BY <1>2, <1>3, <1>4 DEF FreeBlocks, FreeOf
<1>6. {bp \in Walk : bp = -1 \/ ~IsFree(bp)} = HeldOf(B, al)
  BY <1>1, <1>2, <1>3, <1>4 DEF HeldOf
<1> QED
  BY <1>2, <1>3, <1>4, <1>5, <1>6

\* HeapInv implies each invariant of the module.
LEMMA TilesHeap == HeapInv => HeapTiled
<1> SUFFICES ASSUME HeapInv PROVE HeapTiled
  OBVIOUS
<1>1. PICK B, sz, al : Served(heap, ptr, size, B, sz, al)
  BY DEF HeapInv
<1>2. /\ Walk = B /\ -1 \notin B
      /\ \A b \in B : SizeOf(b) = sz[b] /\ sz[b] >= 16 /\ heap.mem[FTRP(heap, b)] = heap.mem[HDRP(b)]
  BY <1>1, BlocksSeen
<1>3. TypeOK
  <2>1. heap \in Heaps
    BY <1>1 DEF Served, Whole, Tiled
  <2>2. heap \in [mem : [Word -> Int], brk : Aligned, heap_listp : Aligned]
    BY <2>1 DEF Heaps, Value
  <2> QED
    BY <1>1, <2>2 DEF HeapInv, TypeOK, Served
<1> QED
  BY <1>2, <1>3 DEF HeapTiled

\* The back link of a block is the only block that CHOOSE can choose.
LEMMA ListIsExact == HeapInv => FreeListExact
<1> SUFFICES ASSUME HeapInv PROVE FreeListExact
  OBVIOUS
<1>1. PICK B, sz, al : Served(heap, ptr, size, B, sz, al)
  BY DEF HeapInv
<1> DEFINE F == FreeBlocks  succ == [bp \in F |-> NEXT_FP(heap, bp)]
<1>2. F = FreeOf(B, al) /\ -1 \notin F
  <2>1. FreeBlocks = FreeOf(B, al) /\ -1 \notin B
    BY <1>1, BlocksSeen
  <2> QED
    BY <2>1 DEF FreeOf
<1>3. PICK rank, N : Linked(heap, F, rank, N)
  BY <1>1, <1>2 DEF Served, Whole, Listed
<1>4. heap.heap_listp \in F \cup {8}
  BY <1>3 DEF Linked
<1>5. ASSUME NEW b \in F
      PROVE  /\ succ[b] = heap.mem[b + 4] /\ succ[b] \in F \cup {8} /\ heap.mem[succ[b]] = b
             /\ heap.mem[b] = NULL <=> b = heap.heap_listp
             /\ heap.mem[b] # NULL => heap.mem[b] \in F /\ succ[heap.mem[b]] = b
  <2>1. \A c \in F : succ[c] = heap.mem[c + 4]
    BY DEF NEXT_FP
  <2> HIDE DEF succ, F
  <2> QED
    BY <1>3, <2>1 DEF Linked
<1>6. ASSUME NEW bp \in F
      PROVE  PREV_FP(heap, bp) = IF bp = heap.heap_listp THEN NULL
                                 ELSE CHOOSE b \in F \cup {-1} :
                                          IF b = -1 THEN \A d \in F : succ[d] # bp
                                          ELSE succ[b] = bp
  <2> DEFINE Q(b) == IF b = -1 THEN \A d \in F : succ[d] # bp ELSE succ[b] = bp
             p == heap.mem[bp]
  <2> HIDE DEF F, succ
  <2>1. CASE bp = heap.heap_listp
    BY <1>5, <2>1 DEF PREV_FP
  <2>2. CASE bp # heap.heap_listp
    <3>1. p \in F /\ succ[p] = bp
      BY <1>5, <2>2
    <3>2. Q(p)
      BY <1>2, <3>1
    <3>3. ASSUME NEW b \in F \cup {-1}, Q(b) PROVE b = p
      <4>1. b # -1
        BY <3>1, <3>3
      <4>2. b \in F /\ succ[b] = bp
        BY <3>3, <4>1
      <4> QED
        BY <1>5, <4>2
    <3> HIDE DEF Q
    <3>4. p = CHOOSE b \in F \cup {-1} : Q(b)
      BY <3>1, <3>2, <3>3
    <3> QED
      BY <2>2, <3>4 DEF Q, PREV_FP
  <2> QED
    BY <2>1, <2>2
<1>7. \A b, d \in F : b # d => succ[b] # succ[d]
  <2> HIDE DEF F, succ
  <2> QED
    BY <1>5
<1>8. \A b \in F : succ[b] \in F \cup {8}
  BY <1>5
<1>9. ASSUME NEW ring \in (SUBSET F) \ {{}} PROVE \E b \in ring : succ[b] \notin ring
  <2>1. \A b \in F : succ[b] = heap.mem[b + 4]
    BY <1>5
  <2>2. 8 \notin F
    <3>1. \A b \in B : 32 <= b
      <4>1. Shape(B, sz, heap.brk)
        BY <1>1 DEF Served, Whole, Tiled
      <4> QED
        BY ONLY <4>1 DEF Shape
    <3>2. F \subseteq B
      BY <1>2 DEF FreeOf
    <3> HIDE DEF F, succ
    <3>3. 8 \in F => 32 <= 8
      BY <3>1, <3>2
    <3> QED
      BY ONLY <3>3
  <2> HIDE DEF F, succ
  <2>3. N \in Nat /\ ring # {} /\ ring \subseteq F /\ \A b \in F : rank[b] \in 0..N
    BY <1>3, <1>9 DEF Linked
  <2>4. PICK b \in ring : \A d \in ring : rank[b] <= rank[d]
    <3>1. \A b \in ring : rank[b] \in 0..N
      BY <2>3
    <3> QED
      BY ONLY <2>3, <3>1, RankExtremes
  <2>5. SUFFICES ASSUME succ[b] \in ring PROVE FALSE
    BY <2>4
  <2>6. b \in F /\ succ[b] \in F /\ succ[b] # 8
    BY <2>2, <2>3, <2>4, <2>5
  <2>7. rank[succ[b]] < rank[b]
    BY <1>3, <2>1, <2>6 DEF Linked
  <2>8. rank[b] <= rank[succ[b]] /\ rank[b] \in Int /\ rank[succ[b]] \in Int
    BY <2>3, <2>4, <2>5, <2>6
  <2> QED
    BY ONLY <2>7, <2>8
<1> QED
  BY <1>4, <1>6, <1>7, <1>8, <1>9, Zenon DEF FreeListExact

\* Lone says it of the blocks.
LEMMA FreeAreApart == HeapInv => Coalesced
<1> SUFFICES ASSUME HeapInv PROVE Coalesced
  OBVIOUS
<1>1. PICK B, sz, al : Served(heap, ptr, size, B, sz, al)
  BY DEF HeapInv
<1>2. /\ FreeBlocks = FreeOf(B, al)
      /\ \A b \in FreeOf(B, al) : NEXT_BLKP(heap, b) = b + sz[b]
  BY <1>1, BlocksSeen DEF FreeOf
<1>3. Lone(sz, FreeOf(B, al))
  BY <1>1 DEF Served, Whole
<1> QED
  BY <1>2, <1>3 DEF Coalesced, Lone

\* Served says it of the blocks.
LEMMA NothingLost == HeapInv => NoLeak
<1> SUFFICES ASSUME HeapInv PROVE NoLeak
  OBVIOUS
<1>1. PICK B, sz, al : Served(heap, ptr, size, B, sz, al)
  BY DEF HeapInv
<1>2. {bp \in Walk : bp = -1 \/ ~IsFree(bp)} = HeldOf(B, al)
  BY <1>1, BlocksSeen
<1>3. HeldOf(B, al) = {ptr[x] : x \in Handle} \ {NULL}
  BY <1>1 DEF Served
<1> QED
  BY <1>2, <1>3 DEF NoLeak

\* Served says it of the words of a block.
LEMMA DataStays == HeapInv => PayloadIntact
<1> SUFFICES ASSUME HeapInv, NEW x \in Handle, NEW q \in ptr[x]..(ptr[x] + size[x] - 1), q % 4 = 0
             PROVE  heap.mem[q] = x
  BY DEF PayloadIntact
<1>1. PICK B, sz, al : Served(heap, ptr, size, B, sz, al)
  BY DEF HeapInv
<1>2. CASE ptr[x] = NULL
  <2>1. size[x] = 0
    BY <1>1, <1>2 DEF Served
  <2>2. q \in 0..(0 + 0 - 1)
    BY <1>2, <2>1 DEF NULL
  <2> QED
    BY <2>2
<1>3. CASE ptr[x] # NULL
  <2>1. /\ ptr[x] \in B /\ sz[ptr[x]] \in Int /\ ptr[x] \in Int /\ size[x] \in Nat
        /\ sz[ptr[x]] >= size[x] + 8 /\ Shape(B, sz, heap.brk)
    BY <1>1, <1>3, ServedBlocks DEF Served, Whole, Tiled
  <2>2. ptr[x] >= 32 /\ ptr[x] + sz[ptr[x]] <= heap.brk /\ heap.brk \in 0..MaxHeap
    BY <2>1, BlockWords
  <2>3. q \in Int /\ ptr[x] <= q /\ q < ptr[x] + size[x]
    BY <2>1
  <2>4. q \in 0..MaxHeap - 4
    BY <2>1, <2>2, <2>3, HeapConstants
  <2>5. q \in Word
    BY <2>4, IsWord
  <2> QED
    BY <1>1, <1>3, <2>3, <2>5 DEF Served
<1> QED
  BY <1>2, <1>3

\* Served says it of the sizes.
LEMMA BlocksFit == HeapInv => BlockFits
<1> SUFFICES ASSUME HeapInv, NEW x \in Handle, ptr[x] # NULL PROVE SizeOf(ptr[x]) >= size[x] + 8
  BY DEF BlockFits
<1>1. PICK B, sz, al : Served(heap, ptr, size, B, sz, al)
  BY DEF HeapInv
<1>2. ptr[x] \in B
  BY <1>1, ServedBlocks
<1>3. SizeOf(ptr[x]) = sz[ptr[x]]
  BY <1>1, <1>2, BlocksSeen
<1> QED
  BY <1>1, <1>3 DEF Served

\* MmMalloc says when the result is NULL.
LEMMA OnlyWhenFull == ASSUME RequestsFit PROVE HeapInv => FailsOnlyWhenFull
<1> SUFFICES ASSUME HeapInv, NEW n \in Sizes \ {0}, mm_malloc(heap, n).bp = NULL
             PROVE  /\ mm_malloc(heap, n).heap = heap
                    /\ \A bp \in FreeBlocks : SizeOf(bp) < Adjusted(n)
                    /\ heap.brk + (IF Adjusted(n) > Chunk THEN Adjusted(n) ELSE Chunk) > MaxHeap
  BY DEF FailsOnlyWhenFull
<1>1. PICK B, sz, al : Served(heap, ptr, size, B, sz, al)
  BY DEF HeapInv
<1>2. Whole(heap, B, sz, al)
  BY <1>1 DEF Served
<1>3. /\ mm_malloc(heap, n).heap = heap
      /\ \A c \in FreeOf(B, al) : sz[c] < Adjusted(n)
      /\ heap.brk + (IF Adjusted(n) > Chunk THEN Adjusted(n) ELSE Chunk) > MaxHeap
  BY <1>2, MmMalloc, Z3
<1>4. FreeBlocks = FreeOf(B, al) /\ \A b \in FreeOf(B, al) : SizeOf(b) = sz[b]
  BY <1>1, BlocksSeen DEF FreeOf
<1> QED
  BY <1>3, <1>4

-----------------------------------------------------------------------------
\* The invariants of the module.

\* After every call the blocks tile the heap from the first one to the
\* epilogue, each with room for its tags and links and a footer equal to its
\* header: mm_malloc, mm_free, mm_realloc and mm_init leave no gap, overlap
\* or stale tag.
THEOREM HeapAlwaysTiled == ASSUME RequestsFit PROVE Spec => []HeapTiled
BY HeapInvariant, TilesHeap, PTL

\* The list that add_free and remove_free keep holds every free block once
\* and nothing else, is linked both ways and ends at the prologue.
THEOREM FreeListAlwaysExact == ASSUME RequestsFit PROVE Spec => []FreeListExact
BY HeapInvariant, ListIsExact, PTL

\* No two neighbours are both free: whatever order blocks are freed, split
\* and extended in, coalesce has merged them.
THEOREM AlwaysCoalesced == ASSUME RequestsFit PROVE Spec => []Coalesced
BY HeapInvariant, FreeAreApart, PTL

\* The blocks marked allocated are exactly those the user holds.
THEOREM NeverLeaks == ASSUME RequestsFit PROVE Spec => []NoLeak
BY HeapInvariant, NothingLost, PTL

\* What a user has written in a block stays until it frees the block, and
\* mm_realloc brings it along.
THEOREM PayloadAlwaysIntact == ASSUME RequestsFit PROVE Spec => []PayloadIntact
BY HeapInvariant, DataStays, PTL

\* A block is as large as the size it was asked for, tags apart.
THEOREM BlocksAlwaysFit == ASSUME RequestsFit PROVE Spec => []BlockFits
BY HeapInvariant, BlocksFit, PTL

\* mm_malloc gives up only when no free block fits and the area has no room
\* for the extension, and leaves the heap as it was.
THEOREM FailsAlwaysWhenFull == ASSUME RequestsFit PROVE Spec => []FailsOnlyWhenFull
BY HeapInvariant, OnlyWhenFull, PTL

=============================================================================
