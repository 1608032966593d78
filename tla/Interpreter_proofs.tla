------------------------- MODULE Interpreter_proofs -------------------------
(***************************************************************************)
(* Proofs about the lists, the bitmap and the whole session of the         *)
(* interpreter.                                                            *)
(*                                                                         *)
(* The functions of list.c follow pointers; what is said of them is said   *)
(* of sequences.  Holds, below, relates the two: memory m holds the        *)
(* sequences S.  For each function there is a lemma that gives the         *)
(* sequences it leaves.  A function with a loop has one more, an invariant *)
(* of its rounds, and LoopRuns and LoopStays carry it from the first round *)
(* to the last.                                                            *)
(***************************************************************************)
EXTENDS Interpreter, PintosHash_proofs, SequenceTheorems

-----------------------------------------------------------------------------
(* Loops.                                                                  *)

\* What is in I[0] before the first round and goes from I[k - 1] to I[k] in
\* round k is in I[k] after it.
LEMMA LoopStays ==
    ASSUME NEW n \in Nat, NEW I, NEW f, f[0] \in I[0],
           \A k \in 1 .. n : f[k - 1] \in I[k - 1] => f[k] \in I[k]
    PROVE  \A k \in 0 .. n : f[k] \in I[k]
<1> DEFINE T == {k \in 0 .. n : f[k] \in I[k]}
<1>1. 0 \in T
  OBVIOUS
<1>2. ASSUME NEW k \in 0 .. n - 1, k \in T PROVE k + 1 \in T
  <2>1. k + 1 \in 1 .. n /\ (k + 1) - 1 = k /\ k + 1 \in 0 .. n
    OBVIOUS
  <2>2. f[k] \in I[k]
    BY <1>2
  <2> QED
    BY <2>1, <2>2
<1> HIDE DEF T
<1>3. 0 .. n \subseteq T
  BY <1>1, <1>2, Induct
<1> QED
  BY <1>3 DEF T

\* f says what a loop from x with round k in g[k] makes of x, round by round,
\* and I where it is.
Turns(f, n, x, g, I) ==
    /\ f = [k \in 0 .. n |-> IF k = 0 THEN x ELSE g[k][f[k - 1]]]
    /\ \A k \in 0 .. n : f[k] \in I[k]

\* Such a loop runs.
LEMMA LoopRuns ==
    ASSUME NEW n \in Nat, NEW I, NEW x \in I[0], NEW g,
           \A k \in 1 .. n : \A c0 \in I[k - 1] : g[k][c0] \in I[k]
    PROVE  \E f : Turns(f, n, x, g, I)
<1> DEFINE Runs(f, j) == f = [k \in 0 .. j |-> IF k = 0 THEN x ELSE g[k][f[k - 1]]]
           T == {j \in 0 .. n : \E f : Runs(f, j)}
<1>1. 0 \in T
  <2> DEFINE f == [k \in 0 .. 0 |-> x]
  <2>1. f = [k \in 0 .. 0 |-> IF k = 0 THEN x ELSE g[k][f[k - 1]]]
    OBVIOUS
  <2>2. Runs(f, 0)
    BY <2>1
  <2> HIDE DEF Runs, f
  <2> QED
    BY <2>2
<1>2. ASSUME NEW j \in 0 .. n - 1, j \in T PROVE j + 1 \in T
  <2>1. PICK f : Runs(f, j)
    BY <1>2
  <2> DEFINE h == [k \in 0 .. j + 1 |-> IF k = j + 1 THEN g[j + 1][f[j]] ELSE f[k]]
  <2>2. \A k \in 0 .. j : f[k] = IF k = 0 THEN x ELSE g[k][f[k - 1]]
    BY <2>1
  <2>3. ASSUME NEW k \in 0 .. j + 1
        PROVE  h[k] = IF k = 0 THEN x ELSE g[k][h[k - 1]]
    <3>1. CASE k = 0
      BY <3>1, <2>2
    <3>2. CASE k # 0
      <4>1. k - 1 \in 0 .. j /\ k - 1 \in 0 .. j + 1 /\ k - 1 # j + 1
        BY <3>2
      <4>2. h[k - 1] = f[k - 1]
        BY <4>1
      <4> QED
        BY <3>2, <4>1, <4>2, <2>2
    <3> QED
      BY <3>1, <3>2
  <2>4. h = [k \in 0 .. j + 1 |-> h[k]]
    OBVIOUS
  <2> HIDE DEF h
  <2>5. h = [k \in 0 .. j + 1 |-> IF k = 0 THEN x ELSE g[k][h[k - 1]]]
    BY <2>3, <2>4
  <2>6. Runs(h, j + 1) /\ j + 1 \in 0 .. n
    BY <2>5
  <2> HIDE DEF Runs
  <2> QED
    BY <2>6
<1> HIDE DEF T
<1>3. 0 .. n \subseteq T
  BY <1>1, <1>2, Induct
<1>4. n \in T
  BY <1>3
<1>5. PICK f : Runs(f, n)
  BY <1>4 DEF T
<1>6. f[0] = x /\ \A k \in 1 .. n : f[k] = g[k][f[k - 1]]
  BY <1>5
<1>7. \A k \in 0 .. n : f[k] \in I[k]
  BY <1>6, LoopStays
<1> QED
  BY <1>5, <1>7 DEF Turns

-----------------------------------------------------------------------------
(* What is in the lists.  S says of each list in use which elements it has *)
(* and in which order; Holds says that the memory m is such that it has.   *)

\* Memories of the cells of the lists.
ListMemory == [next : [ListCells -> ListCells \cup {Null}],
               prev : [ListCells -> ListCells \cup {Null}]]

\* The cells of list l with elements s: the head is number 0, the tail the last.
Cell(s, l, k) == IF k = 0 THEN ListHead(l) ELSE IF k = Len(s) + 1 THEN ListTail(l) ELSE s[k]

\* In m the cells of l with elements s are linked both ways, in this order.
Lined(m, l, s) ==
    /\ m.prev[ListHead(l)] = Null /\ m.next[ListTail(l)] = Null
    /\ \A k \in 0 .. Len(s) : /\ m.next[Cell(s, l, k)] = Cell(s, l, k + 1)
                              /\ m.prev[Cell(s, l, k + 1)] = Cell(s, l, k)

\* No element is in two places.
Apart(S) ==
    /\ DOMAIN S \subseteq Lists /\ S \in [DOMAIN S -> Seq(Elems)]
    /\ \A k, l \in DOMAIN S : \A i \in 1 .. Len(S[k]), j \in 1 .. Len(S[l]) :
          S[k][i] = S[l][j] => k = l /\ i = j

\* Nothing is linked to the head and the tail of a list not in use.
Idle(m, l) == \A c \in {ListHead(l), ListTail(l)} : m.next[c] = Null /\ m.prev[c] = Null

\* Memory m holds the sequences S: a list of its domain has the elements that
\* S says, and no other list has any.
Holds(m, S) ==
    /\ m \in ListMemory /\ Apart(S)
    /\ \A l \in DOMAIN S : Lined(m, l, S[l])
    /\ \A l \in Lists \ DOMAIN S : Idle(m, l)

\* Such a memory is one, with no element in two places.
LEMMA HoldsIs ==
    ASSUME NEW m, NEW S, Holds(m, S)
    PROVE  m \in ListMemory /\ Apart(S)
BY DEF Holds

\* Heads, tails, elements and NULL are different things.
LEMMA ListKinds ==
    /\ \A k, l : ListHead(k) = ListHead(l) => k = l
    /\ \A k, l : ListTail(k) = ListTail(l) => k = l
    /\ \A k, l : ListHead(k) # ListTail(l)
    /\ \A l : ListHead(l) # Null /\ ListTail(l) # Null
    /\ \A e \in Elems : e # Null /\ \A l : e # ListHead(l) /\ e # ListTail(l)
BY DEF ListHead, ListTail, Null, Elems, Elem

\* What can be a cell.
LEMMA IsListCell ==
    /\ Elems \subseteq ListCells
    /\ \A l \in Lists : ListHead(l) \in ListCells /\ ListTail(l) \in ListCells
    /\ \A c \in ListCells : c # Null
BY ListKinds DEF ListCells

\* There are finitely many.
LEMMA FiniteCells ==
    /\ IsFiniteSet(ListCells) /\ Cardinality(ListCells) \in Nat
    /\ IsFiniteSet(Elems) /\ Cardinality(Elems) \in Nat
    /\ Cardinality(Elems) <= Cardinality(ListCells)
<1> DEFINE heads == {ListHead(l) : l \in Lists}
           tails == {ListTail(l) : l \in Lists}
           f == [i \in Items |-> Elem(i)]
           g == [l \in Lists |-> ListHead(l)]
           h == [l \in Lists |-> ListTail(l)]
<1>1. f \in Surjection(Items, Elems) /\ g \in Surjection(Lists, heads) /\ h \in Surjection(Lists, tails)
  BY DEF Surjection, Elems
<1> HIDE DEF f, g, h, heads, tails
<1>2. IsFiniteSet(Elems) /\ IsFiniteSet(heads) /\ IsFiniteSet(tails)
  BY <1>1, ListConstants, FS_Surjection
<1>3. IsFiniteSet(ListCells)
  <2>1. IsFiniteSet(Elems \cup heads)
    BY <1>2, FS_Union
  <2>2. IsFiniteSet((Elems \cup heads) \cup tails)
    BY <2>1, <1>2, FS_Union
  <2> QED
    BY <2>2 DEF ListCells, heads, tails
<1> QED
  BY <1>2, <1>3, IsListCell, FS_Subset, FS_CardinalityType

\* Assignments to links.
LEMMA SetNextIs ==
    ASSUME NEW m \in ListMemory, NEW e \in ListCells, NEW to \in ListCells \cup {Null}
    PROVE  /\ SetNext(m, e, to) \in ListMemory
           /\ SetNext(m, e, to).prev = m.prev
           /\ \A c \in ListCells : SetNext(m, e, to).next[c] = IF c = e THEN to ELSE m.next[c]
BY DEF SetNext, ListMemory

\* The same for prev.
LEMMA SetPrevIs ==
    ASSUME NEW m \in ListMemory, NEW e \in ListCells, NEW to \in ListCells \cup {Null}
    PROVE  /\ SetPrev(m, e, to) \in ListMemory
           /\ SetPrev(m, e, to).next = m.next
           /\ \A c \in ListCells : SetPrev(m, e, to).prev[c] = IF c = e THEN to ELSE m.prev[c]
BY DEF SetPrev, ListMemory

\* The cells of a list.
LEMMA CellIs ==
    ASSUME NEW S, Apart(S), NEW l \in DOMAIN S
    PROVE  /\ l \in Lists /\ S[l] \in Seq(Elems) /\ Len(S[l]) \in Nat
           /\ Cell(S[l], l, 0) = ListHead(l) /\ Cell(S[l], l, Len(S[l]) + 1) = ListTail(l)
           /\ \A k \in 1 .. Len(S[l]) : Cell(S[l], l, k) = S[l][k] /\ S[l][k] \in Elems
           /\ \A k \in 0 .. Len(S[l]) + 1 : Cell(S[l], l, k) \in ListCells
<1>1. l \in Lists /\ S[l] \in Seq(Elems) /\ Len(S[l]) \in Nat
  BY DEF Apart
<1>2. \A k \in 1 .. Len(S[l]) : S[l][k] \in Elems
  BY <1>1, ElementOfSeq
<1>3. \A k \in 0 .. Len(S[l]) + 1 : k = 0 \/ k = Len(S[l]) + 1 \/ k \in 1 .. Len(S[l])
  BY <1>1
<1>4. Len(S[l]) + 1 # 0 /\ \A k \in 1 .. Len(S[l]) : k # 0 /\ k # Len(S[l]) + 1
  BY <1>1
<1> QED
  BY <1>1, <1>2, <1>3, <1>4, IsListCell DEF Cell

\* Each is in one place.
LEMMA CellOnce ==
    ASSUME NEW S, Apart(S), NEW k \in DOMAIN S, NEW l \in DOMAIN S,
           NEW i \in 0 .. Len(S[k]) + 1, NEW j \in 0 .. Len(S[l]) + 1,
           Cell(S[k], k, i) = Cell(S[l], l, j)
    PROVE  k = l /\ i = j
<1>1. /\ Len(S[k]) \in Nat
      /\ Cell(S[k], k, 0) = ListHead(k) /\ Cell(S[k], k, Len(S[k]) + 1) = ListTail(k)
      /\ \A n \in 1 .. Len(S[k]) : Cell(S[k], k, n) = S[k][n] /\ S[k][n] \in Elems
  BY CellIs
<1>2. /\ Len(S[l]) \in Nat
      /\ Cell(S[l], l, 0) = ListHead(l) /\ Cell(S[l], l, Len(S[l]) + 1) = ListTail(l)
      /\ \A n \in 1 .. Len(S[l]) : Cell(S[l], l, n) = S[l][n] /\ S[l][n] \in Elems
  BY CellIs
<1>3. i = 0 \/ i = Len(S[k]) + 1 \/ i \in 1 .. Len(S[k])
  BY <1>1
<1>4. j = 0 \/ j = Len(S[l]) + 1 \/ j \in 1 .. Len(S[l])
  BY <1>2
<1>5. CASE i = 0
  BY <1>1, <1>2, <1>4, <1>5, ListKinds
<1>6. CASE i = Len(S[k]) + 1
  BY <1>1, <1>2, <1>4, <1>6, ListKinds
<1>7. CASE i \in 1 .. Len(S[k])
  <2>1. j \in 1 .. Len(S[l])
    BY <1>1, <1>2, <1>4, <1>7, ListKinds
  <2> QED
    BY <1>1, <1>2, <1>7, <2>1 DEF Apart
<1> QED
  BY <1>3, <1>5, <1>6, <1>7

\* Heads and tails of lists not in use are in no list.
LEMMA IdleApart ==
    ASSUME NEW S, Apart(S), NEW x \in Lists \ DOMAIN S, NEW c \in {ListHead(x), ListTail(x)},
           NEW l \in DOMAIN S, NEW k \in 0 .. Len(S[l]) + 1
    PROVE  Cell(S[l], l, k) # c /\ c \in ListCells /\ c \notin Elems
<1>1. /\ Len(S[l]) \in Nat
      /\ Cell(S[l], l, 0) = ListHead(l) /\ Cell(S[l], l, Len(S[l]) + 1) = ListTail(l)
      /\ \A n \in 1 .. Len(S[l]) : Cell(S[l], l, n) = S[l][n] /\ S[l][n] \in Elems
  BY CellIs
<1>2. k = 0 \/ k = Len(S[l]) + 1 \/ k \in 1 .. Len(S[l])
  BY <1>1
<1>3. x # l /\ c \notin Elems /\ c \in ListCells
  BY ListKinds, IsListCell
<1>4. c # ListHead(l) /\ c # ListTail(l)
  BY <1>3, ListKinds
<1> QED
  BY <1>1, <1>2, <1>3, <1>4

\* What next and prev say.
LEMMA LinksAre ==
    ASSUME NEW m, NEW S, Holds(m, S), NEW l \in DOMAIN S, NEW k \in 0 .. Len(S[l])
    PROVE  /\ m.next[Cell(S[l], l, k)] = Cell(S[l], l, k + 1)
           /\ m.prev[Cell(S[l], l, k + 1)] = Cell(S[l], l, k)
           /\ Cell(S[l], l, k) \in ListCells /\ Cell(S[l], l, k + 1) \in ListCells
<1>1. Apart(S) /\ Lined(m, l, S[l])
  BY DEF Holds
<1>2. k \in 0 .. Len(S[l]) + 1 /\ k + 1 \in 0 .. Len(S[l]) + 1
  BY <1>1, CellIs
<1> QED
  BY <1>1, <1>2, CellIs DEF Lined

-----------------------------------------------------------------------------
(* Sequences.                                                              *)

\* s without the elements from number i + 1 to number j; s with those of c
\* after its first p.
Cut(s, i, j) == SubSeq(s, 1, i) \o SubSeq(s, j + 1, Len(s))
Paste(s, p, c) == SubSeq(s, 1, p) \o c \o SubSeq(s, p + 1, Len(s))

\* The sequences S of the lists after the same in list l.
CutOut(S, l, i, j) == [S EXCEPT ![l] = Cut(S[l], i, j)]
PutIn(S, l, p, c) == [S EXCEPT ![l] = Paste(S[l], p, c)]

\* A part of a sequence, element by element.
LEMMA PartIs ==
    ASSUME NEW E, NEW s \in Seq(E), NEW i \in 1 .. Len(s) + 1, NEW j \in 0 .. Len(s), i <= j + 1
    PROVE  /\ SubSeq(s, i, j) \in Seq(E) /\ Len(SubSeq(s, i, j)) = j - i + 1
           /\ \A k \in 1 .. j - i + 1 : SubSeq(s, i, j)[k] = s[k + i - 1]
<1>1. Len(s) \in Nat /\ i \in Int /\ j \in Int /\ \A k \in i .. j : k \in 1 .. Len(s)
  OBVIOUS
<1>2. \A k \in i .. j : s[k] \in E
  BY <1>1, ElementOfSeq
<1>3. /\ SubSeq(s, i, j) \in Seq(E)
      /\ Len(SubSeq(s, i, j)) = IF i <= j THEN j - i + 1 ELSE 0
      /\ \A k \in 1 .. j - i + 1 : SubSeq(s, i, j)[k] = s[i + k - 1]
  BY <1>1, <1>2, SubSeqProperties
<1>4. \A k \in 1 .. j - i + 1 : i + k - 1 = k + i - 1
  BY <1>1
<1>5. ~(i <= j) => j - i + 1 = 0
  BY <1>1
<1> QED
  BY <1>3, <1>4, <1>5

\* What is left when a part has been cut out, element by element.
LEMMA CutIs ==
    ASSUME NEW E, NEW s \in Seq(E), NEW j \in 0 .. Len(s), NEW i \in 0 .. j
    PROVE  /\ Cut(s, i, j) \in Seq(E) /\ Len(Cut(s, i, j)) = Len(s) - (j - i)
           /\ \A k \in 1 .. i : Cut(s, i, j)[k] = s[k]
           /\ \A k \in i + 1 .. Len(s) - (j - i) : Cut(s, i, j)[k] = s[k + (j - i)]
<1> DEFINE a == SubSeq(s, 1, i)
           b == SubSeq(s, j + 1, Len(s))
<1>1. Len(s) \in Nat /\ 1 \in 1 .. Len(s) + 1 /\ i \in 0 .. Len(s) /\ 1 <= i + 1
      /\ j + 1 \in 1 .. Len(s) + 1 /\ Len(s) \in 0 .. Len(s) /\ j + 1 <= Len(s) + 1
  OBVIOUS
<1>2. a \in Seq(E) /\ Len(a) = i /\ \A k \in 1 .. i : a[k] = s[k]
  <2>1. a \in Seq(E) /\ Len(a) = i - 1 + 1 /\ \A k \in 1 .. i - 1 + 1 : a[k] = s[k + 1 - 1]
    BY <1>1, PartIs
  <2> HIDE DEF a
  <2> QED
    BY <2>1, <1>1
<1>3. b \in Seq(E) /\ Len(b) = Len(s) - j /\ \A k \in 1 .. Len(s) - j : b[k] = s[k + j]
  <2>1. b \in Seq(E) /\ Len(b) = Len(s) - (j + 1) + 1
        /\ \A k \in 1 .. Len(s) - (j + 1) + 1 : b[k] = s[k + (j + 1) - 1]
    BY <1>1, PartIs
  <2> HIDE DEF b
  <2> QED
    BY <2>1, <1>1
<1> HIDE DEF a, b
<1>4. /\ a \o b \in Seq(E) /\ Len(a \o b) = Len(a) + Len(b)
      /\ \A k \in 1 .. Len(a) + Len(b) : (a \o b)[k] = IF k <= Len(a) THEN a[k] ELSE b[k - Len(a)]
  BY <1>2, <1>3, ConcatProperties
<1>5. Len(a) + Len(b) = Len(s) - (j - i)
  BY <1>1, <1>2, <1>3
<1>6. ASSUME NEW k \in 1 .. i PROVE (a \o b)[k] = s[k]
  <2>1. k \in 1 .. Len(a) + Len(b) /\ k <= Len(a)
    BY <1>1, <1>2, <1>3
  <2> QED
    BY <2>1, <1>2, <1>4
<1>7. ASSUME NEW k \in i + 1 .. Len(s) - (j - i) PROVE (a \o b)[k] = s[k + (j - i)]
  <2>1. k \in 1 .. Len(a) + Len(b) /\ ~(k <= Len(a)) /\ k - Len(a) \in 1 .. Len(s) - j
        /\ (k - Len(a)) + j = k + (j - i)
    BY <1>1, <1>2, <1>3
  <2> QED
    BY <2>1, <1>3, <1>4
<1> QED
  BY <1>4, <1>5, <1>6, <1>7 DEF Cut, a, b

\* A sequence with another put into it, element by element.
LEMMA PasteIs ==
    ASSUME NEW E, NEW s \in Seq(E), NEW c \in Seq(E), NEW p \in 0 .. Len(s)
    PROVE  /\ Paste(s, p, c) \in Seq(E) /\ Len(Paste(s, p, c)) = Len(s) + Len(c)
           /\ \A k \in 1 .. p : Paste(s, p, c)[k] = s[k]
           /\ \A k \in 1 .. Len(c) : Paste(s, p, c)[p + k] = c[k]
           /\ \A k \in p + 1 .. Len(s) : Paste(s, p, c)[k + Len(c)] = s[k]
<1> DEFINE a == SubSeq(s, 1, p)
           b == SubSeq(s, p + 1, Len(s))
           n == Len(c)
<1>1. Len(s) \in Nat /\ 1 \in 1 .. Len(s) + 1 /\ 1 <= p + 1 /\ n \in Nat
      /\ p + 1 \in 1 .. Len(s) + 1 /\ Len(s) \in 0 .. Len(s) /\ p + 1 <= Len(s) + 1
  OBVIOUS
<1>2. a \in Seq(E) /\ Len(a) = p /\ \A k \in 1 .. p : a[k] = s[k]
  <2>1. a \in Seq(E) /\ Len(a) = p - 1 + 1 /\ \A k \in 1 .. p - 1 + 1 : a[k] = s[k + 1 - 1]
    BY <1>1, PartIs
  <2> HIDE DEF a
  <2> QED
    BY <2>1, <1>1
<1>3. b \in Seq(E) /\ Len(b) = Len(s) - p /\ \A k \in 1 .. Len(s) - p : b[k] = s[k + p]
  <2>1. b \in Seq(E) /\ Len(b) = Len(s) - (p + 1) + 1
        /\ \A k \in 1 .. Len(s) - (p + 1) + 1 : b[k] = s[k + (p + 1) - 1]
    BY <1>1, PartIs
  <2> HIDE DEF b
  <2> QED
    BY <2>1, <1>1
<1> HIDE DEF a, b, n
<1>4. /\ a \o c \in Seq(E) /\ Len(a \o c) = p + n
      /\ \A k \in 1 .. p + n : (a \o c)[k] = IF k <= p THEN a[k] ELSE c[k - p]
  BY <1>2, ConcatProperties DEF n
<1> DEFINE t == a \o c
<1> HIDE DEF t
<1>5. /\ t \o b \in Seq(E) /\ Len(t \o b) = (p + n) + (Len(s) - p)
      /\ \A k \in 1 .. (p + n) + (Len(s) - p) : (t \o b)[k] = IF k <= p + n THEN t[k] ELSE b[k - (p + n)]
  <2>1. /\ t \in Seq(E) /\ Len(t) = p + n
        /\ b \in Seq(E) /\ Len(b) = Len(s) - p
    BY <1>3, <1>4 DEF t
  <2>2. /\ t \o b \in Seq(E) /\ Len(t \o b) = Len(t) + Len(b)
        /\ \A k \in 1 .. Len(t) + Len(b) : (t \o b)[k] = IF k <= Len(t) THEN t[k] ELSE b[k - Len(t)]
    BY ONLY <2>1, ConcatProperties
  <2> QED
    BY ONLY <2>1, <2>2
<1>6. (p + n) + (Len(s) - p) = Len(s) + n
  BY <1>1
<1>7. ASSUME NEW k \in 1 .. p PROVE (t \o b)[k] = s[k]
  <2>1. k \in 1 .. (p + n) + (Len(s) - p) /\ k <= p + n /\ k \in 1 .. p + n /\ k <= p
    BY <1>1
  <2> QED
    BY <2>1, <1>2, <1>4, <1>5 DEF t
<1>8. ASSUME NEW k \in 1 .. n PROVE (t \o b)[p + k] = c[k]
  <2>1. p + k \in 1 .. (p + n) + (Len(s) - p) /\ p + k <= p + n /\ p + k \in 1 .. p + n /\ ~(p + k <= p)
        /\ (p + k) - p = k
    BY <1>1
  <2> QED
    BY <2>1, <1>4, <1>5 DEF t
<1>9. ASSUME NEW k \in p + 1 .. Len(s) PROVE (t \o b)[k + n] = s[k]
  <2>1. k + n \in 1 .. (p + n) + (Len(s) - p) /\ ~(k + n <= p + n)
        /\ (k + n) - (p + n) = k - p /\ k - p \in 1 .. Len(s) - p /\ (k - p) + p = k
    BY <1>1
  <2> QED
    BY <2>1, <1>3, <1>5
<1> QED
  BY <1>5, <1>6, <1>7, <1>8, <1>9 DEF Paste, a, b, n, t

-----------------------------------------------------------------------------
(* What list_insert, list_remove and list_splice have in common: cutting a *)
(* range out of a list, and pasting a chain of elements into one.          *)

\* The sequences after a range is cut out of list l.
LEMMA CutApart ==
    ASSUME NEW S, Apart(S), NEW l \in DOMAIN S, NEW j \in 0 .. Len(S[l]), NEW i \in 0 .. j
    PROVE  LET t == Cut(S[l], i, j)
               T == CutOut(S, l, i, j)
           IN  /\ Apart(T) /\ DOMAIN T = DOMAIN S /\ T[l] = t
               /\ \A k \in DOMAIN S : k # l => T[k] = S[k]
               /\ Len(t) = Len(S[l]) - (j - i) /\ Len(t) \in Nat /\ i <= Len(t)
               /\ \A k \in 0 .. Len(t) + 1 :
                     Cell(t, l, k) = Cell(S[l], l, IF k <= i THEN k ELSE k + (j - i))
               /\ \A k \in i + 1 .. j : \A x \in DOMAIN S : \A n \in 1 .. Len(T[x]) : T[x][n] # S[l][k]
<1> DEFINE s == S[l]
           t == Cut(s, i, j)
           T == CutOut(S, l, i, j)
           At0(k) == IF k <= i THEN k ELSE k + (j - i)
<1>0. j \in 0 .. Len(s) /\ i \in 0 .. j
  OBVIOUS
<1>1. l \in Lists /\ s \in Seq(Elems) /\ Len(s) \in Nat /\ \A k \in 1 .. Len(s) : s[k] \in Elems
  BY CellIs
<1>2. /\ t \in Seq(Elems) /\ Len(t) = Len(s) - (j - i)
      /\ \A k \in 1 .. i : t[k] = s[k]
      /\ \A k \in i + 1 .. Len(s) - (j - i) : t[k] = s[k + (j - i)]
  BY <1>1, CutIs
<1>13. T = [S EXCEPT ![l] = t]
  BY DEF CutOut
<1> HIDE DEF t, T
<1>3. /\ DOMAIN T = DOMAIN S /\ T[l] = t /\ \A k \in DOMAIN S : k # l => T[k] = S[k]
      /\ T \in [DOMAIN S -> Seq(Elems)] /\ DOMAIN S \subseteq Lists
  BY <1>2, <1>13 DEF Apart
<1> HIDE DEF s
<1>4. Len(t) \in Nat /\ i <= Len(t) /\ Len(s) \in Nat
  BY <1>0, <1>1, <1>2
<1>5. \A k \in 1 .. Len(t) : /\ t[k] = s[At0(k)] /\ At0(k) \in 1 .. Len(s) /\ At0(k) \notin i + 1 .. j
  <2> SUFFICES ASSUME NEW k \in 1 .. Len(t)
               PROVE  t[k] = s[At0(k)] /\ At0(k) \in 1 .. Len(s) /\ At0(k) \notin i + 1 .. j
    OBVIOUS
  <2>1. CASE k <= i
    BY <1>0, <1>1, <1>2, <2>1
  <2>2. CASE ~(k <= i)
    BY <1>0, <1>1, <1>2, <2>2
  <2> QED
    BY <2>1, <2>2
<1>6. \A k, n \in 1 .. Len(t) : At0(k) = At0(n) => k = n
  BY <1>0, <1>4
<1>7. /\ At0(0) = 0 /\ At0(Len(t) + 1) = Len(s) + 1
      /\ \A k \in 0 .. Len(t) + 1 : k = 0 \/ k = Len(t) + 1 \/ k \in 1 .. Len(t)
      /\ Len(t) + 1 # 0 /\ Len(s) + 1 # 0
      /\ \A k \in 1 .. Len(t) : k # 0 /\ k # Len(t) + 1
      /\ \A k \in 1 .. Len(s) : k # 0 /\ k # Len(s) + 1
  <2>1. At0(0) = 0 /\ At0(Len(t) + 1) = Len(s) + 1
    BY <1>0, <1>2, <1>4
  <2> HIDE DEF At0
  <2> QED
    BY <2>1, <1>4
<1>8. ASSUME NEW k \in DOMAIN S, NEW n \in 1 .. Len(T[k])
      PROVE  \E p \in 1 .. Len(S[k]) : /\ T[k][n] = S[k][p]
                                       /\ p = IF k = l THEN At0(n) ELSE n
                                       /\ k = l => p \notin i + 1 .. j
  <2>1. CASE k = l
    BY <2>1, <1>3, <1>5 DEF s
  <2>2. CASE k # l
    BY <2>2, <1>3
  <2> QED
    BY <2>1, <2>2
<1> HIDE DEF At0
<1>9. ASSUME NEW k \in DOMAIN S, NEW x \in DOMAIN S, NEW n \in 1 .. Len(T[k]), NEW y \in 1 .. Len(T[x]),
             T[k][n] = T[x][y]
      PROVE  k = x /\ n = y
  <2>1. PICK p \in 1 .. Len(S[k]) : T[k][n] = S[k][p] /\ p = IF k = l THEN At0(n) ELSE n
    BY <1>8
  <2>2. PICK q \in 1 .. Len(S[x]) : T[x][y] = S[x][q] /\ q = IF x = l THEN At0(y) ELSE y
    BY <1>8
  <2>3. k = x /\ p = q
    <3>1. S[k][p] = S[x][q]
      BY <1>9, <2>1, <2>2
    <3>2. \A a, b \in DOMAIN S : \A v \in 1 .. Len(S[a]), w \in 1 .. Len(S[b]) :
             S[a][v] = S[b][w] => a = b /\ v = w
      BY DEF Apart
    <3> QED
      BY <3>1, <3>2, <2>1, <2>2
  <2>4. CASE k = l
    BY <2>1, <2>2, <2>3, <2>4, <1>3, <1>6
  <2>5. CASE k # l
    BY <2>1, <2>2, <2>3, <2>5
  <2> QED
    BY <2>3, <2>4, <2>5
<1>10. Apart(T)
  BY <1>3, <1>9 DEF Apart
<1>11. ASSUME NEW k \in 0 .. Len(t) + 1 PROVE Cell(t, l, k) = Cell(s, l, At0(k))
  <2>1. CASE k = 0
    BY <2>1, <1>7 DEF Cell
  <2>2. CASE k = Len(t) + 1
    BY <2>2, <1>7 DEF Cell
  <2>3. CASE k \in 1 .. Len(t)
    <3>1. At0(k) \in 1 .. Len(s) /\ t[k] = s[At0(k)]
      BY <2>3, <1>5
    <3> QED
      BY <2>3, <3>1, <1>7 DEF Cell
  <2> QED
    BY <2>1, <2>2, <2>3, <1>7
<1>12. ASSUME NEW k \in i + 1 .. j, NEW x \in DOMAIN S, NEW n \in 1 .. Len(T[x])
       PROVE  T[x][n] # S[l][k]
  <2>1. PICK p \in 1 .. Len(S[x]) : T[x][n] = S[x][p] /\ (x = l => p \notin i + 1 .. j)
    BY <1>8
  <2>2. k \in 1 .. Len(S[l])
    BY <1>1 DEF s
  <2> QED
    BY <2>1, <2>2 DEF Apart
<1> QED
  BY <1>2, <1>3, <1>4, <1>10, <1>11, <1>12 DEF s, t, T, At0

\* The links after two assignments have cut it out.
LEMMA CutHolds ==
    ASSUME NEW m, NEW S, Holds(m, S), NEW l \in DOMAIN S,
           NEW j \in 0 .. Len(S[l]), NEW i \in 0 .. j, NEW r \in ListMemory,
           \A c \in ListCells :
              /\ r.next[c] = IF c = Cell(S[l], l, i) THEN Cell(S[l], l, j + 1) ELSE m.next[c]
              /\ r.prev[c] = IF c = Cell(S[l], l, j + 1) THEN Cell(S[l], l, i) ELSE m.prev[c]
    PROVE  Holds(r, CutOut(S, l, i, j))
<1> DEFINE s == S[l]
           t == Cut(s, i, j)
           T == CutOut(S, l, i, j)
           C(x, k) == Cell(S[x], x, k)
<1>1. Apart(S) /\ \A x \in DOMAIN S : Lined(m, x, S[x])
  BY DEF Holds
<1>2. Len(s) \in Nat /\ i \in 0 .. Len(s) + 1 /\ j + 1 \in 0 .. Len(s) + 1 /\ i <= Len(s)
  BY <1>1, CellIs
<1>3. /\ Apart(T) /\ DOMAIN T = DOMAIN S /\ T[l] = t
      /\ \A k \in DOMAIN S : k # l => T[k] = S[k]
      /\ Len(t) = Len(s) - (j - i) /\ Len(t) \in Nat /\ i <= Len(t)
      /\ \A k \in 0 .. Len(t) + 1 : Cell(t, l, k) = C(l, IF k <= i THEN k ELSE k + (j - i))
  BY <1>1, CutApart
<1>4. /\ \A x \in DOMAIN S : \A k \in 0 .. Len(S[x]) + 1 : C(x, k) \in ListCells
      /\ \A x \in DOMAIN S : Len(S[x]) \in Nat
                             /\ C(x, 0) = ListHead(x) /\ C(x, Len(S[x]) + 1) = ListTail(x)
  BY <1>1, CellIs
<1>5. \A x, y \in DOMAIN S : \A k \in 0 .. Len(S[x]) + 1, n \in 0 .. Len(S[y]) + 1 :
         C(x, k) = C(y, n) => x = y /\ k = n
  BY <1>1, CellOnce
<1>6. \A x \in DOMAIN S : /\ m.prev[C(x, 0)] = Null /\ m.next[C(x, Len(S[x]) + 1)] = Null
                          /\ \A k \in 0 .. Len(S[x]) : /\ m.next[C(x, k)] = C(x, k + 1)
                                                       /\ m.prev[C(x, k + 1)] = C(x, k)
  BY <1>1, <1>4 DEF Lined
<1>7. \A x \in DOMAIN S : \A k \in 0 .. Len(S[x]) + 1 :
         /\ r.next[C(x, k)] = IF x = l /\ k = i THEN C(l, j + 1) ELSE m.next[C(x, k)]
         /\ r.prev[C(x, k)] = IF x = l /\ k = j + 1 THEN C(l, i) ELSE m.prev[C(x, k)]
  BY <1>2, <1>4, <1>5 DEF s
<1> HIDE DEF C, t, T
<1>8. ASSUME NEW x \in DOMAIN S, x # l PROVE Lined(r, x, T[x])
  <2>1. T[x] = S[x] /\ Len(S[x]) \in Nat
    BY <1>3, <1>4, <1>8
  <2>2. r.prev[C(x, 0)] = Null /\ r.next[C(x, Len(S[x]) + 1)] = Null
    BY <1>6, <1>7, <1>8, <2>1
  <2>3. ASSUME NEW k \in 0 .. Len(S[x])
        PROVE  r.next[C(x, k)] = C(x, k + 1) /\ r.prev[C(x, k + 1)] = C(x, k)
    <3>1. k \in 0 .. Len(S[x]) + 1 /\ k + 1 \in 0 .. Len(S[x]) + 1
      BY <2>1
    <3> QED
      BY <1>6, <1>7, <1>8, <3>1
  <2> QED
    BY <1>4, <2>1, <2>2, <2>3 DEF Lined, C
<1>9. Lined(r, l, t)
  <2>1. r.prev[C(l, 0)] = Null /\ r.next[C(l, Len(s) + 1)] = Null
    <3>1. 0 \in 0 .. Len(s) + 1 /\ Len(s) + 1 \in 0 .. Len(s) + 1 /\ 0 # j + 1 /\ Len(s) + 1 # i
      BY <1>2
    <3> QED
      BY <1>6, <1>7, <3>1 DEF s
  <2>2. ASSUME NEW k \in 0 .. Len(t)
        PROVE  r.next[Cell(t, l, k)] = Cell(t, l, k + 1) /\ r.prev[Cell(t, l, k + 1)] = Cell(t, l, k)
    <3>1. k \in 0 .. Len(t) + 1 /\ k + 1 \in 0 .. Len(t) + 1
      BY <1>3
    <3>2. CASE k < i
      <4>1. k <= i /\ k + 1 <= i
        BY <3>2, <1>2
      <4>2. Cell(t, l, k) = C(l, k) /\ Cell(t, l, k + 1) = C(l, k + 1)
        BY <3>1, <4>1, <1>3
      <4>3. k \in 0 .. Len(s) /\ k \in 0 .. Len(s) + 1 /\ k + 1 \in 0 .. Len(s) + 1 /\ k # i /\ k + 1 # j + 1
        BY <3>2, <1>2
      <4> QED
        BY <4>2, <4>3, <1>6, <1>7 DEF s
    <3>3. CASE k = i
      <4>1. k <= i /\ ~(k + 1 <= i) /\ k + 1 + (j - i) = j + 1
        BY <3>3, <1>2
      <4>2. Cell(t, l, k) = C(l, i) /\ Cell(t, l, k + 1) = C(l, j + 1)
        BY <3>1, <3>3, <4>1, <1>3
      <4> QED
        BY <4>2, <1>2, <1>7 DEF s
    <3>4. CASE k > i
      <4> DEFINE n == k + (j - i)
      <4>1. ~(k <= i) /\ ~(k + 1 <= i) /\ k + 1 + (j - i) = n + 1
        BY <3>4, <1>2
      <4>2. n \in 0 .. Len(s) /\ n \in 0 .. Len(s) + 1 /\ n + 1 \in 0 .. Len(s) + 1 /\ n # i /\ n + 1 # j + 1
        BY <3>4, <1>2, <1>3
      <4>3. Cell(t, l, k) = C(l, n) /\ Cell(t, l, k + 1) = C(l, n + 1)
        BY <3>1, <4>1, <1>3
      <4> QED
        BY <4>2, <4>3, <1>6, <1>7 DEF s
    <3> QED
      BY <3>2, <3>3, <3>4, <1>2, <1>3
  <2> QED
    BY <2>1, <2>2, <1>4 DEF Lined, s
<1>10. \A x \in DOMAIN T : Lined(r, x, T[x])
  BY <1>3, <1>8, <1>9
<1>11. ASSUME NEW x \in Lists \ DOMAIN T PROVE Idle(r, x)
  <2>1. x \in Lists \ DOMAIN S /\ Idle(m, x)
    BY <1>3 DEF Holds
  <2>2. \A c \in {ListHead(x), ListTail(x)} : c \in ListCells /\ c # C(l, i) /\ c # C(l, j + 1)
    BY <1>1, <1>2, <2>1, IdleApart DEF C, s
  <2> QED
    BY <2>1, <2>2 DEF Idle, C
<1> QED
  BY <1>3, <1>10, <1>11 DEF Holds, T, t, s

\* A chain of elements that are in no list.
Spare(S, c) ==
    /\ c \in Seq(Elems) /\ Len(c) # 0 /\ \A i, j \in 1 .. Len(c) : c[i] = c[j] => i = j
    /\ \A k \in 1 .. Len(c) : \A x \in DOMAIN S : \A n \in 1 .. Len(S[x]) : S[x][n] # c[k]

\* The sequences after a chain is pasted into list l.
LEMMA PasteApart ==
    ASSUME NEW S, Apart(S), NEW l \in DOMAIN S, NEW p \in 0 .. Len(S[l]), NEW c, Spare(S, c)
    PROVE  LET t == Paste(S[l], p, c)
               T == PutIn(S, l, p, c)
           IN  /\ Apart(T) /\ DOMAIN T = DOMAIN S /\ T[l] = t
               /\ \A k \in DOMAIN S : k # l => T[k] = S[k]
               /\ Len(t) = Len(S[l]) + Len(c) /\ Len(t) \in Nat
               /\ \A k \in 0 .. p : Cell(t, l, k) = Cell(S[l], l, k)
               /\ \A k \in 1 .. Len(c) : Cell(t, l, p + k) = c[k]
               /\ \A k \in p + 1 .. Len(S[l]) + 1 : Cell(t, l, k + Len(c)) = Cell(S[l], l, k)
<1> DEFINE s == S[l]
           t == Paste(s, p, c)
           T == PutIn(S, l, p, c)
           w == Len(c)
<1>0. p \in 0 .. Len(s)
  OBVIOUS
<1>1. l \in Lists /\ s \in Seq(Elems) /\ Len(s) \in Nat /\ \A k \in 1 .. Len(s) : s[k] \in Elems
  BY CellIs
<1>2. /\ c \in Seq(Elems) /\ w \in Nat /\ w # 0 /\ \A i, j \in 1 .. w : c[i] = c[j] => i = j
      /\ \A k \in 1 .. w : \A x \in DOMAIN S : \A n \in 1 .. Len(S[x]) : S[x][n] # c[k]
  BY DEF Spare
<1>3. /\ t \in Seq(Elems) /\ Len(t) = Len(s) + w
      /\ \A k \in 1 .. p : t[k] = s[k]
      /\ \A k \in 1 .. w : t[p + k] = c[k]
      /\ \A k \in p + 1 .. Len(s) : t[k + w] = s[k]
  <2>1. s \in Seq(Elems) /\ c \in Seq(Elems) /\ p \in 0 .. Len(s)
    BY <1>1, <1>2
  <2> HIDE DEF s
  <2> QED
    BY <2>1, PasteIs
<1>16. T = [S EXCEPT ![l] = t]
  BY DEF PutIn
<1> HIDE DEF t, T
<1>4. /\ DOMAIN T = DOMAIN S /\ T[l] = t /\ \A k \in DOMAIN S : k # l => T[k] = S[k]
      /\ T \in [DOMAIN S -> Seq(Elems)] /\ DOMAIN S \subseteq Lists
  BY <1>3, <1>16 DEF Apart
<1>15. /\ \A v, u \in 1 .. Len(s) : s[v] = s[u] => v = u
       /\ \A k \in 1 .. w : \A v \in 1 .. Len(s) : s[v] # c[k]
       /\ \A x \in DOMAIN S : x # l => \A v \in 1 .. Len(s), y \in 1 .. Len(S[x]) : s[v] # S[x][y]
       /\ \A x \in DOMAIN S : \A y \in 1 .. Len(S[x]), k \in 1 .. w : S[x][y] # c[k]
  BY <1>2 DEF Apart
<1> HIDE DEF s, w
<1>5. Len(t) \in Nat /\ Len(s) + 1 # 0 /\ Len(t) + 1 # 0
  BY <1>1, <1>2, <1>3
<1>6. ASSUME NEW k \in 0 .. p PROVE Cell(t, l, k) = Cell(s, l, k)
  <2>1. k # Len(s) + 1 /\ k # Len(t) + 1 /\ (k # 0 => k \in 1 .. p)
    BY <1>0, <1>1, <1>2, <1>3
  <2> QED
    BY <2>1, <1>3 DEF Cell
<1>7. ASSUME NEW k \in 1 .. w PROVE Cell(t, l, p + k) = c[k]
  <2>1. p + k # 0 /\ p + k # Len(t) + 1
    BY <1>0, <1>1, <1>2, <1>3
  <2> QED
    BY <2>1, <1>3 DEF Cell
<1>8. ASSUME NEW k \in p + 1 .. Len(s) + 1 PROVE Cell(t, l, k + w) = Cell(s, l, k)
  <2>1. k # 0 /\ k + w # 0 /\ (k = Len(s) + 1 <=> k + w = Len(t) + 1)
        /\ (k # Len(s) + 1 => k \in p + 1 .. Len(s))
    <3>1. Len(t) + 1 = (Len(s) + 1) + w
      BY <1>1, <1>2, <1>3
    <3>2. w \in Nat /\ Len(s) \in Nat /\ Len(t) \in Nat /\ p \in Nat /\ k \in p + 1 .. Len(s) + 1
      BY <1>0, <1>1, <1>2, <1>5
    <3> QED
      BY <3>1, <3>2
  <2> QED
    BY <2>1, <1>3 DEF Cell
<1>9. ASSUME NEW k \in 1 .. Len(t)
      PROVE  \/ k \in 1 .. p /\ k \in 1 .. Len(s) /\ t[k] = s[k]
             \/ k - p \in 1 .. w /\ k = p + (k - p) /\ t[k] = c[k - p]
             \/ /\ k - w \in p + 1 .. Len(s) /\ k - w \in 1 .. Len(s) /\ k = (k - w) + w
                /\ t[k] = s[k - w]
  <2>1. CASE k <= p
    BY <2>1, <1>0, <1>1, <1>3
  <2>2. CASE p < k /\ k <= p + w
    <3>1. k - p \in 1 .. w /\ k = p + (k - p)
      BY <2>2, <1>0, <1>1, <1>2
    <3> QED
      BY <3>1, <1>3
  <2>3. CASE p + w < k
    <3>1. k - w \in p + 1 .. Len(s) /\ k - w \in 1 .. Len(s) /\ k = (k - w) + w
      BY <2>3, <1>0, <1>1, <1>2, <1>3
    <3> QED
      BY <3>1, <1>3
  <2> QED
    BY <2>1, <2>2, <2>3, <1>0, <1>1, <1>2
<1>10. \A a, b \in DOMAIN S : \A v \in 1 .. Len(S[a]), u \in 1 .. Len(S[b]) :
          S[a][v] = S[b][u] => a = b /\ v = u
  BY DEF Apart
\* Elements of t against elements of another list, and of t.
<1>11. ASSUME NEW x \in DOMAIN S, x # l, NEW n \in 1 .. Len(t), NEW y \in 1 .. Len(S[x])
       PROVE  t[n] # S[x][y]
  <2>1. (\A v \in 1 .. Len(s) : s[v] # S[x][y]) /\ \A k \in 1 .. w : S[x][y] # c[k]
    BY ONLY <1>15, <1>11
  <2> QED
    BY ONLY <1>9, <1>11, <2>1
<1>12. ASSUME NEW n \in 1 .. Len(t), NEW y \in 1 .. Len(t), t[n] = t[y] PROVE n = y
  <2>1. CASE n \in 1 .. p /\ n \in 1 .. Len(s) /\ t[n] = s[n]
    <3>1. CASE y \in 1 .. p /\ y \in 1 .. Len(s) /\ t[y] = s[y]
      BY <2>1, <3>1, <1>15, <1>12
    <3>2. CASE y - p \in 1 .. w /\ y = p + (y - p) /\ t[y] = c[y - p]
      BY <2>1, <3>2, <1>15, <1>12
    <3>3. CASE y - w \in p + 1 .. Len(s) /\ y - w \in 1 .. Len(s) /\ t[y] = s[y - w]
      <4>1. n = y - w
        BY <2>1, <3>3, <1>15, <1>12
      <4> QED
        BY <2>1, <3>3, <4>1, <1>0
    <3> QED
      BY <3>1, <3>2, <3>3, <1>9
  <2>2. CASE n - p \in 1 .. w /\ n = p + (n - p) /\ t[n] = c[n - p]
    <3>1. CASE y \in 1 .. p /\ y \in 1 .. Len(s) /\ t[y] = s[y]
      BY <2>2, <3>1, <1>15, <1>12
    <3>2. CASE y - p \in 1 .. w /\ y = p + (y - p) /\ t[y] = c[y - p]
      <4>1. n - p = y - p
        BY <2>2, <3>2, <1>2, <1>12
      <4> QED
        BY <2>2, <3>2, <4>1
    <3>3. CASE y - w \in p + 1 .. Len(s) /\ y - w \in 1 .. Len(s) /\ t[y] = s[y - w]
      BY <2>2, <3>3, <1>15, <1>12
    <3> QED
      BY <3>1, <3>2, <3>3, <1>9
  <2>3. CASE /\ n - w \in p + 1 .. Len(s) /\ n - w \in 1 .. Len(s) /\ n = (n - w) + w
             /\ t[n] = s[n - w]
    <3>1. CASE y \in 1 .. p /\ y \in 1 .. Len(s) /\ t[y] = s[y]
      <4>1. y = n - w
        BY <2>3, <3>1, <1>15, <1>12
      <4> QED
        BY <2>3, <3>1, <4>1, <1>0
    <3>2. CASE y - p \in 1 .. w /\ y = p + (y - p) /\ t[y] = c[y - p]
      BY <2>3, <3>2, <1>15, <1>12
    <3>3. CASE /\ y - w \in p + 1 .. Len(s) /\ y - w \in 1 .. Len(s) /\ y = (y - w) + w
               /\ t[y] = s[y - w]
      <4>1. y - w = n - w
        BY <2>3, <3>3, <1>15, <1>12
      <4> QED
        BY <2>3, <3>3, <4>1
    <3> QED
      BY <3>1, <3>2, <3>3, <1>9
  <2> QED
    BY <2>1, <2>2, <2>3, <1>9
<1>13. ASSUME NEW k \in DOMAIN S, NEW x \in DOMAIN S, NEW n \in 1 .. Len(T[k]), NEW y \in 1 .. Len(T[x]),
              T[k][n] = T[x][y]
       PROVE  k = x /\ n = y
  <2>1. CASE k = l /\ x = l
    BY <2>1, <1>4, <1>12, <1>13
  <2>2. CASE k = l /\ x # l
    BY <2>2, <1>4, <1>11, <1>13
  <2>3. CASE k # l /\ x = l
    BY <2>3, <1>4, <1>11, <1>13
  <2>4. CASE k # l /\ x # l
    BY <2>4, <1>4, <1>10, <1>13
  <2> QED
    BY <2>1, <2>2, <2>3, <2>4
<1>14. Apart(T)
  BY <1>4, <1>13 DEF Apart
<1> QED
  BY <1>3, <1>4, <1>5, <1>6, <1>7, <1>8, <1>14 DEF s, t, T, w

\* The links that have pasted it in.
Pasted(r, m, S, l, p, c) ==
    /\ r \in ListMemory
    /\ \A k \in 1 .. Len(c) - 1 : r.next[c[k]] = c[k + 1] /\ r.prev[c[k + 1]] = c[k]
    /\ r.next[c[Len(c)]] = Cell(S[l], l, p + 1) /\ r.prev[c[1]] = Cell(S[l], l, p)
    /\ \A x \in DOMAIN S : \A k \in 0 .. Len(S[x]) + 1 :
          /\ r.next[Cell(S[x], x, k)] = IF x = l /\ k = p THEN c[1] ELSE m.next[Cell(S[x], x, k)]
          /\ r.prev[Cell(S[x], x, k)] =
                IF x = l /\ k = p + 1 THEN c[Len(c)] ELSE m.prev[Cell(S[x], x, k)]
    /\ \A x \in Lists \ DOMAIN S : Idle(r, x)

\* Then r holds the sequences with those elements in their place.
LEMMA PasteHolds ==
    ASSUME NEW m, NEW S, Holds(m, S), NEW l \in DOMAIN S, NEW p \in 0 .. Len(S[l]),
           NEW c, Spare(S, c), NEW r, Pasted(r, m, S, l, p, c)
    PROVE  Holds(r, PutIn(S, l, p, c))
<1> DEFINE s == S[l]
           t == Paste(s, p, c)
           T == PutIn(S, l, p, c)
           C(x, k) == Cell(S[x], x, k)
           w == Len(c)
<1>0. w \in Nat /\ w # 0
  BY DEF Spare
<1>1. Apart(S) /\ \A x \in DOMAIN S : Lined(m, x, S[x])
  BY DEF Holds
<1>2. Len(s) \in Nat /\ p \in 0 .. Len(s)
  BY <1>1, CellIs
<1>3. /\ Apart(T) /\ DOMAIN T = DOMAIN S /\ T[l] = t
      /\ \A k \in DOMAIN S : k # l => T[k] = S[k]
      /\ Len(t) = Len(s) + w /\ Len(t) \in Nat
      /\ \A k \in 0 .. p : Cell(t, l, k) = C(l, k)
      /\ \A k \in 1 .. w : Cell(t, l, p + k) = c[k]
      /\ \A k \in p + 1 .. Len(s) + 1 : Cell(t, l, k + w) = C(l, k)
  BY <1>1, PasteApart
<1>4. \A x \in DOMAIN S : Len(S[x]) \in Nat
                          /\ C(x, 0) = ListHead(x) /\ C(x, Len(S[x]) + 1) = ListTail(x)
  BY <1>1, CellIs
<1>6. \A x \in DOMAIN S : /\ m.prev[C(x, 0)] = Null /\ m.next[C(x, Len(S[x]) + 1)] = Null
                          /\ \A k \in 0 .. Len(S[x]) : /\ m.next[C(x, k)] = C(x, k + 1)
                                                       /\ m.prev[C(x, k + 1)] = C(x, k)
  BY <1>1, <1>4 DEF Lined
<1>7. \A x \in DOMAIN S : \A k \in 0 .. Len(S[x]) + 1 :
         /\ r.next[C(x, k)] = IF x = l /\ k = p THEN c[1] ELSE m.next[C(x, k)]
         /\ r.prev[C(x, k)] = IF x = l /\ k = p + 1 THEN c[w] ELSE m.prev[C(x, k)]
  BY DEF Pasted
<1>11. /\ \A k \in 1 .. w - 1 : r.next[c[k]] = c[k + 1] /\ r.prev[c[k + 1]] = c[k]
       /\ r.next[c[w]] = C(l, p + 1) /\ r.prev[c[1]] = C(l, p)
  BY DEF Pasted
<1> HIDE DEF C, t, T, w
<1>8. ASSUME NEW x \in DOMAIN S, x # l PROVE Lined(r, x, T[x])
  <2>1. T[x] = S[x] /\ Len(S[x]) \in Nat
    BY <1>3, <1>4, <1>8
  <2>2. r.prev[C(x, 0)] = Null /\ r.next[C(x, Len(S[x]) + 1)] = Null
    BY <1>6, <1>7, <1>8, <2>1
  <2>3. ASSUME NEW k \in 0 .. Len(S[x])
        PROVE  r.next[C(x, k)] = C(x, k + 1) /\ r.prev[C(x, k + 1)] = C(x, k)
    <3>1. k \in 0 .. Len(S[x]) + 1 /\ k + 1 \in 0 .. Len(S[x]) + 1
      BY <2>1
    <3> QED
      BY <1>6, <1>7, <1>8, <3>1
  <2> QED
    BY <1>4, <2>1, <2>2, <2>3 DEF Lined, C
<1>9. Lined(r, l, t)
  <2>1. r.prev[C(l, 0)] = Null /\ r.next[C(l, Len(s) + 1)] = Null
    <3>1. 0 \in 0 .. Len(s) + 1 /\ Len(s) + 1 \in 0 .. Len(s) + 1 /\ 0 # p + 1 /\ Len(s) + 1 # p
      BY <1>2
    <3> QED
      BY <1>6, <1>7, <3>1 DEF s
  <2>2. ASSUME NEW k \in 0 .. Len(t)
        PROVE  r.next[Cell(t, l, k)] = Cell(t, l, k + 1) /\ r.prev[Cell(t, l, k + 1)] = Cell(t, l, k)
    <3>2. CASE k < p
      <4>1. k \in 0 .. p /\ k + 1 \in 0 .. p /\ k \in 0 .. Len(s) /\ k \in 0 .. Len(s) + 1
            /\ k + 1 \in 0 .. Len(s) + 1 /\ k # p /\ k + 1 # p + 1
        BY <3>2, <1>2
      <4>2. Cell(t, l, k) = C(l, k) /\ Cell(t, l, k + 1) = C(l, k + 1)
        BY <4>1, <1>3
      <4> QED
        BY <4>1, <4>2, <1>6, <1>7 DEF s
    <3>3. CASE k = p
      <4>1. p \in 0 .. p /\ 1 \in 1 .. w /\ p \in 0 .. Len(s) + 1
        BY <1>0, <1>2
      <4>2. Cell(t, l, p) = C(l, p) /\ Cell(t, l, p + 1) = c[1]
        BY <4>1, <1>3
      <4> QED
        BY <3>3, <4>1, <4>2, <1>7, <1>11 DEF s
    <3>4. CASE p < k /\ k < p + w
      <4> DEFINE n == k - p
      <4>1. n \in 1 .. w /\ n + 1 \in 1 .. w /\ n \in 1 .. w - 1 /\ k = p + n /\ k + 1 = p + (n + 1)
        BY <3>4, <1>0, <1>2
      <4> HIDE DEF n
      <4>2. Cell(t, l, p + n) = c[n] /\ Cell(t, l, p + (n + 1)) = c[n + 1]
        BY <4>1, <1>3
      <4> QED
        BY <4>1, <4>2, <1>11
    <3>5. CASE k = p + w
      <4>1. w \in 1 .. w /\ p + 1 \in p + 1 .. Len(s) + 1 /\ (p + 1) + w = k + 1 /\ p + 1 \in 0 .. Len(s) + 1
        BY <3>5, <1>0, <1>2
      <4>2. Cell(t, l, k) = c[w] /\ Cell(t, l, k + 1) = C(l, p + 1)
        BY <3>5, <4>1, <1>3
      <4> QED
        BY <4>1, <4>2, <1>7, <1>11 DEF s
    <3>6. CASE p + w < k
      <4> DEFINE n == k - w
      <4>1. n \in p + 1 .. Len(s) + 1 /\ n + 1 \in p + 1 .. Len(s) + 1 /\ k = n + w /\ k + 1 = (n + 1) + w
            /\ n \in 0 .. Len(s) /\ n \in 0 .. Len(s) + 1 /\ n + 1 \in 0 .. Len(s) + 1 /\ n # p /\ n + 1 # p + 1
        <5>1. k \in 0 .. Len(s) + w /\ w \in Nat /\ Len(s) \in Nat /\ p \in Nat /\ p <= Len(s)
          BY <1>0, <1>2, <1>3
        <5> HIDE DEF s
        <5> QED
          BY <5>1, <3>6
      <4> HIDE DEF n
      <4>2. Cell(t, l, k) = C(l, n) /\ Cell(t, l, k + 1) = C(l, n + 1)
        BY <4>1, <1>3
      <4>3. /\ r.next[C(l, n)] = m.next[C(l, n)] /\ r.prev[C(l, n + 1)] = m.prev[C(l, n + 1)]
        BY <4>1, <1>7 DEF s
      <4>4. m.next[C(l, n)] = C(l, n + 1) /\ m.prev[C(l, n + 1)] = C(l, n)
        BY <4>1, <1>6 DEF s
      <4> QED
        BY <4>2, <4>3, <4>4
    <3> QED
      BY <3>2, <3>3, <3>4, <3>5, <3>6, <1>0, <1>2, <1>3
  <2> QED
    BY <2>1, <2>2, <1>4 DEF Lined, s
<1>10. \A x \in DOMAIN T : Lined(r, x, T[x])
  BY <1>3, <1>8, <1>9
<1> QED
  BY <1>3, <1>10 DEF Holds, Pasted, T, t, s

\* The cells of the lists are not in the chain.
LEMMA SpareCells ==
    ASSUME NEW S, Apart(S), NEW c, Spare(S, c), NEW n \in 1 .. Len(c)
    PROVE  /\ c[n] \in Elems /\ c[n] \in ListCells
           /\ \A x \in DOMAIN S : \A k \in 0 .. Len(S[x]) + 1 : Cell(S[x], x, k) # c[n]
           /\ \A x \in Lists : ListHead(x) # c[n] /\ ListTail(x) # c[n]
<1>1. c[n] \in Elems
  BY ElementOfSeq DEF Spare
<1>2. ASSUME NEW x \in DOMAIN S, NEW k \in 0 .. Len(S[x]) + 1 PROVE Cell(S[x], x, k) # c[n]
  <2>1. /\ Len(S[x]) \in Nat
        /\ Cell(S[x], x, 0) = ListHead(x) /\ Cell(S[x], x, Len(S[x]) + 1) = ListTail(x)
        /\ \A i \in 1 .. Len(S[x]) : Cell(S[x], x, i) = S[x][i]
    BY CellIs
  <2>2. k = 0 \/ k = Len(S[x]) + 1 \/ k \in 1 .. Len(S[x])
    BY <2>1
  <2>3. \A i \in 1 .. Len(S[x]) : S[x][i] # c[n]
    BY DEF Spare
  <2> QED
    BY <1>1, <2>1, <2>2, <2>3, ListKinds
<1> QED
  BY <1>1, <1>2, ListKinds, IsListCell

\* The assignments that link the chain c into list l, after the first p
\* elements of it.
Linking(r, m, a, b, first, last) ==
    /\ r \in ListMemory
    /\ \A e \in ListCells :
          /\ r.next[e] = IF e = a THEN first ELSE IF e = last THEN b ELSE m.next[e]
          /\ r.prev[e] = IF e = b THEN last ELSE IF e = first THEN a ELSE m.prev[e]

\* Elements that are linked to one another and to their neighbours are in the
\* list.
LEMMA LinkIn ==
    ASSUME NEW m, NEW S, Holds(m, S), NEW l \in DOMAIN S, NEW p \in 0 .. Len(S[l]),
           NEW c, Spare(S, c),
           \A k \in 1 .. Len(c) - 1 : m.next[c[k]] = c[k + 1] /\ m.prev[c[k + 1]] = c[k],
           NEW r, Linking(r, m, Cell(S[l], l, p), Cell(S[l], l, p + 1), c[1], c[Len(c)])
    PROVE  Holds(r, PutIn(S, l, p, c))
<1> DEFINE w == Len(c)
           C(x, k) == Cell(S[x], x, k)
<1>1. w \in Nat /\ w # 0 /\ \A i, j \in 1 .. w : c[i] = c[j] => i = j
  BY DEF Spare
<1>2. Apart(S) /\ Len(S[l]) \in Nat
  BY CellIs DEF Holds
<1>3. p \in 0 .. Len(S[l]) + 1 /\ p + 1 \in 0 .. Len(S[l]) + 1 /\ 1 \in 1 .. w /\ w \in 1 .. w
  BY <1>1, <1>2
<1>4. \A n \in 1 .. w : /\ c[n] \in ListCells
                        /\ \A x \in DOMAIN S : \A k \in 0 .. Len(S[x]) + 1 : C(x, k) # c[n]
                        /\ \A x \in Lists : ListHead(x) # c[n] /\ ListTail(x) # c[n]
  BY <1>2, SpareCells
<1>5. \A x \in DOMAIN S : \A k \in 0 .. Len(S[x]) + 1 : C(x, k) \in ListCells
  BY <1>2, CellIs
<1>6. \A x, y \in DOMAIN S : \A k \in 0 .. Len(S[x]) + 1, n \in 0 .. Len(S[y]) + 1 :
         C(x, k) = C(y, n) => x = y /\ k = n
  BY <1>2, CellOnce
<1>7. \A e \in ListCells :
              /\ r.next[e] = IF e = C(l, p) THEN c[1]
                             ELSE IF e = c[w] THEN C(l, p + 1) ELSE m.next[e]
              /\ r.prev[e] = IF e = C(l, p + 1) THEN c[w]
                             ELSE IF e = c[1] THEN C(l, p) ELSE m.prev[e]
  BY DEF Linking
<1>8. \A k \in 1 .. w - 1 : m.next[c[k]] = c[k + 1] /\ m.prev[c[k + 1]] = c[k]
  OBVIOUS
<1> HIDE DEF w, C
<1>9. ASSUME NEW k \in 1 .. w - 1 PROVE r.next[c[k]] = c[k + 1] /\ r.prev[c[k + 1]] = c[k]
  <2>1. k \in 1 .. w /\ k + 1 \in 1 .. w /\ k # w /\ k + 1 # 1
    BY <1>1
  <2>2. c[k] # c[w] /\ c[k + 1] # c[1]
    BY <2>1, <1>1, <1>3
  <2>3. c[k] \in ListCells /\ c[k + 1] \in ListCells /\ c[k] # C(l, p) /\ c[k + 1] # C(l, p + 1)
    BY <1>3, <1>4, <2>1
  <2>4. r.next[c[k]] = m.next[c[k]] /\ r.prev[c[k + 1]] = m.prev[c[k + 1]]
    BY ONLY <1>7, <2>2, <2>3
  <2> QED
    BY ONLY <1>8, <1>9, <2>4
<1>10. r.next[c[w]] = C(l, p + 1) /\ r.prev[c[1]] = C(l, p)
  BY <1>3, <1>4, <1>7
<1>11. ASSUME NEW x \in DOMAIN S, NEW k \in 0 .. Len(S[x]) + 1
       PROVE  /\ r.next[C(x, k)] = IF x = l /\ k = p THEN c[1] ELSE m.next[C(x, k)]
              /\ r.prev[C(x, k)] = IF x = l /\ k = p + 1 THEN c[w] ELSE m.prev[C(x, k)]
  <2>1. C(x, k) # c[1] /\ C(x, k) # c[w] /\ C(x, k) \in ListCells
    BY <1>3, <1>4, <1>5
  <2>2. (C(x, k) = C(l, p) <=> x = l /\ k = p) /\ (C(x, k) = C(l, p + 1) <=> x = l /\ k = p + 1)
    BY <1>3, <1>6
  <2> QED
    BY <2>1, <2>2, <1>7
<1>12. ASSUME NEW x \in Lists \ DOMAIN S PROVE Idle(r, x)
  <2>1. Idle(m, x)
    BY DEF Holds
  <2>2. \A e \in {ListHead(x), ListTail(x)} :
           e \in ListCells /\ e # C(l, p) /\ e # C(l, p + 1) /\ e # c[1] /\ e # c[w]
    BY <1>2, <1>3, <1>4, IdleApart DEF C
  <2> QED
    BY <2>1, <2>2, <1>7 DEF Idle
<1> QED
  <2>1. Pasted(r, m, S, l, p, c)
    BY <1>9, <1>10, <1>11, <1>12 DEF Pasted, Linking, C, w
  <2> QED
    BY <2>1, PasteHolds

\* list_insert puts one element there.
LEMMA InsertHolds ==
    ASSUME NEW m, NEW S, Holds(m, S), NEW l \in DOMAIN S, NEW p \in 0 .. Len(S[l]),
           NEW e \in Elems, \A x \in DOMAIN S : \A k \in 1 .. Len(S[x]) : S[x][k] # e
    PROVE  Holds(list_insert(m, Cell(S[l], l, p + 1), e), PutIn(S, l, p, <<e>>))
<1> DEFINE before == Cell(S[l], l, p + 1)
           a == Cell(S[l], l, p)
           m1 == SetPrev(m, e, m.prev[before])
           m2 == SetNext(m1, e, before)
           m3 == SetNext(m2, m2.prev[before], e)
           r == SetPrev(m3, before, e)
<1>1. Apart(S) /\ m \in ListMemory /\ Len(S[l]) \in Nat
  BY CellIs DEF Holds
<1>2. /\ m.prev[before] = a /\ a \in ListCells /\ before \in ListCells
  BY LinksAre
<1>3. Spare(S, <<e>>)
  BY DEF Spare
<1>4. e \in ListCells /\ before # e
  <2>1. 1 \in 1 .. Len(<<e>>) /\ <<e>>[1] = e /\ p + 1 \in 0 .. Len(S[l]) + 1
    BY <1>1
  <2> QED
    BY <2>1, <1>1, <1>3, SpareCells
<1> HIDE DEF before, a, m1, m2, m3, r
<1>5. /\ m1 \in ListMemory /\ m1.next = m.next
      /\ \A c \in ListCells : m1.prev[c] = IF c = e THEN a ELSE m.prev[c]
  BY <1>1, <1>2, <1>4, SetPrevIs DEF m1
<1>6. /\ m2 \in ListMemory /\ m2.prev = m1.prev
      /\ \A c \in ListCells : m2.next[c] = IF c = e THEN before ELSE m1.next[c]
  <2>1. m1 \in ListMemory /\ e \in ListCells /\ before \in ListCells
    BY <1>2, <1>4, <1>5
  <2> QED
    BY <2>1, SetNextIs DEF m2
<1>7. m2.prev[before] = a
  BY <1>2, <1>4, <1>5, <1>6
<1>8. /\ m3 \in ListMemory /\ m3.prev = m2.prev
      /\ \A c \in ListCells : m3.next[c] = IF c = a THEN e ELSE m2.next[c]
  <2>1. m2 \in ListMemory /\ e \in ListCells /\ a \in ListCells
    BY <1>2, <1>4, <1>6
  <2> QED
    BY <2>1, <1>7, SetNextIs DEF m3
<1>9. /\ r \in ListMemory /\ r.next = m3.next
      /\ \A c \in ListCells : r.prev[c] = IF c = before THEN e ELSE m3.prev[c]
  <2>1. m3 \in ListMemory /\ e \in ListCells /\ before \in ListCells
    BY <1>2, <1>4, <1>8
  <2> QED
    BY <2>1, SetPrevIs DEF r
<1>10. \A c \in ListCells :
          /\ r.next[c] = IF c = a THEN e ELSE IF c = e THEN before ELSE m.next[c]
          /\ r.prev[c] = IF c = before THEN e ELSE IF c = e THEN a ELSE m.prev[c]
  BY <1>5, <1>6, <1>8, <1>9
<1>11. Len(<<e>>) = 1 /\ <<e>>[1] = e /\ 1 .. 1 - 1 = {}
  OBVIOUS
<1>12. Linking(r, m, a, before, e, e)
  BY <1>9, <1>10 DEF Linking
<1>13. Linking(r, m, Cell(S[l], l, p), Cell(S[l], l, p + 1), <<e>>[1], <<e>>[Len(<<e>>)])
  BY <1>11, <1>12 DEF a, before
<1>14. \A k \in 1 .. Len(<<e>>) - 1 : m.next[<<e>>[k]] = <<e>>[k + 1] /\ m.prev[<<e>>[k + 1]] = <<e>>[k]
  BY <1>11
<1>15. Holds(r, PutIn(S, l, p, <<e>>))
  BY <1>3, <1>13, <1>14, LinkIn
<1> QED
  BY <1>15 DEF list_insert, r, m3, m2, m1, before

\* list_remove takes one out.
LEMMA RemoveHolds ==
    ASSUME NEW m, NEW S, Holds(m, S), NEW l \in DOMAIN S, NEW k \in 1 .. Len(S[l])
    PROVE  Holds(list_remove(m, S[l][k]), CutOut(S, l, k - 1, k))
<1> DEFINE e == S[l][k]
           a == Cell(S[l], l, k - 1)
           b == Cell(S[l], l, k + 1)
           m1 == SetNext(m, m.prev[e], m.next[e])
           r == SetPrev(m1, m1.next[e], m1.prev[e])
<1>1. Apart(S) /\ m \in ListMemory /\ Len(S[l]) \in Nat /\ e = Cell(S[l], l, k)
  BY CellIs DEF Holds
<1>2. k - 1 \in 0 .. Len(S[l]) /\ k \in 0 .. Len(S[l]) /\ (k - 1) + 1 = k /\ k # k - 1
      /\ k \in 0 .. Len(S[l]) + 1 /\ k - 1 \in 0 .. Len(S[l]) + 1 /\ k - 1 \in 0 .. k
  BY <1>1
<1>3. m.next[Cell(S[l], l, k)] = b /\ b \in ListCells
  BY <1>2, LinksAre
<1>4. m.prev[Cell(S[l], l, (k - 1) + 1)] = a /\ a \in ListCells /\ Cell(S[l], l, (k - 1) + 1) \in ListCells
  BY <1>2, LinksAre
<1>5. e # a
  BY <1>1, <1>2, CellOnce
<1>6. m.next[e] = b /\ m.prev[e] = a /\ a \in ListCells /\ b \in ListCells /\ e \in ListCells
  BY <1>1, <1>2, <1>3, <1>4
<1> HIDE DEF e, a, b, m1, r
<1>7. /\ m1 \in ListMemory /\ m1.prev = m.prev
      /\ \A c \in ListCells : m1.next[c] = IF c = a THEN b ELSE m.next[c]
  BY <1>1, <1>6, SetNextIs DEF m1
<1>8. m1.next[e] = b /\ m1.prev[e] = a
  BY <1>5, <1>6, <1>7
<1>9. /\ r \in ListMemory /\ r.next = m1.next
      /\ \A c \in ListCells : r.prev[c] = IF c = b THEN a ELSE m1.prev[c]
  <2>1. m1 \in ListMemory /\ a \in ListCells /\ b \in ListCells
    BY <1>6, <1>7
  <2> QED
    BY <2>1, <1>8, SetPrevIs DEF r
<1>10. \A c \in ListCells : /\ r.next[c] = IF c = a THEN b ELSE m.next[c]
                            /\ r.prev[c] = IF c = b THEN a ELSE m.prev[c]
  BY <1>7, <1>9
<1>11. Holds(r, CutOut(S, l, k - 1, k))
  BY <1>2, <1>9, <1>10, CutHolds DEF a, b
<1> QED
  BY <1>11 DEF list_remove, r, m1, e

\* list_splice takes a range out of one list and puts it into another, or
\* elsewhere into what is left of the same.
LEMMA SpliceHolds ==
    ASSUME NEW m, NEW S, Holds(m, S), NEW o \in DOMAIN S, NEW j \in 1 .. Len(S[o]), NEW i \in 0 .. j - 1,
           NEW T, T = CutOut(S, o, i, j),
           NEW l \in DOMAIN S, NEW p \in 0 .. Len(T[l])
    PROVE  Holds(list_splice(m, Cell(T[l], l, p + 1), Cell(S[o], o, i + 1), Cell(S[o], o, j + 1)),
                 PutIn(T, l, p, SubSeq(S[o], i + 1, j)))
<1> DEFINE s == S[o]
           c == SubSeq(s, i + 1, j)
           w == j - i
           C(k) == Cell(s, o, k)
           before == Cell(T[l], l, p + 1)
           B == Cell(T[l], l, p)
           first == C(i + 1)
           end == C(j + 1)
           last == m.prev[end]
           A == C(i)
           m1 == SetNext(m, m.prev[first], m.next[last])
           m2 == SetPrev(m1, m1.next[last], m1.prev[first])
           m3 == SetPrev(m2, first, m2.prev[before])
           m4 == SetNext(m3, last, before)
           m5 == SetNext(m4, m4.prev[before], first)
           r == SetPrev(m5, before, last)
<1>1. Apart(S) /\ m \in ListMemory /\ s \in Seq(Elems) /\ Len(s) \in Nat /\ j \in 1 .. Len(s)
      /\ \A k \in 1 .. Len(s) : C(k) = s[k] /\ s[k] \in Elems
  BY CellIs DEF Holds
<1>2. /\ i \in 0 .. Len(s) /\ j \in 0 .. Len(s) /\ i + 1 \in 0 .. Len(s) + 1 /\ j \in 0 .. Len(s) + 1
      /\ j + 1 \in 0 .. Len(s) + 1 /\ i \in 0 .. Len(s) + 1 /\ i \in 0 .. j
      /\ i # j /\ i + 1 # j + 1 /\ i + 1 # i /\ j + 1 # j /\ i # j + 1 /\ j \in 0 .. Len(S[o])
      /\ i + 1 \in 1 .. Len(s)
  BY <1>1
<1>3. /\ \A k \in 0 .. Len(s) : /\ m.next[C(k)] = C(k + 1) /\ m.prev[C(k + 1)] = C(k)
                                /\ C(k) \in ListCells /\ C(k + 1) \in ListCells
      /\ \A k, n \in 0 .. Len(s) + 1 : C(k) = C(n) => k = n
  <2>1. \A k \in 0 .. Len(s) : /\ m.next[C(k)] = C(k + 1) /\ m.prev[C(k + 1)] = C(k)
                                /\ C(k) \in ListCells /\ C(k + 1) \in ListCells
    BY LinksAre
  <2>2. \A k, n \in 0 .. Len(s) + 1 : C(k) = C(n) => k = n
    BY <1>1, CellOnce
  <2> QED
    BY <2>1, <2>2
\* The chain that moves.
<1>4. c \in Seq(Elems) /\ Len(c) = w /\ w \in Nat /\ w # 0 /\ \A k \in 1 .. w : c[k] = s[k + i]
  <2>1. i + 1 \in 1 .. Len(s) + 1 /\ j \in 0 .. Len(s) /\ i + 1 <= j + 1 /\ j - (i + 1) + 1 = w
        /\ \A k \in 1 .. w : k + (i + 1) - 1 = k + i
    <3>1. i \in Int /\ j \in Int /\ i < j /\ j <= Len(s) /\ 0 <= i
      BY <1>1
    <3> HIDE DEF s, c
    <3> QED
      BY <3>1, <1>1
  <2>2. c \in Seq(Elems) /\ Len(c) = j - (i + 1) + 1
        /\ \A k \in 1 .. j - (i + 1) + 1 : c[k] = s[k + (i + 1) - 1]
    BY <1>1, <2>1, PartIs
  <2>3. w \in Nat /\ w # 0 /\ \A k \in 1 .. w : k \in 1 .. j - (i + 1) + 1
    BY <1>1
  <2> HIDE DEF c, s, w
  <2>4. ASSUME NEW k \in 1 .. w PROVE c[k] = s[k + i]
    <3>1. k \in 1 .. j - (i + 1) + 1 /\ k + (i + 1) - 1 = k + i
      BY ONLY <2>1, <2>3, <2>4
    <3> QED
      BY ONLY <2>2, <3>1
  <2> QED
    BY ONLY <2>1, <2>2, <2>3, <2>4
<1>5. /\ Apart(T) /\ DOMAIN T = DOMAIN S
      /\ \A k \in i + 1 .. j : \A x \in DOMAIN S : \A n \in 1 .. Len(T[x]) : T[x][n] # s[k]
  <2>1. j \in 0 .. Len(S[o]) /\ i \in 0 .. j
    BY <1>2
  <2> QED
    BY <1>1, <2>1, CutApart DEF s
<1>6. \A k \in 1 .. w : k + i \in i + 1 .. j /\ k + i \in 1 .. Len(s) /\ k + i \in 0 .. Len(s)
                        /\ k + i \in 0 .. Len(s) + 1
  BY <1>1
<1> HIDE DEF c, s, w
<1>7. Spare(T, c)
  <2>1. ASSUME NEW a \in 1 .. w, NEW b \in 1 .. w, c[a] = c[b] PROVE a = b
    <3>1. C(a + i) = C(b + i)
      BY <2>1, <1>1, <1>4, <1>6
    <3>2. a + i = b + i
      BY <3>1, <1>3, <1>6
    <3> QED
      BY <3>2
  <2>2. ASSUME NEW k \in 1 .. w, NEW x \in DOMAIN T, NEW n \in 1 .. Len(T[x]) PROVE T[x][n] # c[k]
    <3>1. k + i \in i + 1 .. j /\ c[k] = s[k + i] /\ x \in DOMAIN S
      BY <1>4, <1>5, <1>6
    <3> QED
      BY <3>1, <1>5
  <2> QED
    BY <1>4, <2>1, <2>2 DEF Spare
<1>8. \A k \in 1 .. w - 1 : m.next[c[k]] = c[k + 1] /\ m.prev[c[k + 1]] = c[k]
  <2> SUFFICES ASSUME NEW k \in 1 .. w - 1 PROVE m.next[c[k]] = c[k + 1] /\ m.prev[c[k + 1]] = c[k]
    OBVIOUS
  <2>1. k \in 1 .. w /\ k + 1 \in 1 .. w /\ (k + 1) + i = (k + i) + 1
    BY <1>4
  <2>2. c[k] = C(k + i) /\ c[k + 1] = C((k + i) + 1)
    <3>1. C(k + i) = s[k + i] /\ C((k + 1) + i) = s[(k + 1) + i]
      BY <2>1, <1>1, <1>6
    <3> QED
      BY <3>1, <2>1, <1>4
  <2> QED
    BY <2>1, <2>2, <1>3, <1>6
<1>9. c[1] = first /\ c[w] = C(j) /\ 1 \in 1 .. w /\ w \in 1 .. w
  <2>1. 1 + i = i + 1 /\ w + i = j /\ 1 \in 1 .. w /\ w \in 1 .. w
    BY <1>4 DEF w
  <2>2. c[1] = s[i + 1] /\ c[w] = s[j]
    BY <2>1, <1>4
  <2> QED
    BY <2>1, <2>2, <1>1, <1>2
\* The links of the rest, and the places the chain is put between.
<1>10. /\ p \in 0 .. Len(T[l]) /\ Len(T[l]) \in Nat
       /\ B \in ListCells /\ before \in ListCells
       /\ \A k \in 0 .. Len(T[l]) + 1 : \A n \in 1 .. w : Cell(T[l], l, k) # c[n]
  <2>1. Len(T[l]) \in Nat /\ \A k \in 0 .. Len(T[l]) + 1 : Cell(T[l], l, k) \in ListCells
    BY <1>5, CellIs
  <2>2. \A n \in 1 .. w : \A k \in 0 .. Len(T[l]) + 1 : Cell(T[l], l, k) # c[n]
    <3> SUFFICES ASSUME NEW n \in 1 .. w
                 PROVE  \A k \in 0 .. Len(T[l]) + 1 : Cell(T[l], l, k) # c[n]
      OBVIOUS
    <3>1. n \in 1 .. Len(c) /\ l \in DOMAIN T
      BY <1>4, <1>5
    <3>2. \A x \in DOMAIN T : \A k \in 0 .. Len(T[x]) + 1 : Cell(T[x], x, k) # c[n]
      BY <3>1, <1>5, <1>7, SpareCells
    <3> QED
      BY <3>1, <3>2
  <2>3. p \in 0 .. Len(T[l]) + 1 /\ p + 1 \in 0 .. Len(T[l]) + 1
    BY <2>1
  <2> QED
    BY <2>1, <2>2, <2>3
<1>11. before # first /\ before # C(j) /\ B # first /\ B # C(j)
  <2>1. p \in 0 .. Len(T[l]) + 1 /\ p + 1 \in 0 .. Len(T[l]) + 1
    BY <1>10
  <2> QED
    BY <2>1, <1>9, <1>10
<1>12. /\ A \in ListCells /\ first \in ListCells /\ end \in ListCells /\ C(j) \in ListCells
       /\ last = C(j) /\ m.next[last] = end /\ m.prev[first] = A
       /\ A # C(j) /\ first # end /\ end # last /\ first # A
  BY <1>2, <1>3
<1> HIDE DEF C, before, B, first, end, last, A, m1, m2, m3, m4, m5, r
<1>13. /\ m1 \in ListMemory /\ m1.prev = m.prev
       /\ \A e \in ListCells : m1.next[e] = IF e = A THEN end ELSE m.next[e]
  BY <1>1, <1>12, SetNextIs DEF m1
<1>14. m1.next[last] = end /\ m1.prev[first] = A
  BY <1>12, <1>13
<1>15. /\ m2 \in ListMemory /\ m2.next = m1.next
       /\ \A e \in ListCells : m2.prev[e] = IF e = end THEN A ELSE m1.prev[e]
  <2>1. m1 \in ListMemory /\ A \in ListCells /\ end \in ListCells
    BY <1>12, <1>13
  <2> QED
    BY <2>1, <1>14, SetPrevIs DEF m2
<1>16. Holds(m2, T)
  <2>1. \A e \in ListCells :
              /\ m2.next[e] = IF e = Cell(S[o], o, i) THEN Cell(S[o], o, j + 1) ELSE m.next[e]
              /\ m2.prev[e] = IF e = Cell(S[o], o, j + 1) THEN Cell(S[o], o, i) ELSE m.prev[e]
    BY <1>13, <1>15 DEF A, end, C, s
  <2>2. j \in 0 .. Len(S[o]) /\ i \in 0 .. j /\ m2 \in ListMemory
    BY <1>2, <1>15
  <2> QED
    BY <2>1, <2>2, CutHolds
<1>17. m2.prev[before] = B
  <2>1. l \in DOMAIN T /\ p \in 0 .. Len(T[l])
    BY <1>5, <1>10
  <2>2. m2.prev[Cell(T[l], l, p + 1)] = Cell(T[l], l, p)
    BY <2>1, <1>16, LinksAre
  <2> QED
    BY <2>2 DEF before, B
<1>18. /\ m3 \in ListMemory /\ m3.next = m2.next
       /\ \A e \in ListCells : m3.prev[e] = IF e = first THEN B ELSE m2.prev[e]
  <2>1. m2 \in ListMemory /\ first \in ListCells /\ B \in ListCells
    BY <1>10, <1>12, <1>15
  <2> QED
    BY <2>1, <1>17, SetPrevIs DEF m3
<1>19. /\ m4 \in ListMemory /\ m4.prev = m3.prev
       /\ \A e \in ListCells : m4.next[e] = IF e = last THEN before ELSE m3.next[e]
  <2>1. m3 \in ListMemory /\ last \in ListCells /\ before \in ListCells
    BY <1>10, <1>12, <1>18
  <2> QED
    BY <2>1, SetNextIs DEF m4
<1>20. m4.prev[before] = B
  BY <1>10, <1>11, <1>17, <1>18, <1>19
<1>21. /\ m5 \in ListMemory /\ m5.prev = m4.prev
       /\ \A e \in ListCells : m5.next[e] = IF e = B THEN first ELSE m4.next[e]
  <2>1. m4 \in ListMemory /\ B \in ListCells /\ first \in ListCells
    BY <1>10, <1>12, <1>19
  <2> QED
    BY <2>1, <1>20, SetNextIs DEF m5
<1>22. /\ r \in ListMemory /\ r.next = m5.next
       /\ \A e \in ListCells : r.prev[e] = IF e = before THEN last ELSE m5.prev[e]
  <2>1. m5 \in ListMemory /\ before \in ListCells /\ last \in ListCells
    BY <1>10, <1>12, <1>21
  <2> QED
    BY <2>1, SetPrevIs DEF r
<1>23. Linking(r, m2, B, before, first, last)
  BY <1>18, <1>19, <1>21, <1>22 DEF Linking
<1>24. Linking(r, m2, Cell(T[l], l, p), Cell(T[l], l, p + 1), c[1], c[Len(c)])
  BY <1>4, <1>9, <1>12, <1>23 DEF B, before
<1>25. \A k \in 1 .. Len(c) - 1 : m2.next[c[k]] = c[k + 1] /\ m2.prev[c[k + 1]] = c[k]
  <2> SUFFICES ASSUME NEW k \in 1 .. w - 1 PROVE m2.next[c[k]] = c[k + 1] /\ m2.prev[c[k + 1]] = c[k]
    BY <1>4
  <2>1. k \in 1 .. w /\ k + 1 \in 1 .. w /\ (k + 1) + i = (k + i) + 1 /\ k + i # i /\ (k + 1) + i # j + 1
    BY <1>4 DEF w
  <2>2. c[k] = C(k + i) /\ c[k + 1] = C((k + 1) + i)
    <3>1. C(k + i) = s[k + i] /\ C((k + 1) + i) = s[(k + 1) + i]
      BY <2>1, <1>1, <1>6
    <3> QED
      BY <3>1, <2>1, <1>4
  <2>3. c[k] # A /\ c[k + 1] # end /\ c[k] \in ListCells /\ c[k + 1] \in ListCells
    <3>1. k + i \in 0 .. Len(s) + 1 /\ (k + 1) + i \in 0 .. Len(s) + 1 /\ k + i \in 0 .. Len(s)
          /\ (k + 1) + i \in 0 .. Len(s)
      BY <2>1, <1>6
    <3> QED
      BY <2>1, <2>2, <3>1, <1>2, <1>3 DEF A, end
  <2> QED
    BY <2>3, <1>8, <1>13, <1>15
<1>26. Holds(r, PutIn(T, l, p, c))
  BY <1>5, <1>7, <1>10, <1>16, <1>24, <1>25, LinkIn
<1>27. r = list_splice(m, before, first, end)
  BY <1>12 DEF list_splice, r, m5, m4, m3, m2, m1, last
<1> QED
  BY <1>26, <1>27 DEF before, first, end, C, c, s

\* A list is no longer than there are elements.
LEMMA FewElements ==
    ASSUME NEW S, Apart(S), NEW l \in DOMAIN S
    PROVE  Len(S[l]) <= Cardinality(Elems) /\ Len(S[l]) < Cardinality(ListCells)
<1> DEFINE s == S[l]
           f == [k \in 1 .. Len(s) |-> s[k]]
           C == Elems \cup {ListHead(l)}
<1>1. l \in Lists /\ Len(s) \in Nat /\ (\A k \in 1 .. Len(s) : s[k] \in Elems)
      /\ \A i, j \in 1 .. Len(s) : s[i] = s[j] => i = j
  BY CellIs DEF Apart
<1> HIDE DEF s
<1>2. f \in Injection(1 .. Len(s), Elems)
  BY <1>1 DEF Injection, IsInjective
<1>3. IsFiniteSet(1 .. Len(s)) /\ Cardinality(1 .. Len(s)) = Len(s)
  <2>1. 1 \in Int /\ Len(s) \in Int
    BY <1>1
  <2>2. IsFiniteSet(1 .. Len(s)) /\ Cardinality(1 .. Len(s)) = IF 1 > Len(s) THEN 0 ELSE Len(s) - 1 + 1
    BY <2>1, FS_Interval
  <2> QED
    BY <1>1, <2>2
<1> HIDE DEF f
<1>4. Len(s) <= Cardinality(Elems)
  BY <1>2, <1>3, FiniteCells, FS_Injection
<1>5. ListHead(l) \notin Elems
  BY ListKinds
<1>6. IsFiniteSet(C) /\ Cardinality(C) = Cardinality(Elems) + 1
  BY <1>5, FiniteCells, FS_AddElement
<1>7. C \subseteq ListCells
  BY <1>1, IsListCell
<1>8. Cardinality(C) <= Cardinality(ListCells)
  BY <1>7, FiniteCells, FS_Subset
<1> HIDE DEF C
<1> QED
  BY <1>1, <1>4, <1>6, <1>8, FiniteCells DEF s

\* A walk meets them in order.
LEMMA WalkHolds ==
    ASSUME NEW m, NEW S, Holds(m, S), NEW l \in DOMAIN S
    PROVE  Walk(m, l) = S[l]
<1> DEFINE s == S[l]
           most == Cardinality(DOMAIN m.next)
           Over(e) == e \in {Null, list_end(l)}
           Onward(e) == IF Over(e) THEN e ELSE m.next[e]
           pos == CHOOSE p : p = [k \in 0 .. most |->
                                     IF k = 0 THEN list_begin(m, l) ELSE Onward(p[k - 1])]
           Stops(k) == /\ Over(pos[k]) \/ k = most
                       /\ k = 0 \/ ~Over(pos[k - 1])
           len == CHOOSE k \in 0 .. most : Stops(k)
           f == [k \in 0 .. most |-> Cell(s, l, IF k <= Len(s) THEN k + 1 ELSE Len(s) + 1)]
<1>1. Walk(m, l) = [k \in 1 .. len |-> pos[k - 1]]
  BY Zenon DEF Walk
<1>2. Apart(S) /\ DOMAIN m.next = ListCells
  BY DEF Holds, ListMemory
<1>3. /\ s \in Seq(Elems) /\ Len(s) \in Nat
      /\ Cell(s, l, 0) = ListHead(l) /\ Cell(s, l, Len(s) + 1) = ListTail(l)
      /\ \A k \in 1 .. Len(s) : Cell(s, l, k) = s[k]
      /\ \A k \in 0 .. Len(s) + 1 : Cell(s, l, k) \in ListCells /\ Cell(s, l, k) # Null
  BY <1>2, CellIs, IsListCell
<1>4. most \in Nat /\ Len(s) \in 0 .. most
  BY <1>2, <1>3, FewElements, FiniteCells
<1>5. \A k \in 0 .. Len(s) : m.next[Cell(s, l, k)] = Cell(s, l, k + 1)
  BY LinksAre
<1>6. \A k \in 0 .. Len(s) : k # Len(s) => ~Over(Cell(s, l, k + 1))
  <2> SUFFICES ASSUME NEW k \in 0 .. Len(s), k # Len(s) PROVE ~Over(Cell(s, l, k + 1))
    OBVIOUS
  <2>1. k + 1 \in 0 .. Len(s) + 1 /\ Len(s) + 1 \in 0 .. Len(s) + 1 /\ k + 1 # Len(s) + 1
    BY <1>3
  <2>2. Cell(s, l, k + 1) # Cell(s, l, Len(s) + 1)
    BY <2>1, <1>2, CellOnce
  <2> QED
    BY <2>1, <2>2, <1>3 DEF list_end
<1> HIDE DEF s, most
<1>7. \A k \in 0 .. most : Over(f[k]) <=> Len(s) <= k
  <2> SUFFICES ASSUME NEW k \in 0 .. most PROVE Over(f[k]) <=> Len(s) <= k
    OBVIOUS
  <2>1. CASE k < Len(s)
    BY <2>1, <1>4, <1>6
  <2>2. CASE Len(s) <= k
    <3>1. f[k] = Cell(s, l, Len(s) + 1)
      BY <2>2, <1>4
    <3> QED
      BY <2>2, <3>1, <1>3 DEF list_end
  <2> QED
    BY <2>1, <2>2, <1>4
<1>8. \A k \in 0 .. most : f[k] = IF k = 0 THEN list_begin(m, l) ELSE Onward(f[k - 1])
  <2> SUFFICES ASSUME NEW k \in 0 .. most
               PROVE  f[k] = IF k = 0 THEN list_begin(m, l) ELSE Onward(f[k - 1])
    OBVIOUS
  <2>1. CASE k = 0
    <3>1. f[0] = Cell(s, l, 1)
      BY <1>3, <1>4
    <3>2. m.next[Cell(s, l, 0)] = Cell(s, l, 0 + 1)
      BY <1>4, <1>5
    <3> QED
      BY <2>1, <3>1, <3>2, <1>3 DEF list_begin
  <2>2. CASE k # 0 /\ k <= Len(s)
    <3>1. k - 1 \in 0 .. most /\ ~(Len(s) <= k - 1) /\ k - 1 <= Len(s) /\ (k - 1) + 1 = k /\ k \in 0 .. Len(s)
      BY <2>2, <1>4
    <3>2. f[k] = Cell(s, l, k + 1) /\ f[k - 1] = Cell(s, l, k)
      BY <2>2, <3>1
    <3>3. ~Over(f[k - 1])
      BY <3>1, <1>7
    <3> QED
      BY <2>2, <3>1, <3>2, <3>3, <1>5
  <2>3. CASE k # 0 /\ ~(k <= Len(s))
    <3>1. k - 1 \in 0 .. most /\ Len(s) <= k - 1
      BY <2>3, <1>4
    <3>2. f[k] = Cell(s, l, Len(s) + 1) /\ f[k - 1] = Cell(s, l, Len(s) + 1)
      BY <2>3, <3>1, <1>4
    <3>3. Over(f[k - 1])
      BY <3>1, <1>7
    <3> QED
      BY <2>3, <3>2, <3>3
  <2> QED
    BY <2>1, <2>2, <2>3
<1>9. f = [k \in 0 .. most |-> f[k]]
  OBVIOUS
<1> HIDE DEF f
<1>10. f = [k \in 0 .. most |-> IF k = 0 THEN list_begin(m, l) ELSE Onward(f[k - 1])]
  BY <1>8, <1>9
<1>11. pos = [k \in 0 .. most |-> IF k = 0 THEN list_begin(m, l) ELSE Onward(pos[k - 1])]
  BY <1>10
<1> HIDE DEF pos
<1>12. \A k \in 0 .. most : pos[k] = f[k]
  <2> DEFINE I == [k \in 0 .. most |-> {f[k]}]
  <2>1. pos[0] \in I[0]
    BY <1>4, <1>8, <1>11
  <2>2. ASSUME NEW k \in 1 .. most, pos[k - 1] \in I[k - 1] PROVE pos[k] \in I[k]
    <3>1. k - 1 \in 0 .. most /\ k \in 0 .. most /\ k # 0
      BY <1>4
    <3>2. pos[k - 1] = f[k - 1]
      BY <2>2, <3>1
    <3> QED
      BY <3>1, <3>2, <1>8, <1>11
  <2> HIDE DEF I
  <2>3. \A k \in 0 .. most : pos[k] \in I[k]
    BY <2>1, <2>2, <1>4, LoopStays
  <2> QED
    BY <2>3 DEF I
<1>13. Stops(Len(s)) /\ \A k \in 0 .. most : Stops(k) => k = Len(s)
  <2>1. Stops(Len(s))
    <3>1. Len(s) # 0 => Len(s) - 1 \in 0 .. most /\ ~(Len(s) <= Len(s) - 1)
      BY <1>3, <1>4
    <3> QED
      BY <3>1, <1>4, <1>7, <1>12, <1>3
  <2>2. ASSUME NEW k \in 0 .. most, Stops(k) PROVE k = Len(s)
    <3>1. CASE k < Len(s)
      <4>1. k # most /\ ~(Len(s) <= k)
        BY <3>1, <1>3, <1>4
      <4> QED
        BY <4>1, <2>2, <1>7, <1>12
    <3>2. CASE Len(s) < k
      <4>1. k - 1 \in 0 .. most /\ Len(s) <= k - 1 /\ k # 0
        BY <3>2, <1>3, <1>4
      <4> QED
        BY <4>1, <2>2, <1>7, <1>12
    <3> QED
      BY <3>1, <3>2, <1>3
  <2> QED
    BY <2>1, <2>2
<1> HIDE DEF Stops
<1>14. len = Len(s)
  BY <1>4, <1>13
<1> HIDE DEF len
<1>15. \A k \in 1 .. Len(s) : pos[k - 1] = s[k]
  <2> SUFFICES ASSUME NEW k \in 1 .. Len(s) PROVE pos[k - 1] = s[k]
    OBVIOUS
  <2>1. k - 1 \in 0 .. most /\ k - 1 <= Len(s) /\ (k - 1) + 1 = k
    BY <1>3, <1>4
  <2>2. f[k - 1] = Cell(s, l, k)
    BY <2>1 DEF f
  <2> QED
    BY <2>1, <2>2, <1>3, <1>12
<1>16. s = [k \in 1 .. Len(s) |-> s[k]]
  BY <1>3
<1> QED
  BY <1>1, <1>14, <1>15, <1>16 DEF s

\* What the loops over a list start from, and its element number k.
LEMMA HoldsPlaces ==
    ASSUME NEW m, NEW S, Holds(m, S), NEW l \in DOMAIN S
    PROVE  /\ list_begin(m, l) = Cell(S[l], l, 1) /\ list_end(l) = Cell(S[l], l, Len(S[l]) + 1)
           /\ list_empty(m, l) <=> Len(S[l]) = 0
           /\ m.prev[ListTail(l)] = Cell(S[l], l, Len(S[l]))
           /\ Len(Walk(m, l)) = Len(S[l])
           /\ \A k \in 0 .. Len(S[l]) : At(m, l, k) = Cell(S[l], l, k + 1)
           /\ LoopBound(m) = Cardinality(ListCells) /\ Len(S[l]) < LoopBound(m) /\ LoopBound(m) \in Nat
<1>1. Apart(S) /\ DOMAIN m.next = ListCells
  BY DEF Holds, ListMemory
<1>2. /\ S[l] \in Seq(Elems) /\ Len(S[l]) \in Nat
      /\ Cell(S[l], l, 0) = ListHead(l) /\ Cell(S[l], l, Len(S[l]) + 1) = ListTail(l)
      /\ \A k \in 1 .. Len(S[l]) : Cell(S[l], l, k) = S[l][k]
  BY <1>1, CellIs
<1>3. 0 \in 0 .. Len(S[l]) /\ Len(S[l]) \in 0 .. Len(S[l]) /\ 0 + 1 = 1
      /\ 1 \in 0 .. Len(S[l]) + 1 /\ Len(S[l]) + 1 \in 0 .. Len(S[l]) + 1
  BY <1>2
<1>4. m.next[Cell(S[l], l, 0)] = Cell(S[l], l, 0 + 1)
      /\ m.prev[Cell(S[l], l, Len(S[l]) + 1)] = Cell(S[l], l, Len(S[l]))
  BY <1>3, LinksAre
<1>5. list_begin(m, l) = Cell(S[l], l, 1) /\ list_end(l) = Cell(S[l], l, Len(S[l]) + 1)
  BY <1>2, <1>3, <1>4 DEF list_begin, list_end
<1>6. Cell(S[l], l, 1) = Cell(S[l], l, Len(S[l]) + 1) => 1 = Len(S[l]) + 1
  BY <1>1, <1>3, CellOnce
<1>7. list_empty(m, l) <=> Len(S[l]) = 0
  BY <1>2, <1>5, <1>6 DEF list_empty
<1>8. Walk(m, l) = S[l]
  BY WalkHolds
<1>9. ASSUME NEW k \in 0 .. Len(S[l]) PROVE At(m, l, k) = Cell(S[l], l, k + 1)
  <2>1. k + 1 \in 1 .. Len(S[l]) + 1
    BY <1>2
  <2>2. CASE k + 1 \in 1 .. Len(S[l])
    BY <1>2, <1>8, <2>2 DEF At
  <2>3. CASE k + 1 = Len(S[l]) + 1
    BY <1>2, <1>5, <1>8, <2>3 DEF At
  <2> QED
    BY <2>1, <2>2, <2>3, <1>2
<1>10. LoopBound(m) = Cardinality(ListCells)
  BY <1>1 DEF LoopBound
<1>11. Len(S[l]) < Cardinality(ListCells) /\ Cardinality(ListCells) \in Nat
  BY <1>1, FewElements, FiniteCells
<1> QED
  BY <1>2, <1>4, <1>5, <1>7, <1>8, <1>9, <1>10, <1>11

-----------------------------------------------------------------------------
(* The invariant of the lists.                                             *)

\* A finite set of integers has a least member.
LEMMA MinOf ==
    ASSUME NEW T \in SUBSET Int, IsFiniteSet(T), T # {}
    PROVE  Min(T) \in T /\ \A x \in T : Min(T) <= x
<1> DEFINE n == Cardinality(T)
<1>1. n \in Nat
  BY FS_CardinalityType
<1>2. PICK f : f \in Surjection(1 .. n, T)
  BY FS_CardinalityType DEF ExistsBijection, Bijection
<1>3. f \in [1 .. n -> T] /\ \A x \in T : \E k \in 1 .. n : f[k] = x
  BY <1>2 DEF Surjection
<1> HIDE DEF n
<1>4. n # 0 /\ 1 \in 1 .. n /\ n - 1 \in Nat
  <2>1. PICK x \in T : TRUE
    OBVIOUS
  <2>2. \E k \in 1 .. n : f[k] = x
    BY <1>3, <2>1
  <2> QED
    BY <1>1, <2>2
<1> DEFINE Low(j) == \E x \in T : \A k \in 1 .. j + 1 : x <= f[k]
           J == {j \in 0 .. n - 1 : Low(j)}
<1>5. 0 \in J
  <2>1. f[1] \in T
    BY <1>3, <1>4
  <2>4. T \subseteq Int /\ \A k \in 1 .. 0 + 1 : k = 1
    OBVIOUS
  <2>3. f[1] \in Int /\ \A k \in 1 .. 0 + 1 : k = 1
    BY <2>1, <2>4
  <2>2. Low(0)
    BY <2>1, <2>3
  <2> QED
    BY <2>2, <1>1, <1>4
<1>6. ASSUME NEW j \in 0 .. (n - 1) - 1, j \in J PROVE j + 1 \in J
  <2>1. PICK x \in T : \A k \in 1 .. j + 1 : x <= f[k]
    BY <1>6
  <2>2. (j + 1) + 1 \in 1 .. n /\ j + 1 \in 0 .. n - 1
        /\ \A k \in 1 .. (j + 1) + 1 : k = (j + 1) + 1 \/ k \in 1 .. j + 1
    BY <1>1, <1>4
  <2> DEFINE y == IF x <= f[(j + 1) + 1] THEN x ELSE f[(j + 1) + 1]
  <2>3. f[(j + 1) + 1] \in T /\ f[(j + 1) + 1] \in Int /\ x \in Int
    BY <1>3, <2>2
  <2>4. y \in T /\ y <= x /\ y <= f[(j + 1) + 1] /\ y \in Int
    BY <2>3
  <2> HIDE DEF y
  <2>5. \A k \in 1 .. (j + 1) + 1 : k \in 1 .. n
    BY <1>1, <1>4
  <2>6. \A k \in 1 .. (j + 1) + 1 : y <= f[k]
    <3> SUFFICES ASSUME NEW k \in 1 .. (j + 1) + 1 PROVE y <= f[k]
      OBVIOUS
    <3>1. f[k] \in Int
      BY <2>5, <1>3
    <3> QED
      BY <3>1, <2>1, <2>2, <2>3, <2>4
  <2>7. Low(j + 1)
    BY <2>4, <2>6
  <2> HIDE DEF Low
  <2> QED
    BY <2>2, <2>7
<1> HIDE DEF J
<1>7. n - 1 \in Nat
  BY <1>1, <1>4
<1>8. n - 1 \in J
  BY <1>5, <1>6, <1>7, Induct
<1>9. PICK x \in T : \A k \in 1 .. (n - 1) + 1 : x <= f[k]
  BY <1>8 DEF J
<1>10. \A y \in T : x <= y
  BY <1>1, <1>3, <1>9
<1> QED
  BY <1>10 DEF Min

\* The elements in the lists.
Inside(S) == UNION {ToSet(S[l]) : l \in DOMAIN S}

\* What is in no list has no links.
Clean(m, S) == \A e \in Elems \ Inside(S) : m.next[e] = Null /\ m.prev[e] = Null

\* The sequences of the lists in use, as the loops over them meet them.
Seqs == [l \in Used |-> Walk(links, l)]

\* The inductive invariant: memory holds the lists in use, what is in none of
\* them has no links, and what is in them is what is live.  Unlike ListsSound,
\* Holds can be stated of a memory half way through a command.
ListInv == ListTypeOK /\ Holds(links, Seqs) /\ Clean(links, Seqs) /\ live = Inside(Seqs)

\* The elements in the lists, by list and place.
LEMMA InsideIs ==
    ASSUME NEW S, Apart(S), NEW e
    PROVE  /\ e \in Inside(S) <=> \E l \in DOMAIN S : \E k \in 1 .. Len(S[l]) : S[l][k] = e
           /\ e \in Inside(S) => e \in Elems
<1>1. \A l \in DOMAIN S : S[l] \in Seq(Elems) /\ \A k \in 1 .. Len(S[l]) : S[l][k] \in Elems
  BY CellIs
<1>2. \A l \in DOMAIN S : ToSet(S[l]) = {S[l][k] : k \in 1 .. Len(S[l])}
  BY <1>1 DEF ToSet
<1> QED
  BY <1>1, <1>2 DEF Inside

\* What the program can reach is what is in the lists.
LEMMA HeldIs ==
    ASSUME NEW m, NEW S, Holds(m, S)
    PROVE  Held(m) = Inside(S)
<1>1. {l \in Lists : m.next[ListHead(l)] # Null} = DOMAIN S
  <2>1. ASSUME NEW l \in DOMAIN S PROVE m.next[ListHead(l)] # Null /\ l \in Lists
    <3>1. 0 \in 0 .. Len(S[l]) /\ Cell(S[l], l, 0) = ListHead(l) /\ l \in Lists
      BY CellIs DEF Holds
    <3> QED
      BY <3>1, LinksAre, IsListCell
  <2>2. \A l \in Lists \ DOMAIN S : m.next[ListHead(l)] = Null
    BY DEF Holds, Idle
  <2> QED
    BY <2>1, <2>2
<1>2. \A l \in DOMAIN S : Walk(m, l) = S[l]
  BY WalkHolds
<1> QED
  BY <1>1, <1>2 DEF Held, Inside

\* An assignment to the links of a cell that is in no list changes no list.
LEMMA OutsideHolds ==
    ASSUME NEW m, NEW S, Holds(m, S), NEW r \in ListMemory,
           \A c \in ListCells : c \notin Elems \ Inside(S) => r.next[c] = m.next[c] /\ r.prev[c] = m.prev[c]
    PROVE  Holds(r, S)
<1>1. Apart(S)
  BY DEF Holds
<1>2. ASSUME NEW l \in DOMAIN S PROVE Lined(r, l, S[l])
  <2>1. /\ Len(S[l]) \in Nat /\ l \in Lists
        /\ Cell(S[l], l, 0) = ListHead(l) /\ Cell(S[l], l, Len(S[l]) + 1) = ListTail(l)
        /\ \A k \in 1 .. Len(S[l]) : Cell(S[l], l, k) = S[l][k]
        /\ \A k \in 0 .. Len(S[l]) + 1 : Cell(S[l], l, k) \in ListCells
    BY <1>1, CellIs
  <2>2. ASSUME NEW k \in 0 .. Len(S[l]) + 1
        PROVE  LET c == Cell(S[l], l, k) IN r.next[c] = m.next[c] /\ r.prev[c] = m.prev[c]
    <3>1. k = 0 \/ k = Len(S[l]) + 1 \/ k \in 1 .. Len(S[l])
      BY <2>1
    <3>2. k \in 1 .. Len(S[l]) => S[l][k] \in Inside(S)
      BY <1>1, InsideIs
    <3> QED
      BY <2>1, <3>1, <3>2, ListKinds
  <2>3. ASSUME NEW k \in 0 .. Len(S[l])
        PROVE  /\ r.next[Cell(S[l], l, k)] = Cell(S[l], l, k + 1)
               /\ r.prev[Cell(S[l], l, k + 1)] = Cell(S[l], l, k)
    <3>1. k \in 0 .. Len(S[l]) + 1 /\ k + 1 \in 0 .. Len(S[l]) + 1
      BY <2>1
    <3>2. m.next[Cell(S[l], l, k)] = Cell(S[l], l, k + 1) /\ m.prev[Cell(S[l], l, k + 1)] = Cell(S[l], l, k)
      BY LinksAre
    <3> QED
      BY <2>2, <3>1, <3>2
  <2>4. 0 \in 0 .. Len(S[l]) + 1 /\ Len(S[l]) + 1 \in 0 .. Len(S[l]) + 1
    BY <2>1
  <2>5. m.prev[ListHead(l)] = Null /\ m.next[ListTail(l)] = Null
    BY DEF Holds, Lined
  <2> QED
    BY <2>1, <2>2, <2>3, <2>4, <2>5 DEF Lined
<1>3. ASSUME NEW l \in Lists \ DOMAIN S PROVE Idle(r, l)
  <2>1. \A c \in {ListHead(l), ListTail(l)} : c \in ListCells /\ c \notin Elems
    BY ListKinds, IsListCell
  <2>2. Idle(m, l)
    BY DEF Holds
  <2> QED
    BY <2>1, <2>2 DEF Idle
<1> QED
  BY <1>1, <1>2, <1>3 DEF Holds

\* An element in no list can be given to free().
LEMMA FreeHolds ==
    ASSUME NEW m, NEW S, Holds(m, S), NEW e \in Elems \ Inside(S)
    PROVE  Holds(free(m, e), S)
<1> DEFINE m1 == SetNext(m, e, Null)
           r == SetPrev(m1, e, Null)
<1>1. m \in ListMemory /\ e \in ListCells
  BY IsListCell DEF Holds
<1> HIDE DEF m1, r
<1>2. /\ m1 \in ListMemory /\ m1.prev = m.prev
      /\ \A c \in ListCells : m1.next[c] = IF c = e THEN Null ELSE m.next[c]
  BY <1>1, SetNextIs DEF m1
<1>3. /\ r \in ListMemory /\ r.next = m1.next
      /\ \A c \in ListCells : r.prev[c] = IF c = e THEN Null ELSE m1.prev[c]
  <2>1. m1 \in ListMemory
    BY <1>2
  <2> QED
    BY <1>1, <2>1, SetPrevIs DEF r
<1>5. \A c \in ListCells : c \notin Elems \ Inside(S) => r.next[c] = m.next[c] /\ r.prev[c] = m.prev[c]
  BY <1>2, <1>3
<1>4. Holds(r, S)
  BY <1>3, <1>5, OutsideHolds
<1> QED
  BY <1>4 DEF free, r, m1

\* Forgetting the links of what is in no list keeps the lists.
LEMMA KeptHolds ==
    ASSUME NEW m, NEW S, NEW r, Holds(m, S),
           r = [next |-> [c \in ListCells |-> IF c \in Elems \ Inside(S) THEN Null ELSE m.next[c]],
                prev |-> [c \in ListCells |-> IF c \in Elems \ Inside(S) THEN Null ELSE m.prev[c]]]
    PROVE  Holds(r, S) /\ Clean(r, S)
<1>1. m \in ListMemory
  BY DEF Holds
<1>2. /\ r \in ListMemory
      /\ \A c \in ListCells : /\ r.next[c] = IF c \in Elems \ Inside(S) THEN Null ELSE m.next[c]
                              /\ r.prev[c] = IF c \in Elems \ Inside(S) THEN Null ELSE m.prev[c]
  BY <1>1 DEF ListMemory
<1>5. \A c \in ListCells :
         c \notin Elems \ Inside(S) => r.next[c] = m.next[c] /\ r.prev[c] = m.prev[c]
  BY <1>2
<1>3. Holds(r, S)
  <2>1. r \in ListMemory
    BY <1>2
  <2> QED
    BY <1>5, <2>1, OutsideHolds
<1>4. Clean(r, S)
  BY <1>2, IsListCell DEF Clean
<1> QED
  BY <1>3, <1>4

\* A step that leaves lists S, and keeps just the elements in them, keeps the
\* invariant.
LEMMA LeaveInv ==
    ASSUME NEW m, NEW S, NEW v, NEW kept, Holds(m, S), v \in [Elems -> Data], Leave(m, v, kept),
           kept = Inside(S),
           listInUse' \in [Lists -> BOOLEAN], DOMAIN S = {l \in Lists : listInUse'[l]}
    PROVE  ListInv' /\ Seqs' = S
<1>1. Holds(links', S) /\ Clean(links', S)
  <2>1. links' = [next |-> [c \in ListCells |-> IF c \in Elems \ Inside(S) THEN Null ELSE m.next[c]],
                  prev |-> [c \in ListCells |-> IF c \in Elems \ Inside(S) THEN Null ELSE m.prev[c]]]
    BY DEF Leave
  <2> QED
    BY ONLY <2>1, Holds(m, S), KeptHolds
<1>2. value' \in [Elems -> Data]
  <2>1. Data \subseteq Int /\ IsFiniteSet(Data) /\ Data # {}
    BY ListConstants
  <2>2. Min(Data) \in Data
    BY <2>1, MinOf
  <2> QED
    BY <2>2 DEF Leave
<1>5. live' = Inside(S) /\ live' \subseteq Elems
  <2>1. Apart(S)
    BY DEF Holds
  <2>2. \A e \in Inside(S) : e \in Elems
    BY <2>1, InsideIs
  <2> QED
    BY <2>2 DEF Leave
<1>3. ListTypeOK'
  BY <1>1, <1>2, <1>5 DEF ListTypeOK, Holds, ListMemory
<1>4. Seqs' = S
  <2>1. \A l \in DOMAIN S : Walk(links', l) = S[l]
    BY <1>1, WalkHolds
  <2>2. S = [l \in DOMAIN S |-> S[l]]
    BY DEF Holds, Apart
  <2> QED
    BY <2>1, <2>2 DEF Seqs, Used
<1> QED
  BY <1>1, <1>3, <1>4, <1>5 DEF ListInv

\* What the invariant says of the commands' operands.
LEMMA InvIs ==
    ASSUME ListInv
    PROVE  /\ Holds(links, Seqs) /\ Apart(Seqs) /\ DOMAIN Seqs = Used /\ Used \subseteq Lists
           /\ Held(links) = Inside(Seqs) /\ live = Inside(Seqs) /\ live \subseteq Elems
           /\ value \in [Elems -> Data] /\ listInUse \in [Lists -> BOOLEAN]
           /\ \A l \in Used : /\ Walk(links, l) = Seqs[l] /\ Size(l) = Len(Seqs[l])
                              /\ Seqs[l] \in Seq(Elems) /\ Len(Seqs[l]) \in Nat
           /\ \A e \in Elems \ live : \A x \in DOMAIN Seqs : \A k \in 1 .. Len(Seqs[x]) : Seqs[x][k] # e
<1>1. Holds(links, Seqs) /\ Apart(Seqs) /\ DOMAIN Seqs = Used /\ Used \subseteq Lists
  BY DEF ListInv, Holds, Seqs, Used
<1>2. Held(links) = Inside(Seqs)
  BY <1>1, HeldIs
<1>3. \A l \in Used : Walk(links, l) = Seqs[l] /\ Size(l) = Len(Seqs[l])
  BY DEF Seqs, Size
<1>4. \A l \in Used : Seqs[l] \in Seq(Elems) /\ Len(Seqs[l]) \in Nat
  BY <1>1, CellIs
<1>5. \A e \in Elems \ live : \A x \in DOMAIN Seqs : \A k \in 1 .. Len(Seqs[x]) : Seqs[x][k] # e
  BY <1>1, InsideIs DEF ListInv
<1> QED
  BY <1>1, <1>2, <1>3, <1>4, <1>5 DEF ListInv, ListTypeOK

\* Lists that the memory holds are sound.
LEMMA HoldsSound ==
    ASSUME NEW m, NEW S, Holds(m, S), Clean(m, S)
    PROVE  AllSound(m, DOMAIN S)
<1>1. Apart(S) /\ DOMAIN m.next = ListCells /\ \A l \in DOMAIN S : Walk(m, l) = S[l]
  BY WalkHolds DEF Holds, ListMemory
<1>2. ASSUME NEW l \in DOMAIN S PROVE Sound(m, l)
  <2> DEFINE s == S[l]
             path == <<ListHead(l)>> \o s \o <<ListTail(l)>>
  <2>1. /\ s \in Seq(Elems) /\ Len(s) \in Nat
        /\ Cell(s, l, 0) = ListHead(l) /\ Cell(s, l, Len(s) + 1) = ListTail(l)
        /\ \A k \in 1 .. Len(s) : Cell(s, l, k) = s[k]
    BY <1>1, CellIs
  <2>2. /\ \A k \in 0 .. Len(s) : m.next[Cell(s, l, k)] = Cell(s, l, k + 1)
                                  /\ m.prev[Cell(s, l, k + 1)] = Cell(s, l, k)
        /\ \A i, j \in 0 .. Len(s) + 1 : Cell(s, l, i) = Cell(s, l, j) => i = j
    <3>1. \A i, j \in 0 .. Len(s) + 1 : Cell(s, l, i) = Cell(s, l, j) => i = j
      BY <1>1, CellOnce
    <3>2. \A k \in 0 .. Len(s) : m.next[Cell(s, l, k)] = Cell(s, l, k + 1)
                                 /\ m.prev[Cell(s, l, k + 1)] = Cell(s, l, k)
      BY LinksAre
    <3> QED
      BY <3>1, <3>2
  <2>3. m.prev[ListHead(l)] = Null /\ m.next[ListTail(l)] = Null
    BY DEF Holds, Lined
  <2>4. Walk(m, l) = s
    BY <1>1
  <2> HIDE DEF s
  <2>5. Len(path) = Len(s) + 2 /\ DOMAIN path = 1 .. Len(s) + 2
        /\ \A k \in 1 .. Len(s) + 2 : path[k] = Cell(s, l, k - 1) /\ k - 1 \in 0 .. Len(s) + 1
    <3> DEFINE h == <<ListHead(l)>>
               t == <<ListTail(l)>>
               E == Elems \cup {ListHead(l), ListTail(l)}
    <3>1. h \in Seq(E) /\ t \in Seq(E) /\ Len(h) = 1 /\ Len(t) = 1 /\ h[1] = ListHead(l) /\ t[1] = ListTail(l)
      OBVIOUS
    <3>2. s \in Seq(E)
      <4>1. \A k \in 1 .. Len(s) : s[k] \in Elems
        BY <2>1, ElementOfSeq
      <4> QED
        BY <2>1, <4>1
    <3> HIDE DEF h, t, E
    <3>3. /\ h \o s \in Seq(E) /\ Len(h \o s) = 1 + Len(s)
          /\ \A k \in 1 .. 1 + Len(s) : (h \o s)[k] = IF k <= 1 THEN h[k] ELSE s[k - 1]
      <4>1. /\ h \o s \in Seq(E) /\ Len(h \o s) = Len(h) + Len(s)
            /\ \A k \in 1 .. Len(h) + Len(s) : (h \o s)[k] = IF k <= Len(h) THEN h[k] ELSE s[k - Len(h)]
        <5>1. h \in Seq(E) /\ s \in Seq(E)
          BY <3>1, <3>2
        <5> QED
          BY ONLY <5>1, ConcatProperties
      <4> QED
        BY <3>1, <4>1
    <3> DEFINE hs == h \o s
    <3> HIDE DEF hs
    <3>4. /\ hs \o t \in Seq(E) /\ Len(hs \o t) = (1 + Len(s)) + 1
          /\ \A k \in 1 .. (1 + Len(s)) + 1 : (hs \o t)[k] = IF k <= 1 + Len(s) THEN hs[k] ELSE t[k - (1 + Len(s))]
      BY <3>1, <3>3, ConcatProperties DEF hs
    <3>5. ASSUME NEW k \in 1 .. Len(s) + 2 PROVE (hs \o t)[k] = Cell(s, l, k - 1) /\ k - 1 \in 0 .. Len(s) + 1
      <4>1. CASE k = 1
        BY <4>1, <2>1, <3>1, <3>3, <3>4 DEF hs
      <4>2. CASE k \in 2 .. 1 + Len(s)
        <5>1. k - 1 \in 1 .. Len(s) /\ ~(k <= 1) /\ k \in 1 .. 1 + Len(s) /\ k \in 1 .. (1 + Len(s)) + 1
          BY <4>2, <2>1
        <5> QED
          BY <5>1, <2>1, <3>3, <3>4 DEF hs
      <4>3. CASE k = Len(s) + 2
        <5>1. k - (1 + Len(s)) = 1 /\ ~(k <= 1 + Len(s)) /\ k - 1 = Len(s) + 1
          BY <4>3, <2>1
        <5> QED
          BY <5>1, <2>1, <3>1, <3>4
      <4>4. k = 1 \/ k \in 2 .. 1 + Len(s) \/ k = Len(s) + 2
        BY <2>1
      <4>5. k - 1 \in 0 .. Len(s) + 1
        BY <2>1
      <4> QED
        BY <4>1, <4>2, <4>3, <4>4, <4>5
    <3>6. path = hs \o t
      BY DEF hs, h, t
    <3> HIDE DEF path
    <3>7. Len(path) = Len(s) + 2 /\ DOMAIN path = 1 .. Len(path)
      BY <2>1, <3>4, <3>6
    <3> QED
      BY <3>5, <3>6, <3>7
  <2> HIDE DEF path
  <2>6. ASSUME NEW k \in 1 .. Len(path) - 1
        PROVE  m.next[path[k]] = path[k + 1] /\ m.prev[path[k + 1]] = path[k]
    <3>1. k \in 1 .. Len(s) + 2 /\ k + 1 \in 1 .. Len(s) + 2 /\ (k + 1) - 1 = (k - 1) + 1 /\ k - 1 \in 0 .. Len(s)
      BY <2>1, <2>5
    <3>2. path[k] = Cell(s, l, k - 1) /\ path[k + 1] = Cell(s, l, (k - 1) + 1)
      BY <2>5, <3>1
    <3> QED
      BY <2>2, <3>1, <3>2
  <2>7. IsInjective(path)
    <3>1. ASSUME NEW a \in 1 .. Len(s) + 2, NEW b \in 1 .. Len(s) + 2, path[a] = path[b] PROVE a = b
      <4>1. a - 1 = b - 1
        BY <2>2, <2>5, <3>1
      <4> QED
        BY <4>1
    <3> QED
      BY <2>5, <3>1 DEF IsInjective
  <2> QED
    BY <2>3, <2>4, <2>6, <2>7 DEF Sound, path
<1>3. \A k, l \in DOMAIN S : k # l => ToSet(Walk(m, k)) \cap ToSet(Walk(m, l)) = {}
  <2> SUFFICES ASSUME NEW k \in DOMAIN S, NEW l \in DOMAIN S, k # l,
                      NEW e \in ToSet(S[k]), e \in ToSet(S[l])
               PROVE  FALSE
    BY <1>1
  <2>1. S[k] \in Seq(Elems) /\ S[l] \in Seq(Elems)
    BY <1>1, CellIs
  <2>2. (\E i \in 1 .. Len(S[k]) : S[k][i] = e) /\ \E j \in 1 .. Len(S[l]) : S[l][j] = e
    BY <2>1 DEF ToSet
  <2> QED
    BY <1>1, <2>2 DEF Apart
<1>4. ASSUME NEW e \in ListCells
      PROVE  \/ m.next[e] = Null /\ m.prev[e] = Null
             \/ \E l \in DOMAIN S : e \in ToSet(Walk(m, l)) \cup {ListHead(l), ListTail(l)}
  <2>1. CASE e \in Elems
    BY <1>1, <2>1 DEF Clean, Inside
  <2>2. CASE \E l \in Lists : e = ListHead(l) \/ e = ListTail(l)
    BY <2>2 DEF Holds, Idle
  <2> QED
    BY <2>1, <2>2 DEF ListCells
<1> QED
  BY <1>1, <1>2, <1>3, <1>4 DEF AllSound

\* So the lists in use are sound.
LEMMA InvSound ==
    ListInv => ListsSound
BY InvIs, HoldsSound DEF ListInv, ListsSound

\* Before the first command no list is in use.
LEMMA InvInit ==
    ListInit => ListInv
<1> SUFFICES ASSUME ListInit PROVE ListInv
  OBVIOUS
<1>1. links \in ListMemory /\ (\A e \in ListCells : links.next[e] = Null /\ links.prev[e] = Null)
  BY DEF ListInit, Unlinked, ListMemory
<1>2. Used = {}
  BY DEF ListInit, Used
<1>3. DOMAIN Seqs = {} /\ Seqs \in [{} -> Seq(Elems)]
  BY <1>2 DEF Seqs
<1>8. live = Inside(Seqs)
  BY <1>3 DEF ListInit, Inside
<1>4. Holds(links, Seqs)
  BY <1>1, <1>3, IsListCell DEF Holds, Apart, Idle
<1>5. Clean(links, Seqs)
  BY <1>1, IsListCell DEF Clean
<1>6. Min(Data) \in Data
  BY MinOf, ListConstants
<1>7. ListTypeOK
  BY <1>1, <1>6 DEF ListInit, ListTypeOK, ListMemory
<1> QED
  BY <1>4, <1>5, <1>7, <1>8 DEF ListInv

-----------------------------------------------------------------------------
(* The elements in the lists when one of the lists changes.                *)

\* The elements of a sequence, by place.
LEMMA SetIs ==
    ASSUME NEW E, NEW s \in Seq(E), NEW e
    PROVE  e \in ToSet(s) <=> \E k \in 1 .. Len(s) : s[k] = e
BY DEF ToSet

\* A sequence put into another brings its elements.
LEMMA PasteSet ==
    ASSUME NEW E, NEW s \in Seq(E), NEW c \in Seq(E), NEW p \in 0 .. Len(s)
    PROVE  ToSet(Paste(s, p, c)) = ToSet(s) \cup ToSet(c)
<1> DEFINE t == Paste(s, p, c)
           n == Len(s)
           w == Len(c)
<1>1. /\ t \in Seq(E) /\ Len(t) = n + w
      /\ \A k \in 1 .. p : t[k] = s[k]
      /\ \A k \in 1 .. w : t[p + k] = c[k]
      /\ \A k \in p + 1 .. n : t[k + w] = s[k]
  BY PasteIs
<1>2. n \in Nat /\ w \in Nat /\ p \in 0 .. n
  OBVIOUS
<1> HIDE DEF t, n, w
<1>3. ASSUME NEW k \in 1 .. n + w
      PROVE  (\E i \in 1 .. n : s[i] = t[k]) \/ \E i \in 1 .. w : c[i] = t[k]
  <2>1. CASE k <= p
    BY <1>1, <1>2, <2>1
  <2>2. CASE k > p /\ k <= p + w
    <3>1. k - p \in 1 .. w /\ p + (k - p) = k
      BY <1>2, <2>2
    <3> QED
      BY <1>1, <3>1
  <2>3. CASE k > p + w
    <3>1. k - w \in p + 1 .. n /\ (k - w) + w = k /\ k - w \in 1 .. n
      BY <1>2, <2>3
    <3> QED
      BY <1>1, <3>1
  <2> QED
    BY <1>2, <2>1, <2>2, <2>3
<1>4. ASSUME NEW i \in 1 .. n PROVE \E k \in 1 .. n + w : t[k] = s[i]
  <2>1. CASE i <= p
    BY <1>1, <1>2, <2>1
  <2>2. CASE i > p
    <3>1. i \in p + 1 .. n /\ i + w \in 1 .. n + w
      BY <1>2, <2>2
    <3> QED
      BY <1>1, <3>1
  <2> QED
    BY <1>2, <2>1, <2>2
<1>5. ASSUME NEW i \in 1 .. w PROVE \E k \in 1 .. n + w : t[k] = c[i]
  <2>1. p + i \in 1 .. n + w
    BY <1>2
  <2> QED
    BY <1>1, <2>1
<1>6. \A e : /\ e \in ToSet(t) <=> \E k \in 1 .. n + w : t[k] = e
             /\ e \in ToSet(s) <=> \E k \in 1 .. n : s[k] = e
             /\ e \in ToSet(c) <=> \E k \in 1 .. w : c[k] = e
  <2>1. /\ t \in Seq(E) /\ s \in Seq(E) /\ c \in Seq(E)
        /\ Len(t) = n + w /\ Len(s) = n /\ Len(c) = w
    BY <1>1 DEF n, w
  <2> QED
    BY <2>1, SetIs
<1>7. ASSUME NEW e \in ToSet(t) PROVE e \in ToSet(s) \cup ToSet(c)
  <2>1. PICK k \in 1 .. n + w : t[k] = e
    BY <1>6
  <2> QED
    BY <1>3, <1>6, <2>1
<1>8. ASSUME NEW e \in ToSet(s) \cup ToSet(c) PROVE e \in ToSet(t)
  <2>1. CASE e \in ToSet(s)
    <3>1. PICK k \in 1 .. n : s[k] = e
      BY <1>6, <2>1
    <3> QED
      BY <1>4, <1>6, <3>1
  <2>2. CASE e \in ToSet(c)
    <3>1. PICK k \in 1 .. w : c[k] = e
      BY <1>6, <2>2
    <3> QED
      BY <1>5, <1>6, <3>1
  <2> QED
    BY <2>1, <2>2
<1> QED
  BY <1>7, <1>8 DEF t

\* A part cut out takes its elements.
LEMMA CutSet ==
    ASSUME NEW E, NEW s \in Seq(E), NEW j \in 0 .. Len(s), NEW i \in 0 .. j
    PROVE  ToSet(s) = ToSet(Cut(s, i, j)) \cup {s[k] : k \in i + 1 .. j}
<1> DEFINE t == Cut(s, i, j)
           n == Len(s)
           w == j - i
<1>1. /\ t \in Seq(E) /\ Len(t) = n - w
      /\ \A k \in 1 .. i : t[k] = s[k]
      /\ \A k \in i + 1 .. n - w : t[k] = s[k + w]
  BY CutIs
<1>2. n \in Nat /\ w \in Nat /\ i \in 0 .. j /\ j \in 0 .. n /\ i + w = j
  OBVIOUS
<1> HIDE DEF t, n, w
<1>3. ASSUME NEW k \in 1 .. n - w PROVE \E m \in 1 .. n : s[m] = t[k]
  <2>1. CASE k <= i
    BY <1>1, <1>2, <2>1
  <2>2. CASE k > i
    <3>1. k \in i + 1 .. n - w /\ k + w \in 1 .. n
      BY <1>2, <2>2
    <3> QED
      BY <1>1, <3>1
  <2> QED
    BY <1>2, <2>1, <2>2
<1>4. ASSUME NEW k \in 1 .. n, k \notin i + 1 .. j PROVE \E m \in 1 .. n - w : t[m] = s[k]
  <2>1. CASE k <= i
    <3>1. k \in 1 .. i /\ k \in 1 .. n - w
      BY <1>2, <2>1
    <3> QED
      BY <1>1, <3>1
  <2>2. CASE k > j
    <3>1. k - w \in i + 1 .. n - w /\ (k - w) + w = k /\ k - w \in 1 .. n - w
      BY <1>2, <2>2
    <3> QED
      BY <1>1, <3>1
  <2> QED
    BY <1>2, <1>4, <2>1, <2>2
<1>5. \A k \in i + 1 .. j : k \in 1 .. n
  BY <1>2
<1>6. \A e : /\ e \in ToSet(t) <=> \E k \in 1 .. n - w : t[k] = e
             /\ e \in ToSet(s) <=> \E k \in 1 .. n : s[k] = e
  <2>1. s \in Seq(E) /\ t \in Seq(E) /\ Len(t) = n - w /\ n = Len(s)
    BY <1>1 DEF n
  <2> QED
    BY <2>1, SetIs
<1>7. \A e \in ToSet(s) : e \in ToSet(t) \cup {s[k] : k \in i + 1 .. j}
  BY <1>4, <1>6
<1>8. ASSUME NEW e \in ToSet(t) \cup {s[k] : k \in i + 1 .. j} PROVE e \in ToSet(s)
  <2>1. CASE e \in ToSet(t)
    <3>1. PICK k \in 1 .. n - w : t[k] = e
      BY <1>6, <2>1
    <3> QED
      BY <1>3, <1>6, <3>1
  <2>2. ASSUME NEW k \in i + 1 .. j, e = s[k] PROVE e \in ToSet(s)
    BY <1>5, <1>6, <2>2
  <2> QED
    BY <2>1, <2>2
<1> QED
  BY <1>7, <1>8 DEF t

\* The elements of the lists other than l.
Others(S, l) == UNION {ToSet(S[x]) : x \in DOMAIN S \ {l}}

\* When one list changes, the elements of the others stay.
LEMMA OthersStay ==
    ASSUME NEW S, NEW T, NEW l \in DOMAIN S, DOMAIN T = DOMAIN S,
           \A x \in DOMAIN S : x # l => T[x] = S[x]
    PROVE  /\ Inside(S) = ToSet(S[l]) \cup Others(S, l)
           /\ Inside(T) = ToSet(T[l]) \cup Others(S, l)
<1>1. \A e : e \in Inside(S) <=> \E x \in DOMAIN S : e \in ToSet(S[x])
  BY DEF Inside
<1>2. \A e : e \in Inside(T) <=> \E x \in DOMAIN S : e \in ToSet(T[x])
  BY DEF Inside
<1>3. \A e : e \in Others(S, l) <=> \E x \in DOMAIN S : x # l /\ e \in ToSet(S[x])
  BY DEF Others
<1>4. \A e : e \in Inside(S) <=> e \in ToSet(S[l]) \cup Others(S, l)
  BY <1>1, <1>3
<1>5. \A e : e \in Inside(T) <=> e \in ToSet(T[l]) \cup Others(S, l)
  BY <1>2, <1>3
<1> QED
  BY <1>4, <1>5

-----------------------------------------------------------------------------
(* The commands that change a few links.                                   *)

\* list_init makes an empty list of the slot.
LEMMA InitHolds ==
    ASSUME NEW m, NEW S, Holds(m, S), NEW l \in Lists
    PROVE  Holds(list_init(m, l), [x \in DOMAIN S \cup {l} |-> IF x = l THEN << >> ELSE S[x]])
<1> DEFINE h == ListHead(l)
           t == ListTail(l)
           a1 == SetNext(m, h, t)
           a2 == SetPrev(a1, h, Null)
           a3 == SetPrev(a2, t, h)
           r == SetNext(a3, t, Null)
           T == [x \in DOMAIN S \cup {l} |-> IF x = l THEN << >> ELSE S[x]]
<1>1. Apart(S) /\ m \in ListMemory /\ h \in ListCells /\ t \in ListCells /\ h # t
  BY ListKinds, IsListCell DEF Holds
<1> HIDE DEF h, t, a1, a2, a3, r
<1>2. /\ a1 \in ListMemory /\ a1.prev = m.prev
      /\ \A c \in ListCells : a1.next[c] = IF c = h THEN t ELSE m.next[c]
  BY <1>1, SetNextIs DEF a1
<1>3. /\ a2 \in ListMemory /\ a2.next = a1.next
      /\ \A c \in ListCells : a2.prev[c] = IF c = h THEN Null ELSE a1.prev[c]
  <2>1. a1 \in ListMemory
    BY <1>2
  <2> QED
    BY <1>1, <2>1, SetPrevIs DEF a2
<1>4. /\ a3 \in ListMemory /\ a3.next = a2.next
      /\ \A c \in ListCells : a3.prev[c] = IF c = t THEN h ELSE a2.prev[c]
  <2>1. a2 \in ListMemory
    BY <1>3
  <2> QED
    BY <1>1, <2>1, SetPrevIs DEF a3
<1>5. /\ r \in ListMemory /\ r.prev = a3.prev
      /\ \A c \in ListCells : r.next[c] = IF c = t THEN Null ELSE a3.next[c]
  <2>1. a3 \in ListMemory
    BY <1>4
  <2> QED
    BY <1>1, <2>1, SetNextIs DEF r
<1>6. \A c \in ListCells :
         /\ r.next[c] = IF c = t THEN Null ELSE IF c = h THEN t ELSE m.next[c]
         /\ r.prev[c] = IF c = t THEN h ELSE IF c = h THEN Null ELSE m.prev[c]
  BY <1>2, <1>3, <1>4, <1>5
<1>7. /\ DOMAIN T = DOMAIN S \cup {l} /\ T[l] = << >> /\ \A x \in DOMAIN S : x # l => T[x] = S[x]
      /\ T \in [DOMAIN T -> Seq(Elems)] /\ DOMAIN T \subseteq Lists
  <2>1. DOMAIN S \subseteq Lists /\ \A x \in DOMAIN S : S[x] \in Seq(Elems)
    BY <1>1 DEF Apart
  <2>2. << >> \in Seq(Elems)
    OBVIOUS
  <2> QED
    BY <2>1, <2>2
<1> HIDE DEF T
<1>8. Apart(T)
  <2> SUFFICES ASSUME NEW x \in DOMAIN T, NEW y \in DOMAIN T,
                      NEW i \in 1 .. Len(T[x]), NEW j \in 1 .. Len(T[y]), T[x][i] = T[y][j]
               PROVE  x = y /\ i = j
    BY <1>7 DEF Apart
  <2>1. x # l /\ y # l
    BY <1>7
  <2> QED
    BY <1>1, <1>7, <2>1 DEF Apart
<1>9. ASSUME NEW x \in DOMAIN S, x # l PROVE Lined(r, x, T[x])
  <2>1. /\ Len(S[x]) \in Nat /\ x \in Lists
        /\ Cell(S[x], x, 0) = ListHead(x) /\ Cell(S[x], x, Len(S[x]) + 1) = ListTail(x)
        /\ \A k \in 1 .. Len(S[x]) : Cell(S[x], x, k) \in Elems
        /\ \A k \in 0 .. Len(S[x]) + 1 : Cell(S[x], x, k) \in ListCells
    BY <1>1, CellIs
  <2>2. ASSUME NEW k \in 0 .. Len(S[x]) + 1 PROVE Cell(S[x], x, k) # h /\ Cell(S[x], x, k) # t
    <3>1. k = 0 \/ k = Len(S[x]) + 1 \/ k \in 1 .. Len(S[x])
      BY <2>1
    <3> QED
      BY <1>9, <2>1, <3>1, ListKinds DEF h, t
  <2>3. ASSUME NEW k \in 0 .. Len(S[x])
        PROVE  /\ r.next[Cell(S[x], x, k)] = Cell(S[x], x, k + 1)
               /\ r.prev[Cell(S[x], x, k + 1)] = Cell(S[x], x, k)
    <3>1. k \in 0 .. Len(S[x]) + 1 /\ k + 1 \in 0 .. Len(S[x]) + 1
      BY <2>1
    <3>2. m.next[Cell(S[x], x, k)] = Cell(S[x], x, k + 1) /\ m.prev[Cell(S[x], x, k + 1)] = Cell(S[x], x, k)
      BY LinksAre
    <3> QED
      BY <1>6, <2>1, <2>2, <3>1, <3>2
  <2>4. 0 \in 0 .. Len(S[x]) + 1 /\ Len(S[x]) + 1 \in 0 .. Len(S[x]) + 1
    BY <2>1
  <2>5. m.prev[ListHead(x)] = Null /\ m.next[ListTail(x)] = Null
    BY DEF Holds, Lined
  <2>6. r.prev[ListHead(x)] = Null /\ r.next[ListTail(x)] = Null
    BY <1>6, <2>1, <2>2, <2>4, <2>5
  <2> QED
    BY <1>7, <1>9, <2>3, <2>6 DEF Lined
<1>10. Lined(r, l, << >>)
  <2>1. Cell(<< >>, l, 0) = h /\ Cell(<< >>, l, 0 + 1) = t
    BY DEF Cell, h, t
  <2>2. r.prev[h] = Null /\ r.next[t] = Null /\ r.next[h] = t /\ r.prev[t] = h
    BY <1>1, <1>6
  <2>3. \A k \in 0 .. Len(<< >>) : k = 0
    OBVIOUS
  <2> QED
    BY <2>1, <2>2, <2>3 DEF Lined, h, t
<1>11. ASSUME NEW x \in Lists \ DOMAIN T PROVE Idle(r, x)
  <2>1. x \in Lists \ DOMAIN S /\ x # l
    BY <1>7
  <2>2. Idle(m, x)
    BY <2>1 DEF Holds
  <2>3. \A c \in {ListHead(x), ListTail(x)} : c \in ListCells /\ c # h /\ c # t
    BY <2>1, ListKinds, IsListCell DEF h, t
  <2> QED
    BY <1>6, <2>2, <2>3 DEF Idle
<1>12. Holds(r, T)
  BY <1>5, <1>7, <1>8, <1>9, <1>10, <1>11 DEF Holds
<1> QED
  BY <1>12 DEF list_init, r, a3, a2, a1, h, t, T

\* A list is created: CreateList keeps the invariant.
LEMMA CreateListInv ==
    ASSUME ListInv, NEW l \in Lists, CreateList(l)
    PROVE  ListInv'
<1> DEFINE T == [x \in DOMAIN Seqs \cup {l} |-> IF x = l THEN << >> ELSE Seqs[x]]
<1>1. /\ Holds(links, Seqs) /\ DOMAIN Seqs = Used /\ Used \subseteq Lists
      /\ value \in [Elems -> Data] /\ listInUse \in [Lists -> BOOLEAN]
  BY InvIs
<1>2. Holds(list_init(links, l), T)
  BY <1>1, InitHolds
<1>3. Leave(list_init(links, l), value, live \ ElemsOf(l)) /\ listInUse' = [listInUse EXCEPT ![l] = TRUE]
  BY DEF CreateList
<1>5. live \ ElemsOf(l) = Inside(T)
  <2>1. /\ Apart(Seqs) /\ live = Inside(Seqs)
        /\ ElemsOf(l) = IF l \in Used THEN ToSet(Seqs[l]) ELSE {}
    BY InvIs DEF ElemsOf, Used
  <2>2. \A e : e \in Inside(Seqs) <=> \E x \in Used : e \in ToSet(Seqs[x])
    BY <1>1 DEF Inside
  <2>3. DOMAIN T = Used \cup {l} /\ ToSet(T[l]) = {} /\ \A x \in Used : x # l => T[x] = Seqs[x]
    BY <1>1 DEF ToSet
  <2> HIDE DEF T
  <2>4. \A e : e \in Inside(T) <=> \E x \in Used : x # l /\ e \in ToSet(Seqs[x])
    <3>1. \A e : e \in Inside(T) <=> \E x \in DOMAIN T : e \in ToSet(T[x])
      BY DEF Inside
    <3> QED
      BY <2>3, <3>1
  <2>5. ASSUME NEW x \in Used, x # l, l \in Used, NEW e \in ToSet(Seqs[x])
        PROVE  e \notin ToSet(Seqs[l])
    <3>1. Seqs[x] \in Seq(Elems) /\ Seqs[l] \in Seq(Elems)
      BY <2>1, <1>1, <2>5, CellIs
    <3>2. PICK k \in 1 .. Len(Seqs[x]) : Seqs[x][k] = e
      BY <2>5, <3>1, SetIs
    <3>3. \A j \in 1 .. Len(Seqs[l]) : Seqs[l][j] # e
      BY <1>1, <2>1, <2>5, <3>2 DEF Apart
    <3> QED
      BY <3>1, <3>3, SetIs
  <2>6. \A e : e \in live \ ElemsOf(l) <=> e \in Inside(T)
    BY <2>1, <2>2, <2>4, <2>5
  <2> QED
    BY <2>6
<1>4. listInUse' \in [Lists -> BOOLEAN] /\ DOMAIN T = {x \in Lists : listInUse'[x]}
  BY <1>1, <1>3 DEF Used
<1> HIDE DEF T
<1> QED
  BY <1>1, <1>2, <1>3, <1>4, <1>5, LeaveInv

\* A step that holds lists with the same slots, and keeps what is in them.
LEMMA RelinkInv ==
    ASSUME ListInv, NEW m, NEW S, NEW v, NEW kept, Holds(m, S), DOMAIN S = Used, v \in [Elems -> Data],
           Leave(m, v, kept), kept = Inside(S), UNCHANGED listInUse
    PROVE  ListInv' /\ Seqs' = S
<1>1. listInUse' \in [Lists -> BOOLEAN] /\ DOMAIN S = {l \in Lists : listInUse'[l]}
  BY InvIs DEF Used
<1> QED
  BY <1>1, LeaveInv

\* An element with its data put in at one place.
LEMMA AddInv ==
    ASSUME ListInv, NEW l \in Used, NEW d \in Data, NEW e \in Elems \ live,
           NEW p \in 0 .. Len(Seqs[l]), NEW v, v = [value EXCEPT ![e] = d],
           Leave(list_insert(links, Cell(Seqs[l], l, p + 1), e), v, live \cup {e}), UNCHANGED listInUse
    PROVE  ListInv'
<1>1. /\ Holds(links, Seqs) /\ Apart(Seqs) /\ DOMAIN Seqs = Used /\ value \in [Elems -> Data]
      /\ \A x \in DOMAIN Seqs : \A k \in 1 .. Len(Seqs[x]) : Seqs[x][k] # e
  BY InvIs
<1>2. Holds(list_insert(links, Cell(Seqs[l], l, p + 1), e), PutIn(Seqs, l, p, <<e>>))
  BY <1>1, InsertHolds
<1>3. DOMAIN PutIn(Seqs, l, p, <<e>>) = Used
  BY <1>1 DEF PutIn
<1>4. v \in [Elems -> Data]
  BY <1>1
<1>5. live \cup {e} = Inside(PutIn(Seqs, l, p, <<e>>))
  <2> DEFINE c == <<e>>
             T == PutIn(Seqs, l, p, c)
  <2>1. c \in Seq(Elems) /\ ToSet(c) = {e} /\ Seqs[l] \in Seq(Elems)
    BY <1>1, CellIs DEF ToSet
  <2>2. DOMAIN T = DOMAIN Seqs /\ T[l] = Paste(Seqs[l], p, c) /\ \A x \in DOMAIN Seqs : x # l => T[x] = Seqs[x]
    BY <1>1 DEF PutIn
  <2> HIDE DEF T, c
  <2>3. ToSet(T[l]) = ToSet(Seqs[l]) \cup {e}
    BY <2>1, <2>2, PasteSet
  <2>4. Inside(Seqs) = ToSet(Seqs[l]) \cup Others(Seqs, l) /\ Inside(T) = ToSet(T[l]) \cup Others(Seqs, l)
    BY <1>1, <2>2, OthersStay
  <2>5. live = Inside(Seqs)
    BY InvIs
  <2> QED
    BY <2>3, <2>4, <2>5 DEF T, c
<1> QED
  BY <1>2, <1>3, <1>4, <1>5, RelinkInv

\* The place list_insert_ordered finds.
LEMMA OrderedPlace ==
    ASSUME NEW m, NEW S, Holds(m, S), NEW l \in DOMAIN S, NEW d, NEW e
    PROVE  \E p \in 0 .. Len(S[l]) :
              /\ list_insert_ordered(m, d, l, e) = list_insert(m, Cell(S[l], l, p + 1), e)
              /\ \A k \in 1 .. p : ~less(d, e, S[l][k])
              /\ p < Len(S[l]) => less(d, e, S[l][p + 1])
<1> DEFINE s == Append(Walk(m, l), list_end(l))
           n == Len(S[l])
           Test(x) == x = list_end(l) \/ less(d, e, x)
           I == {i \in 1 .. Len(s) : Test(s[i])}
           k == SelectInSeq(s, Test)
<1>1. /\ Apart(S) /\ S[l] \in Seq(Elems) /\ n \in Nat /\ Walk(m, l) = S[l]
      /\ Cell(S[l], l, n + 1) = list_end(l)
      /\ \A i \in 1 .. n : Cell(S[l], l, i) = S[l][i] /\ S[l][i] \in Elems
  <2>1. Apart(S) /\ Walk(m, l) = S[l] /\ list_end(l) = Cell(S[l], l, n + 1)
    <3>1. Walk(m, l) = S[l]
      BY WalkHolds
    <3>2. list_end(l) = Cell(S[l], l, n + 1)
      BY HoldsPlaces
    <3> QED
      BY <3>1, <3>2 DEF Holds
  <2>2. S[l] \in Seq(Elems) /\ n \in Nat
        /\ \A i \in 1 .. n : Cell(S[l], l, i) = S[l][i] /\ S[l][i] \in Elems
    BY <2>1, CellIs
  <2> QED
    BY <2>1, <2>2
<1>2. /\ Len(s) = n + 1
      /\ \A i \in 1 .. n + 1 : s[i] = Cell(S[l], l, i)
  <2>1. Len(s) = n + 1 /\ \A i \in 1 .. n : s[i] = S[l][i]
    BY <1>1
  <2>2. s[n + 1] = list_end(l)
    BY <1>1
  <2>3. \A i \in 1 .. n + 1 : i \in 1 .. n \/ i = n + 1
    BY <1>1
  <2> QED
    BY <1>1, <2>1, <2>2, <2>3
<1> HIDE DEF s, n
<1>3. n + 1 \in I /\ I \in SUBSET Nat
  BY <1>1, <1>2
<1>4. k = IF I # {} THEN Min(I) ELSE 0
  BY DEF SelectInSeq
<1>5. \E i \in I : \A j \in I : i <= j
  BY <1>3, Least
<1>6. k \in I /\ \A j \in I : k <= j
  BY <1>3, <1>4, <1>5 DEF Min
<1> HIDE DEF k
<1>7. k \in 1 .. n + 1 /\ k - 1 \in 0 .. n /\ (k - 1) + 1 = k
  BY <1>1, <1>2, <1>6
<1>8. list_insert_ordered(m, d, l, e) = list_insert(m, s[k], e)
  BY DEF list_insert_ordered, k, s
<1>9. ASSUME NEW i \in 1 .. k - 1 PROVE ~less(d, e, S[l][i])
  <2>1. i \in 1 .. n + 1 /\ i \in 1 .. n /\ ~(k <= i)
    BY <1>1, <1>7
  <2>2. i \notin I
    BY <2>1, <1>6
  <2>3. ~Test(s[i])
    BY <1>2, <2>1, <2>2
  <2> QED
    BY <1>1, <1>2, <2>1, <2>3
<1>10. k - 1 < n => less(d, e, S[l][k])
  <2> SUFFICES ASSUME k - 1 < n PROVE less(d, e, S[l][k])
    OBVIOUS
  <2>1. k \in 1 .. n /\ s[k] = S[l][k] /\ S[l][k] \in Elems
    BY <1>1, <1>2, <1>7
  <2>2. s[k] # list_end(l)
    BY <2>1, ListKinds DEF list_end
  <2> QED
    BY <1>6, <2>1, <2>2
<1> QED
  BY <1>2, <1>7, <1>8, <1>9, <1>10 DEF n

\* An item is put into a list: the commands that insert keep the invariant.
LEMMA AddItemsInv ==
    ASSUME ListInv, NEW l \in Lists, NEW d \in Data,
           \/ ListInsertOrdered(l, d) \/ ListPushFront(l, d) \/ ListPushBack(l, d)
           \/ \E pos \in Positions : ListInsert(l, pos, d)
    PROVE  ListInv'
<1>1. /\ Holds(links, Seqs) /\ DOMAIN Seqs = Used
      /\ \A x \in Used : Size(x) = Len(Seqs[x]) /\ Len(Seqs[x]) \in Nat
  BY InvIs
<1>2. CASE ListInsertOrdered(l, d)
  <2>1. PICK e \in Elems \ live :
           /\ l \in Used
           /\ Leave(list_insert_ordered(links, [value EXCEPT ![e] = d], l, e), [value EXCEPT ![e] = d], live \cup {e})
           /\ UNCHANGED listInUse
    BY <1>2 DEF ListInsertOrdered, AddItem, Used
  <2>2. PICK p \in 0 .. Len(Seqs[l]) :
           list_insert_ordered(links, [value EXCEPT ![e] = d], l, e)
              = list_insert(links, Cell(Seqs[l], l, p + 1), e)
    BY <1>1, <2>1, OrderedPlace
  <2> QED
    BY <2>1, <2>2, AddInv
<1>3. CASE ListPushFront(l, d)
  <2>1. PICK e \in Elems \ live :
           /\ l \in Used
           /\ Leave(list_push_front(links, l, e), [value EXCEPT ![e] = d], live \cup {e})
           /\ UNCHANGED listInUse
    BY <1>3 DEF ListPushFront, AddItem, Used
  <2>2. list_push_front(links, l, e) = list_insert(links, Cell(Seqs[l], l, 0 + 1), e)
    BY <1>1, <2>1, HoldsPlaces DEF list_push_front
  <2>3. 0 \in 0 .. Len(Seqs[l])
    BY <1>1, <2>1
  <2> QED
    BY <2>1, <2>2, <2>3, AddInv
<1>4. CASE ListPushBack(l, d)
  <2>1. PICK e \in Elems \ live :
           /\ l \in Used
           /\ Leave(list_push_back(links, l, e), [value EXCEPT ![e] = d], live \cup {e})
           /\ UNCHANGED listInUse
    BY <1>4 DEF ListPushBack, AddItem, Used
  <2>2. list_push_back(links, l, e) = list_insert(links, Cell(Seqs[l], l, Len(Seqs[l]) + 1), e)
    BY <1>1, <2>1, HoldsPlaces DEF list_push_back
  <2>3. Len(Seqs[l]) \in 0 .. Len(Seqs[l])
    BY <1>1, <2>1
  <2> QED
    BY <2>1, <2>2, <2>3, AddInv
<1>5. ASSUME NEW pos \in Positions, ListInsert(l, pos, d) PROVE ListInv'
  <2>1. PICK e \in Elems \ live :
           /\ l \in Used /\ pos <= Size(l)
           /\ Leave(list_insert(links, At(links, l, pos), e), [value EXCEPT ![e] = d], live \cup {e})
           /\ UNCHANGED listInUse
    BY <1>5 DEF ListInsert, AddItem, Used
  <2>2. pos \in 0 .. Len(Seqs[l])
    BY <1>1, <2>1 DEF Positions
  <2>3. At(links, l, pos) = Cell(Seqs[l], l, pos + 1)
    BY <1>1, <2>1, <2>2, HoldsPlaces
  <2> QED
    BY <2>1, <2>2, <2>3, AddInv
<1> QED
  BY <1>2, <1>3, <1>4, <1>5

\* An element taken out and freed.
LEMMA DropHolds ==
    ASSUME NEW m, NEW S, Holds(m, S), NEW l \in DOMAIN S, NEW k \in 1 .. Len(S[l])
    PROVE  Holds(free(list_remove(m, S[l][k]), S[l][k]), CutOut(S, l, k - 1, k))
<1> DEFINE i == k - 1
           T == CutOut(S, l, i, k)
           e == S[l][k]
<1>1. Holds(list_remove(m, e), T)
  BY RemoveHolds
<1>2. Apart(S) /\ k \in 0 .. Len(S[l]) /\ i \in 0 .. k /\ k \in i + 1 .. k
  BY CellIs DEF Holds
<1>3. e \in Elems
  BY <1>2, CellIs
<1> HIDE DEF i
<1>4. /\ Apart(T) /\ DOMAIN T = DOMAIN S
      /\ \A j \in i + 1 .. k : \A x \in DOMAIN S : \A n \in 1 .. Len(T[x]) : T[x][n] # S[l][j]
  <2>1. Apart(S) /\ k \in 0 .. Len(S[l]) /\ i \in 0 .. k
    BY <1>2
  <2> HIDE DEF e
  <2>2. Apart(T) /\ DOMAIN T = DOMAIN S
    BY <2>1, CutApart
  <2>3. \A j \in i + 1 .. k : \A x \in DOMAIN S : \A n \in 1 .. Len(T[x]) : T[x][n] # S[l][j]
    BY <2>1, CutApart
  <2> QED
    BY <2>2, <2>3
<1> HIDE DEF T
<1>5. \A x \in DOMAIN T : \A n \in 1 .. Len(T[x]) : T[x][n] # e
  BY <1>2, <1>4
<1> HIDE DEF e
<1>6. e \in Elems \ Inside(T)
  BY <1>3, <1>4, <1>5, InsideIs
<1> QED
  BY <1>1, <1>6, FreeHolds DEF T, e, i

\* An element is removed and freed: Drop keeps the invariant.
LEMMA DropInv ==
    ASSUME ListInv, NEW l \in Used, NEW k \in 1 .. Len(Seqs[l]), Drop(Seqs[l][k])
    PROVE  ListInv'
<1>1. Holds(links, Seqs) /\ DOMAIN Seqs = Used /\ value \in [Elems -> Data]
  BY InvIs
<1>2. Holds(free(list_remove(links, Seqs[l][k]), Seqs[l][k]), CutOut(Seqs, l, k - 1, k))
  BY <1>1, DropHolds
<1>3. DOMAIN CutOut(Seqs, l, k - 1, k) = Used
  BY <1>1 DEF CutOut
<1>4. live \ {Seqs[l][k]} = Inside(CutOut(Seqs, l, k - 1, k))
  <2> DEFINE i == k - 1
             T == CutOut(Seqs, l, i, k)
             s == Seqs[l]
  <2>1. Apart(Seqs) /\ live = Inside(Seqs) /\ s \in Seq(Elems)
        /\ k \in 0 .. Len(s) /\ i \in 0 .. k /\ i + 1 = k /\ \A n \in i + 1 .. k : n = k
    BY <1>1, InvIs, CellIs
  <2> HIDE DEF s, i
  <2>2. ToSet(s) = ToSet(Cut(s, i, k)) \cup {s[n] : n \in i + 1 .. k}
    BY <2>1, CutSet
  <2>3. {s[n] : n \in i + 1 .. k} = {s[k]}
    BY <2>1
  <2>4. DOMAIN T = DOMAIN Seqs /\ T[l] = Cut(s, i, k) /\ \A x \in DOMAIN Seqs : x # l => T[x] = Seqs[x]
    BY <1>1 DEF CutOut, s
  <2>5. Apart(T) /\ \A x \in DOMAIN Seqs : \A n \in 1 .. Len(T[x]) : T[x][n] # s[k]
    <3>1. k \in i + 1 .. k
      BY <2>1
    <3>2. k \in 0 .. Len(Seqs[l])
      BY <2>1 DEF s
    <3>3. Apart(T)
      BY <1>1, <2>1, <3>2, CutApart
    <3>4. \A n \in i + 1 .. k : \A x \in DOMAIN Seqs : \A j \in 1 .. Len(T[x]) : T[x][j] # Seqs[l][n]
      BY <1>1, <2>1, <3>2, CutApart
    <3> QED
      BY <3>1, <3>3, <3>4 DEF s
  <2> HIDE DEF T
  <2>6. s[k] \notin Inside(T)
    BY <2>4, <2>5, InsideIs
  <2>7. Inside(Seqs) = ToSet(s) \cup Others(Seqs, l) /\ Inside(T) = ToSet(T[l]) \cup Others(Seqs, l)
    BY <1>1, <2>4, OthersStay DEF s
  <2>8. live \ {s[k]} = Inside(T)
    BY <2>1, <2>2, <2>3, <2>4, <2>6, <2>7
  <2> QED
    BY <2>8 DEF T, s, i
<1> QED
  BY <1>1, <1>2, <1>3, <1>4, RelinkInv DEF Drop, Relink

\* The commands that remove an element keep the invariant.
LEMMA DropsInv ==
    ASSUME ListInv, NEW l \in Lists,
           ListPopFront(l) \/ ListPopBack(l) \/ \E pos \in Positions : ListRemove(l, pos)
    PROVE  ListInv'
<1>1. /\ Holds(links, Seqs) /\ DOMAIN Seqs = Used /\ Apart(Seqs)
      /\ \A x \in Used : Size(x) = Len(Seqs[x]) /\ Len(Seqs[x]) \in Nat
      /\ \A x \in Used : \A k \in 1 .. Len(Seqs[x]) : Cell(Seqs[x], x, k) = Seqs[x][k]
  BY InvIs, CellIs
<1>2. CASE ListPopFront(l)
  <2>1. l \in Used /\ Size(l) > 0 /\ Drop(list_begin(links, l))
    BY <1>2 DEF ListPopFront, Used
  <2>2. 1 \in 1 .. Len(Seqs[l])
    BY <1>1, <2>1
  <2>3. list_begin(links, l) = Seqs[l][1]
    BY <1>1, <2>1, <2>2, HoldsPlaces
  <2> QED
    BY <2>1, <2>2, <2>3, DropInv
<1>3. CASE ListPopBack(l)
  <2>1. l \in Used /\ Size(l) > 0 /\ Drop(links.prev[ListTail(l)])
    BY <1>3 DEF ListPopBack, Used
  <2>2. Len(Seqs[l]) \in 1 .. Len(Seqs[l])
    BY <1>1, <2>1
  <2>3. links.prev[ListTail(l)] = Seqs[l][Len(Seqs[l])]
    BY <1>1, <2>1, <2>2, HoldsPlaces
  <2> QED
    BY <2>1, <2>2, <2>3, DropInv
<1>4. ASSUME NEW pos \in Positions, ListRemove(l, pos) PROVE ListInv'
  <2>1. l \in Used /\ pos < Size(l) /\ Drop(At(links, l, pos))
    BY <1>4 DEF ListRemove, Used
  <2>2. pos \in 0 .. Len(Seqs[l]) /\ pos + 1 \in 1 .. Len(Seqs[l])
    BY <1>1, <2>1 DEF Positions
  <2>3. At(links, l, pos) = Seqs[l][pos + 1]
    BY <1>1, <2>1, <2>2, HoldsPlaces
  <2> QED
    BY <2>1, <2>2, <2>3, DropInv
<1> QED
  BY <1>2, <1>3, <1>4

-----------------------------------------------------------------------------
(* list_splice, whatever the range and the place.                          *)

\* Where a range goes and where the place before which it goes then is.
Relocated(S, l, o, p, i, j) ==
    PutIn(CutOut(S, o, i, j), l, IF l = o /\ p >= j THEN p - (j - i) ELSE p, SubSeq(S[o], i + 1, j))

\* T is S without the range from i to j of l: what is behind it moves up.
RangeOut(T, S, l, i, j) ==
    /\ Apart(T) /\ DOMAIN T = DOMAIN S /\ T[l] = Cut(S[l], i, j)
    /\ \A x \in DOMAIN S : x # l => T[x] = S[x]
    /\ Len(T[l]) = Len(S[l]) - (j - i) /\ Len(T[l]) \in Nat /\ i <= Len(T[l])
    /\ \A k \in 0 .. Len(T[l]) + 1 : Cell(T[l], l, k) = Cell(S[l], l, IF k <= i THEN k ELSE k + (j - i))

\* The cells of the list a range is cut out of.
LEMMA CutCells ==
    ASSUME NEW S, Apart(S), NEW l \in DOMAIN S, NEW j \in 0 .. Len(S[l]), NEW i \in 0 .. j,
           NEW T, T = CutOut(S, l, i, j)
    PROVE  RangeOut(T, S, l, i, j)
<1> DEFINE s == S[l]
           t == Cut(s, i, j)
           U == CutOut(S, l, i, j)
<1>1. /\ Apart(U) /\ DOMAIN U = DOMAIN S /\ U[l] = t
      /\ \A k \in DOMAIN S : k # l => U[k] = S[k]
      /\ Len(t) = Len(s) - (j - i) /\ Len(t) \in Nat /\ i <= Len(t)
      /\ \A k \in 0 .. Len(t) + 1 : Cell(t, l, k) = Cell(s, l, IF k <= i THEN k ELSE k + (j - i))
  BY CutApart
<1>2. T = U
  OBVIOUS
<1> HIDE DEF t, s, U
<1> QED
  BY ONLY <1>1, <1>2 DEF s, t, RangeOut

\* r holds the lists S with the range from i to j of o moved to place p of l.
RangeMoved(r, S, l, o, p, i, j) ==
    /\ Holds(r, Relocated(S, l, o, p, i, j))
    /\ DOMAIN Relocated(S, l, o, p, i, j) = DOMAIN S
    /\ \A x \in DOMAIN S \ {l, o} : Relocated(S, l, o, p, i, j)[x] = S[x]
    /\ Relocated(S, l, o, p, i, j)[l] =
          Paste(CutOut(S, o, i, j)[l], IF l = o /\ p >= j THEN p - (j - i) ELSE p, SubSeq(S[o], i + 1, j))
    /\ l # o => Relocated(S, l, o, p, i, j)[o] = Cut(S[o], i, j)

\* list_splice takes the elements i + 1 .. j of list o and puts them after the
\* first p of list l, also when both are one list and p is not in the range.
LEMMA SpliceIs ==
    ASSUME NEW m, NEW S, Holds(m, S), NEW l \in DOMAIN S, NEW o \in DOMAIN S,
           NEW p \in 0 .. Len(S[l]), NEW j \in 0 .. Len(S[o]), NEW i \in 0 .. j,
           l = o => p < i \/ p >= j
    PROVE  RangeMoved(list_splice(m, Cell(S[l], l, p + 1), Cell(S[o], o, i + 1), Cell(S[o], o, j + 1)),
                      S, l, o, p, i, j)
<1> DEFINE T == CutOut(S, o, i, j)
           q == IF l = o /\ p >= j THEN p - (j - i) ELSE p
           c == SubSeq(S[o], i + 1, j)
           U == PutIn(T, l, q, c)
<1>1. Apart(S) /\ Len(S[l]) \in Nat /\ Len(S[o]) \in Nat /\ S[o] \in Seq(Elems)
  BY CellIs DEF Holds
<1>2. /\ DOMAIN T = DOMAIN S /\ T[o] = Cut(S[o], i, j) /\ \A x \in DOMAIN S : x # o => T[x] = S[x]
  BY DEF CutOut
<1>3. /\ DOMAIN U = DOMAIN S /\ U[l] = Paste(T[l], q, c) /\ \A x \in DOMAIN S : x # l => U[x] = T[x]
  BY <1>2 DEF PutIn
<1>4. /\ Apart(T) /\ Len(T[o]) = Len(S[o]) - (j - i)
      /\ \A k \in 0 .. Len(T[o]) + 1 : Cell(T[o], o, k) = Cell(S[o], o, IF k <= i THEN k ELSE k + (j - i))
  <2>1. /\ Apart(S) /\ o \in DOMAIN S /\ j \in 0 .. Len(S[o]) /\ i \in 0 .. j
        /\ T = CutOut(S, o, i, j)
    BY <1>1
  <2> HIDE DEF T
  <2>2. RangeOut(T, S, o, i, j)
    BY ONLY <2>1, CutCells
  <2> QED
    BY ONLY <2>2 DEF RangeOut
<1>5. q \in 0 .. Len(T[l]) /\ Cell(T[l], l, q + 1) = Cell(S[l], l, p + 1)
  <2>1. CASE l # o
    BY <2>1, <1>2
  <2>2. CASE l = o /\ p < i
    <3>1. q = p /\ q \in 0 .. Len(T[l]) /\ q + 1 \in 0 .. Len(T[l]) + 1 /\ q + 1 <= i
      BY <2>2, <1>1, <1>4
    <3> QED
      BY <2>2, <3>1, <1>4
  <2>3. CASE l = o /\ p >= j
    <3>1. q = p - (j - i) /\ q \in 0 .. Len(T[l]) /\ q + 1 \in 0 .. Len(T[l]) + 1 /\ ~(q + 1 <= i)
          /\ (q + 1) + (j - i) = p + 1
      <4>1. Len(T[l]) = Len(S[l]) - (j - i) /\ p \in 0 .. Len(S[l]) /\ j \in Nat /\ i \in 0 .. j
            /\ Len(S[l]) \in Nat /\ q = p - (j - i)
        BY <2>3, <1>1, <1>4
      <4> HIDE DEF q, T
      <4> QED
        BY <2>3, <4>1
    <3> HIDE DEF q
    <3>2. Cell(T[o], o, q + 1) = Cell(S[o], o, (q + 1) + (j - i))
      BY <2>3, <3>1, <1>4
    <3> QED
      BY <2>3, <3>1, <3>2
  <2> QED
    BY <2>1, <2>2, <2>3
<1> HIDE DEF T, q, c, U
<1>6. CASE i # j
  <2>1. j \in 1 .. Len(S[o]) /\ i \in 0 .. j - 1
    BY <1>1, <1>6
  <2>2. Holds(list_splice(m, Cell(T[l], l, q + 1), Cell(S[o], o, i + 1), Cell(S[o], o, j + 1)), U)
    BY <1>5, <2>1, SpliceHolds DEF T, c, U
  <2> QED
    BY <1>2, <1>3, <1>5, <2>2 DEF RangeMoved, Relocated, U, T, q, c
<1>7. CASE i = j
  <2>1. \A x \in DOMAIN S : T[x] = S[x]
    <3>1. T[o] = S[o]
      <4>1. /\ Cut(S[o], i, j) \in Seq(Elems) /\ Len(Cut(S[o], i, j)) = Len(S[o]) - (j - i)
            /\ \A k \in 1 .. i : Cut(S[o], i, j)[k] = S[o][k]
            /\ \A k \in i + 1 .. Len(S[o]) - (j - i) : Cut(S[o], i, j)[k] = S[o][k + (j - i)]
        BY <1>1, CutIs
      <4>2. \A k \in 1 .. Len(S[o]) : Cut(S[o], i, j)[k] = S[o][k]
        BY <1>1, <1>7, <4>1
      <4>3. Len(Cut(S[o], i, j)) = Len(S[o])
        BY <1>1, <1>7, <4>1
      <4> QED
        BY <1>1, <1>2, <4>1, <4>2, <4>3, SeqEqual
    <3> QED
      BY <1>2, <3>1
  <2>7. c \in Seq(Elems)
    <3>1. i + 1 \in 1 .. Len(S[o]) + 1 /\ j \in 0 .. Len(S[o]) /\ i + 1 <= j + 1
      BY <1>1, <1>7
    <3> QED
      BY <1>1, <3>1, PartIs DEF c
  <2>2. Len(c) = 0
    <3>1. i + 1 \in 1 .. Len(S[o]) + 1 /\ j \in 0 .. Len(S[o]) /\ i + 1 <= j + 1 /\ j - (i + 1) + 1 = 0
      BY <1>1, <1>7
    <3>2. SubSeq(S[o], i + 1, j) \in Seq(Elems) /\ Len(SubSeq(S[o], i + 1, j)) = j - (i + 1) + 1
      BY <1>1, <3>1, PartIs
    <3> QED
      BY <3>1, <3>2 DEF c
  <2>3. U[l] = S[l]
    <3>1. S[l] \in Seq(Elems) /\ T[l] = S[l] /\ q \in 0 .. Len(S[l])
      BY <1>1, <1>5, <2>1, CellIs
    <3>2. /\ Paste(S[l], q, c) \in Seq(Elems) /\ Len(Paste(S[l], q, c)) = Len(S[l]) + Len(c)
          /\ \A k \in 1 .. q : Paste(S[l], q, c)[k] = S[l][k]
          /\ \A k \in q + 1 .. Len(S[l]) : Paste(S[l], q, c)[k + Len(c)] = S[l][k]
      <4> DEFINE s == S[l]
      <4>1. s \in Seq(Elems) /\ q \in 0 .. Len(s) /\ c \in Seq(Elems)
        BY <2>7, <3>1
      <4> HIDE DEF s
      <4>2. /\ Paste(s, q, c) \in Seq(Elems) /\ Len(Paste(s, q, c)) = Len(s) + Len(c)
            /\ \A k \in 1 .. q : Paste(s, q, c)[k] = s[k]
            /\ \A k \in 1 .. Len(c) : Paste(s, q, c)[q + k] = c[k]
            /\ \A k \in q + 1 .. Len(s) : Paste(s, q, c)[k + Len(c)] = s[k]
        BY ONLY <4>1, PasteIs
      <4> QED
        BY ONLY <4>2 DEF s
    <3>3. \A k \in 1 .. Len(S[l]) : Paste(S[l], q, c)[k] = S[l][k]
      <4> SUFFICES ASSUME NEW k \in 1 .. Len(S[l]) PROVE Paste(S[l], q, c)[k] = S[l][k]
        OBVIOUS
      <4>1. k \in 1 .. q \/ k \in q + 1 .. Len(S[l])
        BY <3>1
      <4>2. k + Len(c) = k
        BY <2>2
      <4> QED
        BY <3>2, <4>1, <4>2
    <3>4. Len(Paste(S[l], q, c)) = Len(S[l])
      BY <1>1, <2>2, <3>2
    <3>5. Paste(S[l], q, c) = S[l]
      BY <3>1, <3>2, <3>3, <3>4, SeqEqual
    <3> QED
      BY <1>3, <3>1, <3>5
  <2>4. \A x \in DOMAIN S : U[x] = S[x]
    BY <1>3, <2>1, <2>3
  <2>5. U = S
    <3>1. S = [x \in DOMAIN S |-> S[x]] /\ U = [x \in DOMAIN U |-> U[x]]
      BY <1>1 DEF Apart, U, PutIn, T, CutOut
    <3> QED
      BY <1>3, <2>4, <3>1
  <2>6. list_splice(m, Cell(S[l], l, p + 1), Cell(S[o], o, i + 1), Cell(S[o], o, j + 1)) = m
    BY <1>7 DEF list_splice
  <2> QED
    BY <1>2, <1>3, <2>5, <2>6 DEF RangeMoved, Relocated, U, T, q, c
<1> QED
  BY <1>6, <1>7

\* The same elements are in the lists when a range has moved.
LEMMA RelocatedSet ==
    ASSUME NEW S, Apart(S), NEW l \in DOMAIN S, NEW o \in DOMAIN S, NEW p \in 0 .. Len(S[l]),
           NEW j \in 0 .. Len(S[o]), NEW i \in 0 .. j, l = o => p < i \/ p >= j
    PROVE  Inside(Relocated(S, l, o, p, i, j)) = Inside(S)
<1> DEFINE T == CutOut(S, o, i, j)
           q == IF l = o /\ p >= j THEN p - (j - i) ELSE p
           c == SubSeq(S[o], i + 1, j)
           U == PutIn(T, l, q, c)
<1>1. Len(S[l]) \in Nat /\ Len(S[o]) \in Nat /\ S[o] \in Seq(Elems) /\ S[l] \in Seq(Elems)
  BY CellIs
<1>2. /\ DOMAIN T = DOMAIN S /\ T[o] = Cut(S[o], i, j) /\ \A x \in DOMAIN S : x # o => T[x] = S[x]
  BY DEF CutOut
<1>3. /\ DOMAIN U = DOMAIN T /\ U[l] = Paste(T[l], q, c) /\ \A x \in DOMAIN T : x # l => U[x] = T[x]
  BY <1>2 DEF PutIn
<1>4. T[o] \in Seq(Elems) /\ Len(T[o]) = Len(S[o]) - (j - i)
  BY <1>1, <1>2, CutIs
<1>5. T[l] \in Seq(Elems) /\ q \in 0 .. Len(T[l])
  <2>1. CASE l # o
    BY <2>1, <1>1, <1>2
  <2>2. CASE l = o
    <3>1. Len(T[l]) = Len(S[l]) - (j - i) /\ j \in 0 .. Len(S[l]) /\ i \in 0 .. j /\ p \in 0 .. Len(S[l])
      BY <2>2, <1>4
    <3>2. q = IF p >= j THEN p - (j - i) ELSE p
      BY <2>2
    <3>3. p < i \/ p >= j
      BY <2>2
    <3> HIDE DEF q, T
    <3>4. q \in 0 .. Len(T[l])
      BY <1>1, <3>1, <3>2, <3>3
    <3> QED
      BY <1>4, <2>2, <3>4
  <2> QED
    BY <2>1, <2>2
<1> HIDE DEF T, q, U
<1>6. c \in Seq(Elems) /\ ToSet(c) = {S[o][k] : k \in i + 1 .. j}
  <2> DEFINE s == S[o]
             n == j - i
  <2>1. /\ i + 1 \in 1 .. Len(s) + 1 /\ j \in 0 .. Len(s) /\ i + 1 <= j + 1 /\ s \in Seq(Elems)
        /\ j - (i + 1) + 1 = n /\ n \in Nat
    BY <1>1
  <2> HIDE DEF s, n
  <2>2. /\ SubSeq(s, i + 1, j) \in Seq(Elems) /\ Len(SubSeq(s, i + 1, j)) = j - (i + 1) + 1
        /\ \A k \in 1 .. j - (i + 1) + 1 : SubSeq(s, i + 1, j)[k] = s[k + (i + 1) - 1]
    BY <2>1, PartIs
  <2>3. /\ c \in Seq(Elems) /\ Len(c) = n
        /\ \A k \in 1 .. n : c[k] = s[k + (i + 1) - 1]
    BY <2>1, <2>2 DEF s
  <2> HIDE DEF c
  <2>4. \A k \in 1 .. n : k + (i + 1) - 1 \in i + 1 .. j
    BY <2>1 DEF n
  <2>5. \A k \in i + 1 .. j : k - i \in 1 .. n /\ (k - i) + (i + 1) - 1 = k
    BY <2>1 DEF n
  <2>6. \A e : e \in ToSet(c) <=> \E k \in 1 .. n : c[k] = e
    BY <2>3, SetIs
  <2>7. \A e : e \in ToSet(c) <=> e \in {s[k] : k \in i + 1 .. j}
    <3>1. ASSUME NEW e, NEW k \in 1 .. n, c[k] = e PROVE e \in {s[x] : x \in i + 1 .. j}
      BY <2>3, <2>4, <3>1
    <3>2. ASSUME NEW e, NEW k \in i + 1 .. j, s[k] = e PROVE \E x \in 1 .. n : c[x] = e
      BY <2>3, <2>5, <3>2
    <3> QED
      BY <2>6, <3>1, <3>2
  <2> QED
    BY <2>3, <2>7 DEF s
<1> HIDE DEF c
<1>7. ToSet(S[o]) = ToSet(T[o]) \cup ToSet(c)
  BY <1>1, <1>2, <1>6, CutSet
<1>8. ToSet(U[l]) = ToSet(T[l]) \cup ToSet(c)
  BY <1>3, <1>5, <1>6, PasteSet
<1>9. Inside(S) = ToSet(S[o]) \cup Others(S, o) /\ Inside(T) = ToSet(T[o]) \cup Others(S, o)
  BY <1>2, OthersStay
<1>10. Inside(T) = ToSet(T[l]) \cup Others(T, l) /\ Inside(U) = ToSet(U[l]) \cup Others(T, l)
  BY <1>2, <1>3, OthersStay
<1>11. Inside(U) = Inside(S)
  BY <1>7, <1>8, <1>9, <1>10
<1> QED
  BY <1>11 DEF Relocated, U, T, q, c

\* ListSplice keeps the invariant.
LEMMA SpliceInv ==
    ASSUME ListInv, NEW l \in Lists, NEW org \in Lists, NEW p \in Positions, NEW i \in Positions,
           NEW j \in Positions, ListSplice(l, org, p, i, j)
    PROVE  ListInv'
<1>1. /\ Holds(links, Seqs) /\ DOMAIN Seqs = Used /\ value \in [Elems -> Data]
      /\ \A x \in Used : Size(x) = Len(Seqs[x]) /\ Len(Seqs[x]) \in Nat
  BY InvIs
<1>2. /\ l \in Used /\ org \in Used /\ (l = org => p < i \/ p >= j)
      /\ p \in 0 .. Len(Seqs[l]) /\ j \in 0 .. Len(Seqs[org]) /\ i \in 0 .. j /\ i \in 0 .. Len(Seqs[org])
  BY <1>1 DEF ListSplice, Positions, Used
<1>3. /\ At(links, l, p) = Cell(Seqs[l], l, p + 1) /\ At(links, org, i) = Cell(Seqs[org], org, i + 1)
      /\ At(links, org, j) = Cell(Seqs[org], org, j + 1)
  BY <1>1, <1>2, HoldsPlaces
<1>4. /\ Holds(list_splice(links, At(links, l, p), At(links, org, i), At(links, org, j)),
               Relocated(Seqs, l, org, p, i, j))
      /\ DOMAIN Relocated(Seqs, l, org, p, i, j) = Used
  <2>1. RangeMoved(list_splice(links, Cell(Seqs[l], l, p + 1), Cell(Seqs[org], org, i + 1),
                               Cell(Seqs[org], org, j + 1)), Seqs, l, org, p, i, j)
    BY <1>1, <1>2, SpliceIs
  <2> QED
    BY <1>1, <1>3, <2>1 DEF RangeMoved
<1>5. live \ {} = Inside(Relocated(Seqs, l, org, p, i, j))
  <2>1. Apart(Seqs) /\ live = Inside(Seqs)
    BY <1>1, InvIs
  <2>2. Inside(Relocated(Seqs, l, org, p, i, j)) = Inside(Seqs)
    BY <1>1, <1>2, <2>1, RelocatedSet
  <2> QED
    BY <2>1, <2>2
<1> QED
  BY <1>1, <1>4, <1>5, RelinkInv DEF ListSplice, Relink

-----------------------------------------------------------------------------
(* The commands that change data, and the end of the program.              *)

\* Other data in the same lists.
LEMMA DataInv ==
    ASSUME ListInv, value' \in [Elems -> Data], UNCHANGED <<links, live, listInUse>>
    PROVE  ListInv'
<1>1. Used' = Used
  BY DEF Used
<1>2. Seqs' = Seqs
  BY <1>1 DEF Seqs
<1> QED
  BY <1>2 DEF ListInv, ListTypeOK, Holds, Clean

\* list_swap gives elements data.
LEMMA SwapKeeps ==
    ASSUME NEW d \in [Elems -> Data], NEW a \in Elems, NEW b \in Elems
    PROVE  list_swap(d, a, b) \in [Elems -> Data]
BY DEF list_swap

\* The elements of a list in use, by their places.
LEMMA PlaceIs ==
    ASSUME ListInv, NEW l \in Used, NEW k \in 0 .. Size(l) - 1
    PROVE  At(links, l, k) = Seqs[l][k + 1] /\ At(links, l, k) \in Elems
<1>1. /\ Holds(links, Seqs) /\ Apart(Seqs) /\ DOMAIN Seqs = Used
      /\ Size(l) = Len(Seqs[l]) /\ Len(Seqs[l]) \in Nat
  BY InvIs
<1>2. k \in 0 .. Len(Seqs[l]) /\ k + 1 \in 1 .. Len(Seqs[l])
  BY <1>1
<1>3. Cell(Seqs[l], l, k + 1) = Seqs[l][k + 1] /\ Seqs[l][k + 1] \in Elems
  BY <1>1, <1>2, CellIs
<1>4. At(links, l, k) = Cell(Seqs[l], l, k + 1)
  BY <1>1, <1>2, HoldsPlaces
<1> QED
  BY <1>3, <1>4

\* ListSwap keeps the invariant.
LEMMA SwapInv ==
    ASSUME ListInv, NEW l \in Lists, NEW p \in Positions, NEW q \in Positions, ListSwap(l, p, q)
    PROVE  ListInv'
<1>1. l \in Used /\ p < Size(l) /\ q < Size(l) /\ value \in [Elems -> Data]
      /\ Size(l) \in Nat
  BY InvIs DEF ListSwap, Used
<1>2. p \in 0 .. Size(l) - 1 /\ q \in 0 .. Size(l) - 1
  BY <1>1, FiniteCells DEF Positions
<1>3. At(links, l, p) \in Elems /\ At(links, l, q) \in Elems
  BY <1>1, <1>2, PlaceIs
<1>4. value' \in [Elems -> Data]
  BY <1>1, <1>3, SwapKeeps DEF ListSwap
<1> QED
  BY <1>4, DataInv DEF ListSwap

\* ListShuffle keeps the invariant: its loop swaps data only.
LEMMA ShuffleInv ==
    ASSUME ListInv, NEW l \in Lists, ListShuffle(l)
    PROVE  ListInv'
<1>1. l \in Used /\ value \in [Elems -> Data] /\ Size(l) \in Nat
  BY InvIs DEF ListShuffle, Used
<1>2. PICK random \in [1 .. Size(l) -> 0 .. Size(l) - 1] :
         value' = Loop(value, LAMBDA d, k : list_swap(d, At(links, l, k - 1), At(links, l, random[k])),
                       Size(l))
  BY DEF ListShuffle
<1> DEFINE n == Size(l)
           D == [Elems -> Data]
           I == [k \in 0 .. n |-> D]
           Round(d, k) == list_swap(d, At(links, l, k - 1), At(links, l, random[k]))
           g == [k \in 1 .. n |-> [d \in D |-> Round(d, k)]]
           after == CHOOSE h : h = [k \in 0 .. n |-> IF k = 0 THEN value ELSE Round(h[k - 1], k)]
<1>3. value' = after[n]
  BY <1>2, Zenon DEF Loop
<1>4. ASSUME NEW k \in 1 .. n, NEW d \in D PROVE Round(d, k) \in D
  <2>1. k - 1 \in 0 .. n - 1 /\ random[k] \in 0 .. n - 1
    <3>1. random \in [1 .. n -> 0 .. n - 1] /\ n \in Nat /\ k \in 1 .. n
      BY <1>1
    <3>2. random[k] \in 0 .. n - 1
      OBVIOUS
    <3> HIDE DEF n
    <3> QED
      BY <3>1, <3>2
  <2>2. At(links, l, k - 1) \in Elems /\ At(links, l, random[k]) \in Elems
    BY <1>1, <2>1, PlaceIs
  <2> QED
    BY <2>2, SwapKeeps
<1> HIDE DEF Round, D, n
<1>5. /\ \A k \in 0 .. n : I[k] = D
      /\ \A k \in 1 .. n : I[k - 1] = D /\ k - 1 \in 0 .. n
      /\ \A k \in 1 .. n : \A d \in D : g[k][d] = Round(d, k)
  BY <1>1 DEF n
<1> HIDE DEF I, g
<1>6. \E f : f = [k \in 0 .. n |-> IF k = 0 THEN value ELSE Round(f[k - 1], k)]
  <2>1. n \in Nat /\ value \in I[0] /\ \A k \in 1 .. n : \A d \in I[k - 1] : g[k][d] \in I[k]
    <3>1. n \in Nat /\ value \in D /\ 0 \in 0 .. n
      BY <1>1 DEF n, D
    <3>2. ASSUME NEW k \in 1 .. n, NEW d \in I[k - 1] PROVE g[k][d] \in I[k]
      <4>1. d \in D /\ k \in 0 .. n
        BY ONLY <1>5, <3>1, <3>2
      <4> QED
        BY ONLY <1>4, <1>5, <3>2, <4>1
    <3> QED
      BY <1>5, <3>1, <3>2
  <2>5. PICK f : Turns(f, n, value, g, I)
    BY <2>1, LoopRuns
  <2>2. /\ f = [k \in 0 .. n |-> IF k = 0 THEN value ELSE g[k][f[k - 1]]]
        /\ \A k \in 0 .. n : f[k] \in I[k]
    BY <2>5 DEF Turns
  <2>3. \A k \in 0 .. n : k # 0 => g[k][f[k - 1]] = Round(f[k - 1], k)
    BY <1>5, <2>2
  <2>4. f = [k \in 0 .. n |-> IF k = 0 THEN value ELSE Round(f[k - 1], k)]
    BY <2>2, <2>3
  <2> QED
    BY <2>4
<1>7. after = [k \in 0 .. n |-> IF k = 0 THEN value ELSE Round(after[k - 1], k)]
  BY <1>6
<1> HIDE DEF after
<1>8. \A k \in 0 .. n : after[k] \in I[k]
  <2>1. n \in Nat /\ after[0] \in I[0]
    BY <1>1, <1>5, <1>7 DEF n, D
  <2>2. \A k \in 1 .. n : after[k - 1] \in I[k - 1] => after[k] \in I[k]
    BY <1>4, <1>5, <1>7
  <2> QED
    BY <2>1, <2>2, LoopStays
<1>9. value' \in [Elems -> Data]
  BY <1>1, <1>3, <1>5, <1>8 DEF n, D
<1> QED
  BY <1>9, DataInv DEF ListShuffle

\* list_destroy removes and frees the elements from the front.
LEMMA DestroyHolds ==
    ASSUME NEW m, NEW S, Holds(m, S), NEW l \in DOMAIN S
    PROVE  \E T : /\ Holds(list_destroy(m, l), T) /\ DOMAIN T = DOMAIN S
                  /\ T[l] = << >> /\ \A x \in DOMAIN S : x # l => T[x] = S[x]
<1> DEFINE w == S[l]
           n == Len(w)
           Left(k, T) == /\ DOMAIN T = DOMAIN S /\ \A x \in DOMAIN S : x # l => T[x] = S[x]
                         /\ Len(T[l]) = n - k
                         /\ \A i \in 1 .. n - k : T[l][i] = w[i + k]
           I == [k \in 0 .. n |-> {r \in ListMemory : \E T : Holds(r, T) /\ Left(k, T)}]
           Round(r, k) == free(list_remove(r, w[k]), w[k])
           g == [k \in 1 .. n |-> [r \in I[k - 1] |-> Round(r, k)]]
           after == CHOOSE h : h = [k \in 0 .. n |-> IF k = 0 THEN m ELSE Round(h[k - 1], k)]
<1>1. list_destroy(m, l) = after[n]
  <2>1. w = Walk(m, l)
    BY WalkHolds
  <2> HIDE DEF w
  <2> QED
    BY <2>1, Zenon DEF list_destroy, Loop
<1>2. n \in Nat /\ Apart(S) /\ m \in ListMemory
  BY CellIs DEF Holds
<1> HIDE DEF w, n
<1>3. m \in I[0]
  <2>1. Left(0, S)
    BY <1>2 DEF w, n
  <2> HIDE DEF Left
  <2> QED
    BY <1>2, <2>1
<1>4. ASSUME NEW k \in 1 .. n, NEW r \in I[k - 1] PROVE Round(r, k) \in I[k]
  <2>1. k - 1 \in 0 .. n /\ k \in 0 .. n
    BY <1>2
  <2> HIDE DEF Left
  <2>2. PICK T : Holds(r, T) /\ Left(k - 1, T)
    BY <2>1
  <2>9. \A x \in DOMAIN S : x # l => T[x] = S[x]
    BY <2>2 DEF Left
  <2>3. DOMAIN T = DOMAIN S /\ Len(T[l]) = n - (k - 1) /\ \A i \in 1 .. n - (k - 1) : T[l][i] = w[i + (k - 1)]
    BY <2>2 DEF Left
  <2>4. Apart(T) /\ T[l] \in Seq(Elems) /\ l \in DOMAIN T
    BY <2>2, <2>3, CellIs DEF Holds
  <2>5. 1 \in 1 .. Len(T[l]) /\ T[l][1] = w[k]
    <3>1. 1 \in 1 .. n - (k - 1) /\ 1 + (k - 1) = k
      BY <1>2
    <3> QED
      BY <2>3, <3>1
  <2> DEFINE U == CutOut(T, l, 1 - 1, 1)
  <2>6. Holds(free(list_remove(r, w[k]), w[k]), U)
    BY <2>2, <2>4, <2>5, DropHolds
  <2>7. DOMAIN U = DOMAIN S /\ U[l] = Cut(T[l], 1 - 1, 1)
    BY <2>3 DEF CutOut
  <2>8. Left(k, U)
    <3>1. /\ Len(Cut(T[l], 0, 1)) = Len(T[l]) - (1 - 0)
          /\ \A i \in 0 + 1 .. Len(T[l]) - (1 - 0) : Cut(T[l], 0, 1)[i] = T[l][i + (1 - 0)]
      <4> DEFINE v == T[l]
                 p == 0
                 q == 1
      <4>1. v \in Seq(Elems) /\ q \in 0 .. Len(v) /\ p \in 0 .. q
        BY <2>4, <2>5
      <4> HIDE DEF v, p, q
      <4>2. /\ Len(Cut(v, p, q)) = Len(v) - (q - p)
            /\ \A i \in p + 1 .. Len(v) - (q - p) : Cut(v, p, q)[i] = v[i + (q - p)]
        BY ONLY <4>1, CutIs
      <4> QED
        BY <4>2 DEF v, p, q
    <3>2. 1 - 1 = 0
      OBVIOUS
    <3>3. Len(U[l]) = n - k
      <4>1. Len(U[l]) = Len(T[l]) - (1 - 0) /\ Len(T[l]) = n - (k - 1)
        BY <2>3, <2>7, <3>1, <3>2
      <4> HIDE DEF U
      <4> QED
        BY <1>2, <4>1
    <3>4. ASSUME NEW i \in 1 .. n - k PROVE U[l][i] = w[i + k]
      <4>1. i \in 0 + 1 .. Len(T[l]) - (1 - 0) /\ i + (1 - 0) \in 1 .. n - (k - 1)
            /\ (i + (1 - 0)) + (k - 1) = i + k
        BY <1>2, <2>3
      <4>2. Cut(T[l], 0, 1)[i] = T[l][i + (1 - 0)]
        BY <3>1, <4>1
      <4>3. T[l][i + (1 - 0)] = w[(i + (1 - 0)) + (k - 1)]
        BY <2>3, <4>1
      <4> QED
        BY <2>7, <3>2, <4>1, <4>2, <4>3
    <3>5. \A x \in DOMAIN S : x # l => U[x] = S[x]
      BY <2>3, <2>9 DEF CutOut
    <3> HIDE DEF U
    <3> QED
      BY <2>7, <3>3, <3>4, <3>5 DEF Left
  <2> HIDE DEF U
  <2> QED
    BY <2>1, <2>6, <2>8 DEF Holds
<1>5. \A k \in 1 .. n : k - 1 \in 0 .. n /\ \A c0 \in I[k - 1] : g[k][c0] = Round(c0, k) /\ g[k][c0] \in I[k]
  <2>1. \A k \in 1 .. n : k - 1 \in 0 .. n
    BY <1>2
  <2> HIDE DEF Round, n, I
  <2>2. \A k \in 1 .. n : \A c0 \in I[k - 1] : g[k][c0] = Round(c0, k)
    OBVIOUS
  <2> HIDE DEF g
  <2> QED
    BY <2>1, <2>2, <1>4
<1> HIDE DEF g, I, Round, n
<1>6. \E f : f = [k \in 0 .. n |-> IF k = 0 THEN m ELSE Round(f[k - 1], k)]
  <2>1. PICK f : Turns(f, n, m, g, I)
    BY <1>2, <1>3, <1>5, LoopRuns
  <2>2. /\ f = [k \in 0 .. n |-> IF k = 0 THEN m ELSE g[k][f[k - 1]]]
        /\ \A k \in 0 .. n : f[k] \in I[k]
    BY <2>1 DEF Turns
  <2>3. \A k \in 1 .. n : g[k][f[k - 1]] = Round(f[k - 1], k)
    BY <1>5, <2>2
  <2>4. \A k \in 0 .. n : k = 0 \/ k \in 1 .. n
    BY <1>2
  <2>5. \A k \in 0 .. n : (IF k = 0 THEN m ELSE g[k][f[k - 1]]) = IF k = 0 THEN m ELSE Round(f[k - 1], k)
    BY <2>3, <2>4
  <2>6. f = [k \in 0 .. n |-> IF k = 0 THEN m ELSE Round(f[k - 1], k)]
    BY <2>2, <2>5
  <2> QED
    BY <2>6
<1>7. after = [k \in 0 .. n |-> IF k = 0 THEN m ELSE Round(after[k - 1], k)]
  BY <1>6
<1> HIDE DEF after
<1>8. \A k \in 0 .. n : after[k] \in I[k]
  <2>1. after[0] \in I[0]
    BY <1>2, <1>3, <1>7
  <2>2. \A k \in 1 .. n : after[k - 1] \in I[k - 1] => after[k] \in I[k]
    <3> SUFFICES ASSUME NEW k \in 1 .. n, after[k - 1] \in I[k - 1] PROVE after[k] \in I[k]
      OBVIOUS
    <3>1. k \in 0 .. n /\ k # 0
      BY <1>2
    <3>2. after[k] = Round(after[k - 1], k)
      BY <1>7, <3>1
    <3> QED
      BY <1>5, <3>2
  <2> QED
    BY <1>2, <2>1, <2>2, LoopStays
<1>9. after[n] \in I[n] /\ n \in 0 .. n
  BY <1>2, <1>8
<1> HIDE DEF Left
<1>10. PICK T : Holds(after[n], T) /\ Left(n, T)
  BY <1>9 DEF I
<1>11. DOMAIN T = DOMAIN S /\ Len(T[l]) = 0 /\ \A x \in DOMAIN S : x # l => T[x] = S[x]
  <2>1. Len(T[l]) = n - n
    BY <1>10 DEF Left
  <2> QED
    BY <1>2, <1>10, <2>1 DEF Left
<1>12. T[l] = << >>
  <2>1. T[l] \in Seq(Elems)
    BY <1>10, <1>11, CellIs DEF Holds
  <2> QED
    BY <1>11, <2>1
<1> QED
  BY <1>1, <1>10, <1>11, <1>12

\* A sequence of all of a finite set names every member.
LEMMA SlotsAll ==
    ASSUME NEW E, IsFiniteSet(E), NEW f \in SetToSeqs(E)
    PROVE  /\ Len(f) \in Nat /\ \A k \in 1 .. Len(f) : f[k] \in E
           /\ \A x \in E : \E k \in 1 .. Len(f) : f[k] = x
<1> DEFINE n == Cardinality(E)
<1>1. n \in Nat /\ f \in [1 .. n -> E] /\ \A i, j \in 1 .. n : i # j => f[i] # f[j]
  BY FS_CardinalityType DEF SetToSeqs
<1> HIDE DEF n
<1>2. f \in Injection(1 .. n, E)
  BY <1>1 DEF Injection, IsInjective
<1>3. Cardinality(1 .. n) = n
  <2>1. 1 \in Int /\ n \in Int /\ n - 1 + 1 = n /\ (1 > n => n = 0)
    BY <1>1
  <2>2. Cardinality(1 .. n) = IF 1 > n THEN 0 ELSE n - 1 + 1
    BY <2>1, FS_Interval
  <2> QED
    BY <2>1, <2>2
<1>4. f \in Surjection(1 .. n, E)
  BY <1>2, <1>3, FS_Injection DEF n
<1>5. \A x \in E : \E k \in 1 .. n : f[k] = x
  BY <1>4 DEF Surjection
<1>6. Len(f) = n
  BY <1>1
<1> QED
  BY <1>1, <1>5, <1>6

\* Lists have been destroyed: ListQuit.
LEMMA QuitInv ==
    ASSUME ListInv, ListQuit
    PROVE  ListInv'
<1>1. PICK slot \in SetToSeqs(Lists) :
         Relink(Loop(links, LAMBDA m, k : IF listInUse[slot[k]] THEN list_destroy(m, slot[k]) ELSE m, Len(slot)),
                UNION {ElemsOf(l) : l \in Lists})
  BY DEF ListQuit
<1> DEFINE n == Len(slot)
           Gone(k, T) == DOMAIN T = Used /\ \A i \in 1 .. k : slot[i] \in Used => T[slot[i]] = << >>
           I == [k \in 0 .. n |-> {r \in ListMemory : \E T : Holds(r, T) /\ Gone(k, T)}]
           Round(r, k) == IF listInUse[slot[k]] THEN list_destroy(r, slot[k]) ELSE r
           g == [k \in 1 .. n |-> [r \in I[k - 1] |-> Round(r, k)]]
           after == CHOOSE h : h = [k \in 0 .. n |-> IF k = 0 THEN links ELSE Round(h[k - 1], k)]
<1>2. Relink(after[n], UNION {ElemsOf(l) : l \in Lists})
  BY <1>1, Zenon DEF Loop
<1>3. n \in Nat /\ \A k \in 1 .. n : slot[k] \in Lists
  BY ListConstants, SlotsAll
<1> HIDE DEF Gone
<1>4. links \in I[0]
  <2>1. Holds(links, Seqs) /\ DOMAIN Seqs = Used /\ 0 \in 0 .. n
    BY <1>3, InvIs
  <2>2. Gone(0, Seqs)
    BY <2>1 DEF Gone
  <2> QED
    BY <2>1, <2>2 DEF Holds
<1>5. ASSUME NEW k \in 1 .. n, NEW r \in I[k - 1] PROVE Round(r, k) \in I[k]
  <2>1. k - 1 \in 0 .. n /\ k \in 0 .. n
    BY <1>3
  <2>2. PICK T : Holds(r, T) /\ Gone(k - 1, T)
    BY <2>1
  <2>5. DOMAIN T = Used /\ \A i \in 1 .. k - 1 : slot[i] \in Used => T[slot[i]] = << >>
    BY <2>2 DEF Gone
  <2>6. slot[k] \in Lists /\ \A i \in 1 .. k : i = k \/ i \in 1 .. k - 1
    BY <1>3
  <2>3. CASE listInUse[slot[k]]
    <3>1. slot[k] \in Used
      BY <2>6, <2>3 DEF Used
    <3>2. PICK U : /\ Holds(list_destroy(r, slot[k]), U) /\ DOMAIN U = Used
                   /\ U[slot[k]] = << >> /\ \A x \in Used : x # slot[k] => U[x] = T[x]
      BY <2>2, <2>5, <3>1, DestroyHolds
    <3>3. Gone(k, U)
      BY <2>5, <2>6, <3>2 DEF Gone
    <3> QED
      BY <2>1, <2>3, <3>2, <3>3 DEF Holds
  <2>4. CASE ~listInUse[slot[k]]
    <3>1. slot[k] \notin Used
      BY <2>4 DEF Used
    <3>2. Gone(k, T)
      BY <2>5, <2>6, <3>1 DEF Gone
    <3> QED
      BY <2>1, <2>2, <2>4, <3>2 DEF Holds
  <2> QED
    BY <2>3, <2>4
<1>6. \A k \in 1 .. n : k - 1 \in 0 .. n /\ \A c0 \in I[k - 1] : g[k][c0] = Round(c0, k) /\ g[k][c0] \in I[k]
  <2>1. \A k \in 1 .. n : k - 1 \in 0 .. n
    BY <1>3
  <2> HIDE DEF Round, n, I
  <2>2. \A k \in 1 .. n : \A c0 \in I[k - 1] : g[k][c0] = Round(c0, k)
    OBVIOUS
  <2> HIDE DEF g
  <2> QED
    BY <2>1, <2>2, <1>5
<1> HIDE DEF g, I, Round, n
<1>7. \E f : f = [k \in 0 .. n |-> IF k = 0 THEN links ELSE Round(f[k - 1], k)]
  <2>1. PICK f : Turns(f, n, links, g, I)
    BY <1>3, <1>4, <1>6, LoopRuns
  <2>2. /\ f = [k \in 0 .. n |-> IF k = 0 THEN links ELSE g[k][f[k - 1]]]
        /\ \A k \in 0 .. n : f[k] \in I[k]
    BY <2>1 DEF Turns
  <2>3. \A k \in 1 .. n : g[k][f[k - 1]] = Round(f[k - 1], k)
    BY <1>6, <2>2
  <2>4. \A k \in 0 .. n : k = 0 \/ k \in 1 .. n
    BY <1>3
  <2>5. \A k \in 0 .. n : (IF k = 0 THEN links ELSE g[k][f[k - 1]]) = IF k = 0 THEN links ELSE Round(f[k - 1], k)
    BY <2>3, <2>4
  <2>6. f = [k \in 0 .. n |-> IF k = 0 THEN links ELSE Round(f[k - 1], k)]
    BY <2>2, <2>5
  <2> QED
    BY <2>6
<1>8. after = [k \in 0 .. n |-> IF k = 0 THEN links ELSE Round(after[k - 1], k)]
  BY <1>7
<1> HIDE DEF after
<1>9. \A k \in 0 .. n : after[k] \in I[k]
  <2>1. after[0] \in I[0]
    BY <1>3, <1>4, <1>8
  <2>2. \A k \in 1 .. n : after[k - 1] \in I[k - 1] => after[k] \in I[k]
    <3> SUFFICES ASSUME NEW k \in 1 .. n, after[k - 1] \in I[k - 1] PROVE after[k] \in I[k]
      OBVIOUS
    <3>1. k \in 0 .. n /\ k # 0
      BY <1>3
    <3>2. after[k] = Round(after[k - 1], k)
      BY <1>8, <3>1
    <3> QED
      BY <1>6, <3>2
  <2> QED
    BY <1>3, <2>1, <2>2, LoopStays
<1>10. after[n] \in I[n] /\ n \in 0 .. n
  BY <1>3, <1>9
<1>11. PICK T : Holds(after[n], T) /\ Gone(n, T)
  BY <1>10 DEF I
<1>12. DOMAIN T = Used /\ \A l \in Used : T[l] = << >>
  <2>1. \A l \in Lists : \E k \in 1 .. n : slot[k] = l
    BY ListConstants, SlotsAll DEF n
  <2> QED
    BY <1>11, <2>1 DEF Gone, Used
<1>13. live \ UNION {ElemsOf(l) : l \in Lists} = Inside(T)
  <2>1. live = UNION {ToSet(Seqs[l]) : l \in Used} /\ Used \subseteq Lists
    BY InvIs DEF Inside
  <2>2. \A l \in Used : ElemsOf(l) = ToSet(Seqs[l])
    BY InvIs DEF ElemsOf, Used
  <2>3. live \subseteq UNION {ElemsOf(l) : l \in Lists}
    BY <2>1, <2>2
  <2>4. Inside(T) = {}
    BY <1>12 DEF Inside, ToSet
  <2> QED
    BY <2>3, <2>4
<1> QED
  BY <1>2, <1>11, <1>12, <1>13, InvIs, RelinkInv DEF Relink

-----------------------------------------------------------------------------
(* list_reverse.                                                           *)

\* r is m with the links of the cells in C swapped.
Turned(r, m, C) ==
    /\ r \in ListMemory
    /\ \A c \in ListCells : /\ r.next[c] = IF c \in C THEN m.prev[c] ELSE m.next[c]
                            /\ r.prev[c] = IF c \in C THEN m.next[c] ELSE m.prev[c]

\* A round of the loop of list_reverse turns one more cell, and goes to the
\* next one by the link that is now prev.
LEMMA TurnOne ==
    ASSUME NEW m \in ListMemory, NEW C, NEW r, Turned(r, m, C), NEW e \in ListCells, e \notin C,
           NEW D, D = C \cup {e}
    PROVE  Turned(swap_links(r, e), m, D) /\ swap_links(r, e).prev[e] = m.next[e]
<1>1. /\ r \in ListMemory /\ r.next[e] = m.next[e] /\ r.prev[e] = m.prev[e]
      /\ r.next[e] \in ListCells \cup {Null} /\ r.prev[e] \in ListCells \cup {Null}
  BY DEF Turned, ListMemory
<1> DEFINE a == SetPrev(r, e, r.next[e])
           b == SetNext(a, e, r.prev[e])
<1>2. /\ a \in ListMemory /\ a.next = r.next
      /\ \A c \in ListCells : a.prev[c] = IF c = e THEN r.next[e] ELSE r.prev[c]
  BY <1>1, SetPrevIs
<1> HIDE DEF a
<1>3. /\ b \in ListMemory /\ b.prev = a.prev
      /\ \A c \in ListCells : b.next[c] = IF c = e THEN r.prev[e] ELSE a.next[c]
  <2> DEFINE to == r.prev[e]
  <2>1. a \in ListMemory /\ e \in ListCells /\ to \in ListCells \cup {Null}
    BY <1>1, <1>2
  <2>2. b = SetNext(a, e, to)
    OBVIOUS
  <2> HIDE DEF b, to
  <2>3. /\ SetNext(a, e, to) \in ListMemory /\ SetNext(a, e, to).prev = a.prev
        /\ \A c \in ListCells : SetNext(a, e, to).next[c] = IF c = e THEN to ELSE a.next[c]
    BY ONLY <2>1, SetNextIs
  <2> QED
    BY ONLY <2>2, <2>3 DEF to
<1>4. swap_links(r, e) = b
  BY DEF swap_links, a
<1> HIDE DEF b
<1>5. ASSUME NEW c \in ListCells
      PROVE  /\ b.next[c] = IF c \in D THEN m.prev[c] ELSE m.next[c]
             /\ b.prev[c] = IF c \in D THEN m.next[c] ELSE m.prev[c]
  BY <1>1, <1>2, <1>3 DEF Turned
<1> QED
  BY <1>1, <1>2, <1>3, <1>4, <1>5 DEF Turned

\* The loop of list_reverse swaps the links of every element.
LEMMA FlippedIs ==
    ASSUME NEW m, NEW S, Holds(m, S), NEW l \in DOMAIN S
    PROVE  Turned(Flipped(m, list_begin(m, l), list_end(l)), m, {S[l][i] : i \in 1 .. Len(S[l])})
<1> DEFINE w == S[l]
           x0 == [links |-> m, elem |-> list_begin(m, l)]
           end == list_end(l)
           n == LoopBound(m)
           Done(k) == IF k <= Len(w) THEN k ELSE Len(w)
           First(j) == {w[i] : i \in 1 .. j}
           At0(s, j) == s.elem = Cell(w, l, j + 1) /\ Turned(s.links, m, First(j))
           I == [k \in 0 .. n |-> {s \in [links : ListMemory, elem : ListCells] : At0(s, Done(k))}]
           Round(s, k) == Flip(s, end)
           g == [k \in 1 .. n |-> [s \in I[k - 1] |-> Round(s, k)]]
           after == CHOOSE h : h = [k \in 0 .. n |-> IF k = 0 THEN x0 ELSE Round(h[k - 1], k)]
<1>1. Flipped(m, list_begin(m, l), list_end(l)) = after[n].links
  BY Zenon DEF Flipped, Loop
<1>2. /\ n \in Nat /\ Len(w) \in Nat /\ Len(w) < n /\ m \in ListMemory /\ Apart(S)
      /\ list_begin(m, l) = Cell(w, l, 1) /\ end = Cell(w, l, Len(w) + 1)
  BY HoldsIs, CellIs, HoldsPlaces
<1>3. \A i \in 0 .. Len(w) + 1 : Cell(w, l, i) \in ListCells
  BY <1>2, CellIs
<1>4. \A i \in 1 .. Len(w) : Cell(w, l, i) = w[i]
  BY <1>2, CellIs
<1>5. \A i \in 0 .. Len(w) : m.next[Cell(w, l, i)] = Cell(w, l, i + 1)
  BY LinksAre
<1>6. \A i, j \in 0 .. Len(w) + 1 : Cell(w, l, i) = Cell(w, l, j) => i = j
  BY <1>2, CellOnce
<1> HIDE DEF w, n, end
<1>7. x0 \in I[0]
  <2>1. Turned(m, m, First(0))
    <3>1. First(0) = {}
      OBVIOUS
    <3> HIDE DEF First
    <3> QED
      BY <3>1, <1>2 DEF Turned
  <2>2. Done(0) = 0 /\ 0 \in 0 .. n /\ 1 \in 0 .. Len(w) + 1
    BY <1>2
  <2> HIDE DEF First, Done
  <2>3. x0 \in [links : ListMemory, elem : ListCells]
    BY <1>2, <1>3, <2>2
  <2>4. At0(x0, 0)
    BY <1>2, <2>1
  <2> HIDE DEF At0, x0
  <2> QED
    BY <2>2, <2>3, <2>4
<1>8. ASSUME NEW k \in 1 .. n, NEW s \in I[k - 1] PROVE Round(s, k) \in I[k]
  <2>1. k - 1 \in 0 .. n /\ k \in 0 .. n
    BY <1>2
  <2> DEFINE j == Done(k - 1)
  <2>2. j \in 0 .. Len(w) /\ Done(k) = IF j = Len(w) THEN j ELSE j + 1
    BY <1>2
  <2>3. s \in [links : ListMemory, elem : ListCells] /\ At0(s, j)
    BY <2>1
  <2> HIDE DEF At0, Done, j
  <2>4. s.elem = Cell(w, l, j + 1) /\ Turned(s.links, m, First(j)) /\ j + 1 \in 0 .. Len(w) + 1
    BY <1>2, <2>2, <2>3 DEF At0
  <2> HIDE DEF First
  <2>5. CASE j = Len(w)
    <3>1. Flip(s, end) = s
      BY <1>2, <2>4, <2>5 DEF Flip
    <3> HIDE DEF I, Done, j
    <3>2. s \in {r \in [links : ListMemory, elem : ListCells] : At0(r, Done(k))}
      BY <2>2, <2>3, <2>5
    <3> QED
      BY <2>1, <3>1, <3>2 DEF I
  <2>6. CASE j # Len(w)
    <3> DEFINE e == s.elem
               r == swap_links(s.links, e)
               u == [links |-> r, elem |-> r.prev[e]]
    <3>1. j + 1 \in 1 .. Len(w) /\ j + 1 # Len(w) + 1 /\ Len(w) + 1 \in 0 .. Len(w) + 1
          /\ j + 1 \in 0 .. Len(w) /\ j + 2 \in 0 .. Len(w) + 1 /\ (j + 1) + 1 = j + 2
      BY <1>2, <2>2, <2>6
    <3>2. e # end /\ e = w[j + 1] /\ e \in ListCells
      BY <1>2, <1>3, <1>4, <1>6, <2>4, <3>1
    <3>3. First(j + 1) = First(j) \cup {e}
      <4>1. \A i : i \in 1 .. j + 1 <=> i \in 1 .. j \/ i = j + 1
        BY <2>2, <1>2
      <4> QED
        BY <3>2, <4>1 DEF First
    <3>4. e \notin First(j)
      <4>1. ASSUME NEW i \in 1 .. j PROVE w[i] # e
        <5>1. i \in 1 .. Len(w) /\ i \in 0 .. Len(w) + 1 /\ i # j + 1
          BY <1>2, <2>2
        <5> QED
          BY <1>4, <1>6, <2>4, <3>1, <5>1
      <4> QED
        BY <4>1 DEF First
    <3>5. Turned(r, m, First(j + 1)) /\ r.prev[e] = m.next[e]
      <4> DEFINE C == First(j)
                 D == First(j + 1)
                 q == s.links
      <4>1. m \in ListMemory /\ Turned(q, m, C) /\ e \in ListCells /\ e \notin C /\ D = C \cup {e}
        BY <1>2, <2>4, <3>2, <3>3, <3>4
      <4> HIDE DEF e, C, D, q
      <4>2. Turned(swap_links(q, e), m, D) /\ swap_links(q, e).prev[e] = m.next[e]
        BY <4>1, TurnOne
      <4> QED
        BY <4>2 DEF q, D
    <3>6. r.prev[e] = Cell(w, l, (j + 1) + 1)
      BY <1>5, <2>4, <3>1, <3>5
    <3>7. Flip(s, end) = u
      BY <3>2 DEF Flip
    <3>8. u \in [links : ListMemory, elem : ListCells]
      BY <1>3, <3>1, <3>5, <3>6 DEF Turned
    <3>9. At0(u, j + 1)
      BY <3>5, <3>6 DEF At0
    <3>10. Done(k) = j + 1
      BY <2>2, <2>6
    <3> HIDE DEF u, I
    <3> QED
      BY <2>1, <3>7, <3>8, <3>9, <3>10 DEF I
  <2> QED
    BY <2>5, <2>6
<1>9. \A k \in 1 .. n : k - 1 \in 0 .. n /\ \A c0 \in I[k - 1] : g[k][c0] = Round(c0, k) /\ g[k][c0] \in I[k]
  <2>1. \A k \in 1 .. n : k - 1 \in 0 .. n
    BY <1>2
  <2> HIDE DEF Round, n, I
  <2>2. \A k \in 1 .. n : \A c0 \in I[k - 1] : g[k][c0] = Round(c0, k)
    OBVIOUS
  <2> HIDE DEF g
  <2> QED
    BY <2>1, <2>2, <1>8
<1> HIDE DEF x0, g, I, Round, n
<1>10. \E f : f = [k \in 0 .. n |-> IF k = 0 THEN x0 ELSE Round(f[k - 1], k)]
  <2>1. PICK f : Turns(f, n, x0, g, I)
    BY <1>2, <1>7, <1>9, LoopRuns
  <2>2. /\ f = [k \in 0 .. n |-> IF k = 0 THEN x0 ELSE g[k][f[k - 1]]]
        /\ \A k \in 0 .. n : f[k] \in I[k]
    BY <2>1 DEF Turns
  <2>3. \A k \in 1 .. n : g[k][f[k - 1]] = Round(f[k - 1], k)
    BY <1>9, <2>2
  <2>4. \A k \in 0 .. n : k = 0 \/ k \in 1 .. n
    BY <1>2
  <2>5. \A k \in 0 .. n : (IF k = 0 THEN x0 ELSE g[k][f[k - 1]]) = IF k = 0 THEN x0 ELSE Round(f[k - 1], k)
    BY <2>3, <2>4
  <2>6. f = [k \in 0 .. n |-> IF k = 0 THEN x0 ELSE Round(f[k - 1], k)]
    BY <2>2, <2>5
  <2> QED
    BY <2>6
<1>11. after = [k \in 0 .. n |-> IF k = 0 THEN x0 ELSE Round(after[k - 1], k)]
  BY <1>10
<1> HIDE DEF after
<1>12. \A k \in 0 .. n : after[k] \in I[k]
  <2>1. after[0] \in I[0]
    BY <1>2, <1>7, <1>11
  <2>2. \A k \in 1 .. n : after[k - 1] \in I[k - 1] => after[k] \in I[k]
    <3> SUFFICES ASSUME NEW k \in 1 .. n, after[k - 1] \in I[k - 1] PROVE after[k] \in I[k]
      OBVIOUS
    <3>1. k \in 0 .. n /\ k # 0
      BY <1>2
    <3>2. after[k] = Round(after[k - 1], k)
      BY <1>11, <3>1
    <3> QED
      BY <1>9, <3>2
  <2> QED
    BY <1>2, <2>1, <2>2, LoopStays
<1>13. after[n] \in I[n] /\ n \in 0 .. n
  BY <1>2, <1>12
<1>14. Done(n) = Len(w)
  BY <1>2
<1> HIDE DEF Done
<1> QED
  BY <1>1, <1>13, <1>14 DEF I, w

\* The sequences after list_reverse of list l.
Reversed(S, l) == [S EXCEPT ![l] = Reverse(S[l])]

\* A sequence backwards, element by element.
LEMMA ReverseIs ==
    ASSUME NEW E, NEW s \in Seq(E)
    PROVE  /\ Reverse(s) \in Seq(E) /\ Len(Reverse(s)) = Len(s)
           /\ \A k \in 1 .. Len(s) : Reverse(s)[k] = s[Len(s) + 1 - k]
<1>1. Len(s) \in Nat
  OBVIOUS
<1>2. ASSUME NEW k \in 1 .. Len(s) PROVE s[(Len(s) - k) + 1] \in E /\ (Len(s) - k) + 1 = Len(s) + 1 - k
  <2>1. (Len(s) - k) + 1 \in 1 .. Len(s) /\ (Len(s) - k) + 1 = Len(s) + 1 - k
    BY <1>1
  <2> QED
    BY <2>1, ElementOfSeq
<1>3. Reverse(s) = [k \in 1 .. Len(s) |-> s[(Len(s) - k) + 1]]
  BY DEF Reverse
<1>4. Reverse(s) \in [1 .. Len(s) -> E]
  BY <1>2, <1>3
<1>5. Reverse(s) \in Seq(E) /\ Len(Reverse(s)) = Len(s)
  <2> HIDE <1>3
  <2> QED
    BY <1>1, <1>4
<1> QED
  BY <1>2, <1>3, <1>5

\* The same lists with one in the opposite order.
LEMMA ReverseApart ==
    ASSUME NEW S, Apart(S), NEW l \in DOMAIN S
    PROVE  /\ Apart(Reversed(S, l)) /\ DOMAIN Reversed(S, l) = DOMAIN S
           /\ Reversed(S, l)[l] = Reverse(S[l])
           /\ \A x \in DOMAIN S : x # l => Reversed(S, l)[x] = S[x]
           /\ \A k \in 1 .. Len(S[l]) : Cell(Reverse(S[l]), l, k) = Cell(S[l], l, Len(S[l]) + 1 - k)
<1> DEFINE T == Reversed(S, l)
           w == S[l]
           t == Reverse(w)
<1>1. w \in Seq(Elems) /\ Len(w) \in Nat /\ DOMAIN S \subseteq Lists /\ S \in [DOMAIN S -> Seq(Elems)]
  BY CellIs DEF Apart
<1>2. t \in Seq(Elems) /\ Len(t) = Len(w) /\ \A k \in 1 .. Len(w) : t[k] = w[Len(w) + 1 - k]
  BY <1>1, ReverseIs
<1>3. DOMAIN T = DOMAIN S /\ T[l] = t /\ \A x \in DOMAIN S : x # l => T[x] = S[x]
  BY DEF Reversed
<1>4. T = [x \in DOMAIN T |-> T[x]]
  BY DEF Reversed
<1> HIDE DEF T, t
<1>5. T \in [DOMAIN T -> Seq(Elems)]
  <2>1. \A x \in DOMAIN T : T[x] \in Seq(Elems)
    BY <1>1, <1>2, <1>3
  <2> QED
    BY <1>4, <2>1
<1>6. \A x \in DOMAIN S : \A i \in 1 .. Len(T[x]) :
         \E a \in 1 .. Len(S[x]) : T[x][i] = S[x][a] /\ a = IF x = l THEN Len(w) + 1 - i ELSE i
  <2> SUFFICES ASSUME NEW x \in DOMAIN S, NEW i \in 1 .. Len(T[x])
               PROVE  \E a \in 1 .. Len(S[x]) : T[x][i] = S[x][a] /\ a = IF x = l THEN Len(w) + 1 - i ELSE i
    OBVIOUS
  <2>1. CASE x = l
    <3>1. i \in 1 .. Len(w) /\ T[x][i] = w[Len(w) + 1 - i]
      BY <1>2, <1>3, <2>1
    <3>2. Len(w) + 1 - i \in 1 .. Len(w)
      BY <3>1, <1>1
    <3> QED
      BY <2>1, <3>1, <3>2
  <2>2. CASE x # l
    BY <1>3, <2>2
  <2> QED
    BY <2>1, <2>2
<1>7. ASSUME NEW x \in DOMAIN S, NEW y \in DOMAIN S, NEW i \in 1 .. Len(T[x]), NEW j \in 1 .. Len(T[y]),
             T[x][i] = T[y][j]
      PROVE  x = y /\ i = j
  <2>1. PICK a \in 1 .. Len(S[x]) : T[x][i] = S[x][a] /\ a = IF x = l THEN Len(w) + 1 - i ELSE i
    BY <1>6
  <2>2. PICK b \in 1 .. Len(S[y]) : T[y][j] = S[y][b] /\ b = IF y = l THEN Len(w) + 1 - j ELSE j
    BY <1>6
  <2>3. x = y /\ a = b
    <3>1. \A p, q \in DOMAIN S : \A c \in 1 .. Len(S[p]), d \in 1 .. Len(S[q]) :
             S[p][c] = S[q][d] => p = q /\ c = d
      BY DEF Apart
    <3>2. S[x][a] = S[y][b]
      BY <1>7, <2>1, <2>2
    <3> QED
      BY <3>1, <3>2
  <2>4. CASE x = l
    <3>1. Len(w) + 1 - i = Len(w) + 1 - j /\ i \in Nat /\ j \in Nat
      BY <1>1, <1>2, <1>3, <2>1, <2>2, <2>3, <2>4
    <3> HIDE DEF w
    <3>2. i = j
      BY <3>1, <1>1
    <3> QED
      BY <3>2, <2>3
  <2>5. CASE x # l
    BY <2>1, <2>2, <2>3, <2>5
  <2> QED
    BY <2>4, <2>5
<1>8. Apart(T)
  BY <1>1, <1>3, <1>5, <1>7 DEF Apart
<1>9. ASSUME NEW k \in 1 .. Len(w) PROVE Cell(t, l, k) = Cell(w, l, Len(w) + 1 - k)
  <2>1. Len(w) + 1 - k \in 1 .. Len(w) /\ t[k] = w[Len(w) + 1 - k]
    BY <1>1, <1>2
  <2>2. Cell(w, l, Len(w) + 1 - k) = w[Len(w) + 1 - k]
    BY <2>1, CellIs
  <2>3. Cell(t, l, k) = t[k]
    <3>1. k # 0 /\ k # Len(t) + 1
      BY <1>1, <1>2
    <3> QED
      BY <3>1 DEF Cell
  <2> QED
    BY <2>1, <2>2, <2>3
<1> QED
  BY <1>3, <1>8, <1>9 DEF T, t

\* The links list_reverse leaves.
LEMMA ReverseLinks ==
    ASSUME NEW m, NEW S, Holds(m, S), NEW l \in DOMAIN S, NEW w, w = S[l], NEW n, n = Len(w), n # 0,
           NEW r, r = list_reverse(m, l)
    PROVE  /\ r \in ListMemory
           /\ r.next[ListHead(l)] = w[n] /\ r.prev[ListTail(l)] = w[1]
           /\ r.prev[ListHead(l)] = Null /\ r.next[ListTail(l)] = Null
           /\ \A k \in 1 .. n : r.next[w[k]] = (IF k = 1 THEN ListTail(l) ELSE w[k - 1])
                                /\ r.prev[w[k]] = IF k = n THEN ListHead(l) ELSE w[k + 1]
           /\ \A c \in ListCells : c # ListHead(l) /\ c # ListTail(l) /\ (\A k \in 1 .. n : c # w[k])
                  => r.next[c] = m.next[c] /\ r.prev[c] = m.prev[c]
<1> DEFINE h == ListHead(l)
           z == ListTail(l)
           C == {w[i] : i \in 1 .. n}
           m1 == Flipped(m, list_begin(m, l), list_end(l))
           ma == SetNext(m1, h, m1.prev[z])
           m2 == SetPrev(ma, z, m1.next[h])
           first == m2.next[h]
           last == m2.prev[z]
           mb == SetPrev(m2, first, m2.next[last])
           mc == SetNext(mb, last, m2.prev[first])
<1>1. /\ n \in Nat /\ Apart(S) /\ m \in ListMemory
      /\ ~list_empty(m, l) /\ Turned(m1, m, C) /\ Lined(m, l, w)
  <2>1. Turned(m1, m, C)
    BY FlippedIs
  <2>2. Apart(S) /\ m \in ListMemory /\ Lined(m, l, w)
    BY DEF Holds
  <2>3. n \in Nat /\ ~list_empty(m, l)
    BY <2>2, CellIs, HoldsPlaces
  <2> HIDE DEF m1, C
  <2> QED
    BY <2>1, <2>2, <2>3
<1>2. r = mc
  BY <1>1 DEF list_reverse
<1>3. /\ Cell(w, l, 0) = h /\ Cell(w, l, n + 1) = z /\ h \in ListCells /\ z \in ListCells
      /\ \A k \in 1 .. n : Cell(w, l, k) = w[k] /\ w[k] \in Elems /\ w[k] \in ListCells
  BY <1>1, CellIs, IsListCell DEF Apart
<1>4. \A k \in 0 .. n : m.next[Cell(w, l, k)] = Cell(w, l, k + 1) /\ m.prev[Cell(w, l, k + 1)] = Cell(w, l, k)
  BY <1>1 DEF Lined
<1>5. /\ 1 \in 1 .. n /\ n \in 1 .. n /\ 0 \in 0 .. n /\ n \in 0 .. n /\ 0 + 1 = 1
      /\ \A k \in 1 .. n : k \in 0 .. n /\ k - 1 \in 0 .. n /\ (k - 1) + 1 = k
                           /\ (k # 1 => k - 1 \in 1 .. n) /\ (k # n => k + 1 \in 1 .. n)
  BY <1>1
<1>6. \A i, j \in 1 .. n : w[i] = w[j] => i = j
  BY <1>1 DEF Apart
<1>7. h # z /\ \A k \in 1 .. n : w[k] # h /\ w[k] # z
  BY <1>3, ListKinds
<1>8. m.prev[h] = Null /\ m.next[z] = Null
  BY <1>1 DEF Lined
<1>9. /\ m.next[h] = w[1] /\ m.prev[z] = w[n]
      /\ \A k \in 1 .. n : m.next[w[k]] = (IF k = n THEN z ELSE w[k + 1])
                           /\ m.prev[w[k]] = IF k = 1 THEN h ELSE w[k - 1]
  <2>1. m.next[h] = w[1] /\ m.prev[z] = w[n]
    BY <1>3, <1>4, <1>5
  <2>2. ASSUME NEW k \in 1 .. n
        PROVE  m.next[w[k]] = (IF k = n THEN z ELSE w[k + 1]) /\ m.prev[w[k]] = IF k = 1 THEN h ELSE w[k - 1]
    <3>1. m.next[Cell(w, l, k)] = Cell(w, l, k + 1)
      BY <1>4, <1>5
    <3>2. m.prev[Cell(w, l, (k - 1) + 1)] = Cell(w, l, k - 1)
      BY <1>4, <1>5
    <3>3. Cell(w, l, k + 1) = IF k = n THEN z ELSE w[k + 1]
      BY <1>3, <1>5
    <3>4. Cell(w, l, k - 1) = IF k = 1 THEN h ELSE w[k - 1]
      <4>1. k = 1 => k - 1 = 0
        OBVIOUS
      <4> QED
        BY <1>3, <1>5, <4>1
    <3> QED
      BY <1>3, <1>5, <3>1, <3>2, <3>3, <3>4
  <2> QED
    BY <2>1, <2>2
<1> HIDE DEF h, z, m1
<1>10. /\ m1 \in ListMemory
       /\ \A c \in ListCells : m1.next[c] = (IF c \in C THEN m.prev[c] ELSE m.next[c])
                               /\ m1.prev[c] = IF c \in C THEN m.next[c] ELSE m.prev[c]
  BY <1>1 DEF Turned
<1>11. h \notin C /\ z \notin C /\ w[1] \in C /\ w[n] \in C
  BY <1>5, <1>7
<1> HIDE DEF C
<1>12. /\ ma \in ListMemory /\ ma.prev = m1.prev
       /\ \A c \in ListCells : ma.next[c] = IF c = h THEN w[n] ELSE m1.next[c]
  <2>1. m1.prev[z] = w[n] /\ w[n] \in ListCells \cup {Null}
    BY <1>3, <1>5, <1>9, <1>10, <1>11
  <2>2. ma = SetNext(m1, h, w[n])
    BY <2>1
  <2>3. m1 \in ListMemory /\ h \in ListCells
    BY <1>3, <1>10
  <2> DEFINE v == w[n]
  <2> HIDE DEF ma, m2, first, last, mb, mc, v
  <2>4. v \in ListCells \cup {Null}
    BY <2>1 DEF v
  <2>5. /\ SetNext(m1, h, v) \in ListMemory
        /\ SetNext(m1, h, v).prev = m1.prev
        /\ \A c \in ListCells : SetNext(m1, h, v).next[c] = IF c = h THEN v ELSE m1.next[c]
    BY ONLY <2>4, <2>3, SetNextIs
  <2> QED
    BY <2>2, <2>5 DEF v
<1> HIDE DEF ma
<1>13. /\ m2 \in ListMemory /\ m2.next = ma.next
       /\ \A c \in ListCells : m2.prev[c] = IF c = z THEN w[1] ELSE m1.prev[c]
  <2>1. m1.next[h] = w[1] /\ w[1] \in ListCells \cup {Null}
    BY <1>3, <1>5, <1>9, <1>10, <1>11
  <2>2. m2 = SetPrev(ma, z, w[1])
    BY <2>1
  <2> DEFINE v == w[1]
  <2>3. ma \in ListMemory /\ z \in ListCells /\ v \in ListCells \cup {Null}
    BY <1>3, <1>12, <2>1
  <2> HIDE DEF ma, m2, first, last, mb, mc, v
  <2>4. /\ SetPrev(ma, z, v) \in ListMemory
        /\ SetPrev(ma, z, v).next = ma.next
        /\ \A c \in ListCells : SetPrev(ma, z, v).prev[c] = IF c = z THEN v ELSE ma.prev[c]
    BY ONLY <2>3, SetPrevIs
  <2>5. ma.prev = m1.prev
    BY <1>12
  <2> QED
    BY <2>2, <2>4, <2>5 DEF v
<1> HIDE DEF m2
<1>14. first = w[n] /\ last = w[1] /\ first \in ListCells /\ last \in ListCells
  BY <1>3, <1>5, <1>12, <1>13
<1> HIDE DEF first, last
<1>15. m2.next[last] = h /\ m2.prev[first] = z
  BY <1>3, <1>5, <1>7, <1>9, <1>10, <1>11, <1>12, <1>13, <1>14
<1>16. /\ mb \in ListMemory /\ mb.next = m2.next
       /\ \A c \in ListCells : mb.prev[c] = IF c = first THEN h ELSE m2.prev[c]
  <2>1. h \in ListCells \cup {Null}
    BY <1>3
  <2>2. mb = SetPrev(m2, first, h)
    BY <2>1, <1>14, <1>15
  <2>3. m2 \in ListMemory /\ first \in ListCells
    BY <1>3, <1>13, <1>14
  <2> DEFINE v == h
  <2> HIDE DEF ma, m2, first, last, mb, mc, v
  <2>4. v \in ListCells \cup {Null}
    BY <2>1 DEF v
  <2>5. /\ SetPrev(m2, first, v) \in ListMemory
        /\ SetPrev(m2, first, v).next = m2.next
        /\ \A c \in ListCells : SetPrev(m2, first, v).prev[c] = IF c = first THEN v ELSE m2.prev[c]
    BY ONLY <2>4, <2>3, SetPrevIs
  <2> QED
    BY <2>2, <2>5 DEF v
<1> HIDE DEF mb
<1>17. /\ mc \in ListMemory /\ mc.prev = mb.prev
       /\ \A c \in ListCells : mc.next[c] = IF c = last THEN z ELSE mb.next[c]
  <2>1. z \in ListCells \cup {Null}
    BY <1>3
  <2>2. mc = SetNext(mb, last, z)
    BY <2>1, <1>14, <1>15
  <2>3. mb \in ListMemory /\ last \in ListCells
    BY <1>3, <1>16, <1>14
  <2> DEFINE v == z
  <2> HIDE DEF ma, m2, first, last, mb, mc, v
  <2>4. v \in ListCells \cup {Null}
    BY <2>1 DEF v
  <2>5. /\ SetNext(mb, last, v) \in ListMemory
        /\ SetNext(mb, last, v).prev = mb.prev
        /\ \A c \in ListCells : SetNext(mb, last, v).next[c] = IF c = last THEN v ELSE mb.next[c]
    BY ONLY <2>4, <2>3, SetNextIs
  <2> QED
    BY <2>2, <2>5 DEF v
<1> HIDE DEF mc
<1>18. r \in ListMemory /\ \A c \in ListCells :
          /\ r.next[c] = IF c = last THEN z ELSE IF c = h THEN w[n] ELSE m1.next[c]
          /\ r.prev[c] = IF c = first THEN h ELSE IF c = z THEN w[1] ELSE m1.prev[c]
  BY <1>2, <1>12, <1>13, <1>16, <1>17
<1>19. /\ r.next[h] = w[n] /\ r.prev[z] = w[1] /\ r.prev[h] = Null /\ r.next[z] = Null
  BY <1>3, <1>5, <1>7, <1>8, <1>10, <1>11, <1>14, <1>18
<1>20. ASSUME NEW k \in 1 .. n
       PROVE  r.next[w[k]] = (IF k = 1 THEN z ELSE w[k - 1]) /\ r.prev[w[k]] = IF k = n THEN h ELSE w[k + 1]
  <2>1. w[k] \in C /\ w[k] \in ListCells /\ w[k] # h /\ w[k] # z
    BY <1>3, <1>7 DEF C
  <2>2. (w[k] = last <=> k = 1) /\ (w[k] = first <=> k = n)
    BY <1>5, <1>6, <1>14
  <2> QED
    BY <1>9, <1>10, <1>18, <2>1, <2>2
<1>21. ASSUME NEW c \in ListCells, c # h, c # z, \A k \in 1 .. n : c # w[k]
       PROVE  r.next[c] = m.next[c] /\ r.prev[c] = m.prev[c]
  <2>1. c \notin C /\ c # first /\ c # last
    BY <1>5, <1>14, <1>21 DEF C
  <2> QED
    BY <1>10, <1>18, <1>21, <2>1
<1> QED
  BY <1>18, <1>19, <1>20, <1>21 DEF h, z

\* list_reverse reverses the list.
LEMMA ReverseHolds ==
    ASSUME NEW m, NEW S, Holds(m, S), NEW l \in DOMAIN S
    PROVE  Holds(list_reverse(m, l), Reversed(S, l))
<1> DEFINE w == S[l]
           n == Len(w)
           t == Reverse(w)
           T == Reversed(S, l)
           r == list_reverse(m, l)
<1>1. /\ n \in Nat /\ w \in Seq(Elems) /\ Apart(S)
      /\ Apart(T) /\ DOMAIN T = DOMAIN S /\ T[l] = t /\ \A x \in DOMAIN S : x # l => T[x] = S[x]
      /\ \A k \in 1 .. n : Cell(t, l, k) = Cell(w, l, n + 1 - k)
  BY HoldsIs, CellIs, ReverseApart
<1>2. t \in Seq(Elems) /\ Len(t) = n
  BY <1>1, ReverseIs
<1>3. CASE n = 0
  <2>1. r = m
    BY <1>3, HoldsPlaces DEF list_reverse
  <2>2. t = w
    <3>1. \A k \in 1 .. Len(t) : t[k] = w[k]
      BY <1>2, <1>3
    <3> HIDE DEF t, w
    <3> QED
      BY <1>1, <1>2, <3>1, SeqEqual DEF n
  <2>3. T = S
    <3>1. S = [x \in DOMAIN S |-> S[x]] /\ T = [x \in DOMAIN T |-> T[x]]
      BY <1>1 DEF Apart
    <3> HIDE DEF T
    <3>2. \A x \in DOMAIN S : T[x] = S[x]
      BY <1>1, <2>2
    <3> QED
      BY <1>1, <3>1, <3>2
  <2> QED
    BY <2>1, <2>3
<1>4. CASE n # 0
  <2>1. /\ r \in ListMemory
        /\ r.next[ListHead(l)] = w[n] /\ r.prev[ListTail(l)] = w[1]
        /\ r.prev[ListHead(l)] = Null /\ r.next[ListTail(l)] = Null
        /\ \A k \in 1 .. n : r.next[w[k]] = (IF k = 1 THEN ListTail(l) ELSE w[k - 1])
                             /\ r.prev[w[k]] = IF k = n THEN ListHead(l) ELSE w[k + 1]
        /\ \A c \in ListCells : c # ListHead(l) /\ c # ListTail(l) /\ (\A k \in 1 .. n : c # w[k])
               => r.next[c] = m.next[c] /\ r.prev[c] = m.prev[c]
    BY <1>4, ReverseLinks
  <2>2. \A k \in 1 .. n : Cell(w, l, k) = w[k]
    BY <1>1, CellIs
  <2>3. Cell(t, l, 0) = ListHead(l) /\ Cell(t, l, n + 1) = ListTail(l)
    BY <1>1, <1>2 DEF Cell
  <2> HIDE DEF r, t, w, n, T
  <2>4. \A k \in 1 .. n : n + 1 - k \in 1 .. n /\ Cell(t, l, k) = w[n + 1 - k]
    BY <1>1, <2>2
  <2>5. Lined(r, l, t)
    <3>1. ASSUME NEW k \in 0 .. n
          PROVE  r.next[Cell(t, l, k)] = Cell(t, l, k + 1) /\ r.prev[Cell(t, l, k + 1)] = Cell(t, l, k)
      <4>1. CASE k = 0
        <5>1. 1 \in 1 .. n /\ k + 1 = 1 /\ n + 1 - 1 = n /\ n \in 1 .. n
          BY <1>1, <1>4, <4>1
        <5>2. Cell(t, l, 1) = w[n]
          BY <2>4, <5>1
        <5> QED
          BY <2>1, <2>3, <4>1, <5>1, <5>2
      <4>2. CASE k = n
        <5>1. n \in 1 .. n /\ n + 1 - n = 1 /\ 1 \in 1 .. n
          BY <1>1, <1>4
        <5>2. Cell(t, l, n) = w[1]
          BY <2>4, <5>1
        <5> QED
          BY <2>1, <2>3, <4>2, <5>1, <5>2
      <4>3. CASE k # 0 /\ k # n
        <5>1. /\ k \in 1 .. n /\ k + 1 \in 1 .. n /\ n + 1 - k \in 1 .. n /\ n + 1 - (k + 1) \in 1 .. n
              /\ n + 1 - k # 1 /\ n + 1 - (k + 1) # n /\ (n + 1 - k) - 1 = n + 1 - (k + 1)
              /\ (n + 1 - (k + 1)) + 1 = n + 1 - k
          BY <1>1, <4>3
        <5>2. Cell(t, l, k) = w[n + 1 - k] /\ Cell(t, l, k + 1) = w[n + 1 - (k + 1)]
          BY <2>4, <5>1
        <5>3. r.next[w[n + 1 - k]] = w[(n + 1 - k) - 1]
          BY <2>1, <5>1
        <5>4. r.prev[w[n + 1 - (k + 1)]] = w[(n + 1 - (k + 1)) + 1]
          BY <2>1, <5>1
        <5> QED
          BY <5>1, <5>2, <5>3, <5>4
      <4> QED
        BY <4>1, <4>2, <4>3
    <3> QED
      BY <1>2, <2>1, <3>1 DEF Lined
  <2>6. ASSUME NEW x \in DOMAIN S, x # l PROVE Lined(r, x, S[x])
    <3>1. \A k \in 0 .. Len(S[x]) + 1 : LET c == Cell(S[x], x, k) IN
             c \in ListCells /\ c # ListHead(l) /\ c # ListTail(l) /\ \A i \in 1 .. n : c # w[i]
      <4>1. ASSUME NEW k \in 0 .. Len(S[x]) + 1, NEW i \in 0 .. n + 1 PROVE Cell(S[x], x, k) # Cell(w, l, i)
        BY <1>1, <2>6, CellOnce DEF w, n
      <4>2. Cell(w, l, 0) = ListHead(l) /\ Cell(w, l, n + 1) = ListTail(l)
        BY <1>1, CellIs DEF w, n
      <4>3. 0 \in 0 .. n + 1 /\ n + 1 \in 0 .. n + 1 /\ \A i \in 1 .. n : i \in 0 .. n + 1
        BY <1>1
      <4>4. \A k \in 0 .. Len(S[x]) + 1 : Cell(S[x], x, k) \in ListCells
        BY <1>1, CellIs
      <4> QED
        BY <2>2, <4>1, <4>2, <4>3, <4>4
    <3>2. Lined(m, x, S[x]) /\ Len(S[x]) \in Nat
          /\ Cell(S[x], x, 0) = ListHead(x) /\ Cell(S[x], x, Len(S[x]) + 1) = ListTail(x)
      BY <1>1, CellIs DEF Holds
    <3>3. \A k \in 0 .. Len(S[x]) : k \in 0 .. Len(S[x]) + 1 /\ k + 1 \in 0 .. Len(S[x]) + 1
      BY <3>2
    <3>4. 0 \in 0 .. Len(S[x]) + 1 /\ Len(S[x]) + 1 \in 0 .. Len(S[x]) + 1
      BY <3>2
    <3> QED
      BY <2>1, <3>1, <3>2, <3>3, <3>4 DEF Lined
  <2>7. ASSUME NEW x \in Lists \ DOMAIN S PROVE Idle(r, x)
    <3> SUFFICES ASSUME NEW c \in {ListHead(x), ListTail(x)} PROVE r.next[c] = Null /\ r.prev[c] = Null
      BY DEF Idle
    <3>1. Idle(m, x)
      BY DEF Holds
    <3>2. c \in ListCells /\ c \notin Elems /\ x # l
      BY IsListCell, ListKinds
    <3>3. c # ListHead(l) /\ c # ListTail(l) /\ \A k \in 1 .. n : c # w[k]
      BY <1>1, <3>2, ListKinds, ElementOfSeq DEF n
    <3> QED
      BY <2>1, <3>1, <3>2, <3>3 DEF Idle
  <2>8. \A x \in DOMAIN T : Lined(r, x, T[x])
    BY <1>1, <2>5, <2>6
  <2>9. \A x \in Lists \ DOMAIN T : Idle(r, x)
    BY <1>1, <2>7
  <2>10. Holds(r, T)
    BY <1>1, <2>1, <2>8, <2>9 DEF Holds
  <2> QED
    BY <2>10 DEF r, T
<1> QED
  BY <1>3, <1>4

\* Two sequences that have the same elements, whatever their order.
LEMMA SameSet ==
    ASSUME NEW E, NEW s \in Seq(E), NEW t \in Seq(E),
           \A i \in 1 .. Len(t) : \E k \in 1 .. Len(s) : s[k] = t[i],
           \A k \in 1 .. Len(s) : \E i \in 1 .. Len(t) : t[i] = s[k]
    PROVE  ToSet(t) = ToSet(s)
<1>1. \A e : e \in ToSet(t) <=> \E k \in 1 .. Len(t) : t[k] = e
  BY SetIs
<1>2. \A e : e \in ToSet(s) <=> \E k \in 1 .. Len(s) : s[k] = e
  BY SetIs
<1>3. ASSUME NEW e \in ToSet(t) PROVE e \in ToSet(s)
  <2>1. PICK k \in 1 .. Len(t) : t[k] = e
    BY <1>1
  <2> QED
    BY <1>2, <2>1
<1>4. ASSUME NEW e \in ToSet(s) PROVE e \in ToSet(t)
  <2>1. PICK k \in 1 .. Len(s) : s[k] = e
    BY <1>2
  <2> QED
    BY <1>1, <2>1
<1> QED
  BY <1>3, <1>4

\* ListReverse keeps the invariant.
LEMMA ReverseInv ==
    ASSUME ListInv, NEW l \in Lists, ListReverse(l)
    PROVE  ListInv'
<1>1. l \in Used /\ Holds(links, Seqs) /\ DOMAIN Seqs = Used /\ value \in [Elems -> Data]
      /\ Relink(list_reverse(links, l), {}) /\ Apart(Seqs) /\ live = Inside(Seqs)
  BY InvIs DEF ListReverse, Used
<1>2. Holds(list_reverse(links, l), Reversed(Seqs, l)) /\ DOMAIN Reversed(Seqs, l) = DOMAIN Seqs
  BY <1>1, ReverseHolds, ReverseApart, HoldsIs
<1>3. live \ {} = Inside(Reversed(Seqs, l))
  <2> DEFINE T == Reversed(Seqs, l)
             s == Seqs[l]
  <2>1. /\ DOMAIN T = DOMAIN Seqs /\ T[l] = Reverse(s)
        /\ \A x \in DOMAIN Seqs : x # l => T[x] = Seqs[x]
    BY <1>1, ReverseApart
  <2>2. s \in Seq(Elems) /\ Len(s) \in Nat
    BY <1>1, CellIs
  <2> HIDE DEF T, s
  <2>3. /\ Reverse(s) \in Seq(Elems) /\ Len(Reverse(s)) = Len(s)
        /\ \A k \in 1 .. Len(s) : Reverse(s)[k] = s[Len(s) + 1 - k]
    BY ONLY <2>2, ReverseIs
  <2>4. \A k \in 1 .. Len(s) : Len(s) + 1 - k \in 1 .. Len(s) /\ Len(s) + 1 - (Len(s) + 1 - k) = k
    BY ONLY <2>2
  <2>5. ToSet(Reverse(s)) = ToSet(s)
    <3> DEFINE t == Reverse(s)
               n == Len(s)
    <3>1. t \in Seq(Elems) /\ Len(t) = n /\ n \in Nat
      BY <2>2, <2>3
    <3>2. \A k \in 1 .. n : t[k] = s[n + 1 - k]
      BY <2>3
    <3> HIDE DEF t
    <3>3. \A i \in 1 .. Len(t) : \E k \in 1 .. n : s[k] = t[i]
      <4> SUFFICES ASSUME NEW i \in 1 .. n PROVE \E k \in 1 .. n : s[k] = t[i]
        BY <3>1
      <4>1. n + 1 - i \in 1 .. n /\ t[i] = s[n + 1 - i]
        BY <2>4, <3>2
      <4> QED
        BY ONLY <4>1
    <3>4. \A k \in 1 .. n : \E i \in 1 .. Len(t) : t[i] = s[k]
      <4> SUFFICES ASSUME NEW k \in 1 .. n PROVE \E i \in 1 .. n : t[i] = s[k]
        BY <3>1
      <4>1. n + 1 - k \in 1 .. n /\ t[n + 1 - k] = s[n + 1 - (n + 1 - k)] /\ n + 1 - (n + 1 - k) = k
        BY <2>4, <3>2
      <4> QED
        BY ONLY <4>1
    <3>5. ToSet(t) = ToSet(s)
      BY ONLY <2>2, <3>1, <3>3, <3>4, SameSet
    <3> QED
      BY <3>5 DEF t
  <2>6. Inside(Seqs) = ToSet(s) \cup Others(Seqs, l) /\ Inside(T) = ToSet(T[l]) \cup Others(Seqs, l)
    BY <1>1, <2>1, OthersStay DEF s
  <2> QED
    BY <1>1, <2>1, <2>5, <2>6 DEF T
<1> QED
  BY <1>1, <1>2, <1>3, RelinkInv DEF Relink

-----------------------------------------------------------------------------
(* list_unique.                                                            *)

\* What Picked has picked after each place.
PickSteps(s, test) ==
    CHOOSE h : h = [k \in 0 .. Len(s) |->
                       IF k = 0 THEN << >> ELSE IF test[k] THEN Append(h[k - 1], s[k]) ELSE h[k - 1]]

\* a says what Picked has after each place of s.
Picking(a, E, s, test) ==
    /\ Picked(s, test) = a[Len(s)] /\ a[0] = << >>
    /\ \A k \in 1 .. Len(s) : a[k] = IF test[k] THEN Append(a[k - 1], s[k]) ELSE a[k - 1]
    /\ \A k \in 0 .. Len(s) : a[k] \in Seq(E) /\ Len(a[k]) <= k

\* The loop of Picked runs, one element of s a round.
LEMMA PickStepsAre ==
    ASSUME NEW E, NEW s \in Seq(E), NEW test
    PROVE  Picking(PickSteps(s, test), E, s, test)
<1> DEFINE n == Len(s)
           x0 == << >>
           I == [k \in 0 .. n |-> {r \in Seq(E) : Len(r) <= k}]
           Round(r, k) == IF test[k] THEN Append(r, s[k]) ELSE r
           g == [k \in 1 .. n |-> [r \in I[k - 1] |-> Round(r, k)]]
           after == CHOOSE h : h = [k \in 0 .. n |-> IF k = 0 THEN x0 ELSE Round(h[k - 1], k)]
<1>1. Picked(s, test) = after[n] /\ PickSteps(s, test) = after
  BY Zenon DEF Picked, Loop, PickSteps
<1>2. n \in Nat
  OBVIOUS
<1>3. x0 \in I[0]
  BY <1>2
<1>4. ASSUME NEW k \in 1 .. n, NEW r \in I[k - 1] PROVE Round(r, k) \in I[k]
  <2>1. r \in Seq(E) /\ Len(r) <= k - 1 /\ s[k] \in E /\ k \in Nat /\ k \in 0 .. n
    BY ElementOfSeq
  <2> QED
    BY <2>1
<1>5. \A k \in 1 .. n : k - 1 \in 0 .. n /\ \A c0 \in I[k - 1] : g[k][c0] = Round(c0, k) /\ g[k][c0] \in I[k]
  <2>1. \A k \in 1 .. n : k - 1 \in 0 .. n
    BY <1>2
  <2> HIDE DEF Round, n, I
  <2>2. \A k \in 1 .. n : \A c0 \in I[k - 1] : g[k][c0] = Round(c0, k)
    OBVIOUS
  <2> HIDE DEF g
  <2> QED
    BY <2>1, <2>2, <1>4
<1> HIDE DEF x0, g, I, Round, n
<1>6. \E f : f = [k \in 0 .. n |-> IF k = 0 THEN x0 ELSE Round(f[k - 1], k)]
  <2>1. PICK f : Turns(f, n, x0, g, I)
    BY <1>2, <1>3, <1>5, LoopRuns
  <2>2. /\ f = [k \in 0 .. n |-> IF k = 0 THEN x0 ELSE g[k][f[k - 1]]]
        /\ \A k \in 0 .. n : f[k] \in I[k]
    BY <2>1 DEF Turns
  <2>3. \A k \in 1 .. n : g[k][f[k - 1]] = Round(f[k - 1], k)
    BY <1>5, <2>2
  <2>4. \A k \in 0 .. n : k = 0 \/ k \in 1 .. n
    BY <1>2
  <2>5. \A k \in 0 .. n : (IF k = 0 THEN x0 ELSE g[k][f[k - 1]]) = IF k = 0 THEN x0 ELSE Round(f[k - 1], k)
    BY <2>3, <2>4
  <2>6. f = [k \in 0 .. n |-> IF k = 0 THEN x0 ELSE Round(f[k - 1], k)]
    BY <2>2, <2>5
  <2> QED
    BY <2>6
<1>7. after = [k \in 0 .. n |-> IF k = 0 THEN x0 ELSE Round(after[k - 1], k)]
  BY <1>6
<1> HIDE DEF after
<1>8. \A k \in 0 .. n : after[k] \in I[k]
  <2>1. after[0] \in I[0]
    BY <1>2, <1>3, <1>7
  <2>2. \A k \in 1 .. n : after[k - 1] \in I[k - 1] => after[k] \in I[k]
    <3> SUFFICES ASSUME NEW k \in 1 .. n, after[k - 1] \in I[k - 1] PROVE after[k] \in I[k]
      OBVIOUS
    <3>1. k \in 0 .. n /\ k # 0
      BY <1>2
    <3>2. after[k] = Round(after[k - 1], k)
      BY <1>7, <3>1
    <3> QED
      BY <1>5, <3>2
  <2> QED
    BY <1>2, <2>1, <2>2, LoopStays
<1>9. \A k \in 0 .. n : after[k] \in Seq(E) /\ Len(after[k]) <= k
  BY <1>8 DEF I
<1>10. after[0] = << >> /\ \A k \in 1 .. n : after[k] = IF test[k] THEN Append(after[k - 1], s[k]) ELSE after[k - 1]
  <2>1. \A k \in 1 .. n : k \in 0 .. n /\ k # 0
    BY <1>2
  <2>2. 0 \in 0 .. n
    BY <1>2
  <2> QED
    BY <1>7, <2>1, <2>2 DEF Round, x0
<1> HIDE DEF n
<1> QED
  BY <1>1, <1>9, <1>10 DEF n, Picking

\* t is u and then what v has after the first y.
Then(t, u, v, y) ==
    /\ Len(t) = Len(u) + (Len(v) - y)
    /\ \A i \in 1 .. Len(u) : t[i] = u[i]
    /\ \A i \in 1 .. Len(v) - y : t[Len(u) + i] = v[y + i]

\* The next element of v is kept, and is the last of u.
LEMMA ThenKeep ==
    ASSUME NEW E, NEW t \in Seq(E), NEW u \in Seq(E), NEW v \in Seq(E), NEW y \in 0 .. Len(v) - 1,
           Then(t, u, v, y), NEW z, z = y + 1
    PROVE  Then(t, Append(u, v[z]), v, z)
<1> DEFINE w == Append(u, v[z])
<1>1. /\ Len(u) \in Nat /\ Len(v) \in Nat /\ z \in 1 .. Len(v) /\ v[z] \in E
  BY ElementOfSeq
<1>2. Len(w) = Len(u) + 1 /\ \A i \in 1 .. Len(u) + 1 : w[i] = IF i = Len(u) + 1 THEN v[z] ELSE u[i]
  BY <1>1
<1>3. /\ Len(t) = Len(u) + (Len(v) - y)
      /\ \A i \in 1 .. Len(u) : t[i] = u[i]
      /\ \A i \in 1 .. Len(v) - y : t[Len(u) + i] = v[y + i]
  BY DEF Then
<1> HIDE DEF w
<1>4. ASSUME NEW i \in 1 .. Len(w) PROVE t[i] = w[i]
  <2>1. CASE i = Len(u) + 1
    <3>1. 1 \in 1 .. Len(v) - y /\ i = Len(u) + 1 /\ y + 1 = z
      BY <1>1, <2>1
    <3> QED
      BY <1>1, <1>2, <1>3, <3>1
  <2>2. CASE i # Len(u) + 1
    <3>1. i \in 1 .. Len(u)
      BY <1>1, <1>2, <2>2
    <3> QED
      BY <1>2, <1>3, <2>2, <3>1
  <2> QED
    BY <2>1, <2>2
<1>5. ASSUME NEW i \in 1 .. Len(v) - z PROVE t[Len(w) + i] = v[z + i]
  <2>1. i + 1 \in 1 .. Len(v) - y /\ Len(u) + (i + 1) = (Len(u) + 1) + i /\ y + (i + 1) = z + i
    BY <1>1
  <2> QED
    BY <1>2, <1>3, <2>1
<1>6. Len(t) = Len(w) + (Len(v) - z)
  BY <1>1, <1>2, <1>3
<1> QED
  BY <1>4, <1>5, <1>6 DEF Then, w

\* Without the next of v's elements, which is after the p of u, it is that still.
ThenGone(t, u, v, z, p) == Then(Cut(t, p, p + 1), u, v, z) /\ t[p + 1] = v[z] /\ p + 1 \in 1 .. Len(t)

\* The next element of v is removed, and u is the same.
LEMMA ThenDrop ==
    ASSUME NEW E, NEW t \in Seq(E), NEW u \in Seq(E), NEW v \in Seq(E), NEW y \in 0 .. Len(v) - 1,
           Then(t, u, v, y)
    PROVE  ThenGone(t, u, v, y + 1, Len(u))
<1> DEFINE p == Len(u)
           z == y + 1
           w == Cut(t, p, p + 1)
<1>1. p \in Nat /\ Len(v) \in Nat /\ z \in 1 .. Len(v) /\ Len(t) \in Nat /\ y \in Nat
  OBVIOUS
<1>2. /\ Len(t) = p + (Len(v) - y)
      /\ \A i \in 1 .. p : t[i] = u[i]
      /\ \A i \in 1 .. Len(v) - y : t[p + i] = v[y + i]
  BY DEF Then
<1>3. p + 1 \in 0 .. Len(t) /\ p + 1 \in 1 .. Len(t) /\ p \in 0 .. p + 1 /\ (p + 1) - p = 1
  BY <1>1, <1>2
<1>4. /\ Len(w) = Len(t) - ((p + 1) - p)
      /\ \A i \in 1 .. p : w[i] = t[i]
      /\ \A i \in p + 1 .. Len(t) - ((p + 1) - p) : w[i] = t[i + ((p + 1) - p)]
  <2> DEFINE j == p + 1
  <2>1. t \in Seq(E) /\ j \in 0 .. Len(t) /\ p \in 0 .. j
    BY <1>3
  <2> HIDE DEF j, w, p
  <2>2. /\ Len(Cut(t, p, j)) = Len(t) - (j - p)
        /\ \A i \in 1 .. p : Cut(t, p, j)[i] = t[i]
        /\ \A i \in p + 1 .. Len(t) - (j - p) : Cut(t, p, j)[i] = t[i + (j - p)]
    BY ONLY <2>1, CutIs
  <2> QED
    BY <2>2, Zenon DEF j, w
<1> HIDE DEF w
<1>5. ASSUME NEW i \in 1 .. Len(v) - z PROVE w[p + i] = v[z + i]
  <2>1. /\ p + i \in p + 1 .. Len(t) - ((p + 1) - p) /\ (p + i) + ((p + 1) - p) = p + (i + 1)
        /\ i + 1 \in 1 .. Len(v) - y /\ y + (i + 1) = z + i
    BY <1>1, <1>2
  <2>2. w[p + i] = t[(p + i) + ((p + 1) - p)]
    BY <1>4, <2>1
  <2>3. t[p + (i + 1)] = v[y + (i + 1)]
    BY <1>2, <2>1
  <2> QED
    BY <2>1, <2>2, <2>3
<1>6. Len(w) = p + (Len(v) - z)
  BY <1>1, <1>2, <1>4
<1>7. t[p + 1] = v[z]
  <2>1. 1 \in 1 .. Len(v) - y /\ y + 1 = z
    BY <1>1
  <2> QED
    BY <1>2, <2>1
<1> QED
  BY <1>2, <1>3, <1>4, <1>5, <1>6, <1>7 DEF Then, w, ThenGone

\* An element put at the end of the list is put at the end of v.
LEMMA ThenAdd ==
    ASSUME NEW E, NEW t \in Seq(E), NEW u \in Seq(E), NEW v \in Seq(E), Then(t, u, v, 0), NEW x \in E,
           NEW p, p = Len(t)
    PROVE  Then(Paste(t, p, <<x>>), u, Append(v, x), 0)
<1> DEFINE w == Paste(t, p, <<x>>)
           c == <<x>>
           b == Append(v, x)
<1>1. c \in Seq(E) /\ Len(c) = 1 /\ c[1] = x
  OBVIOUS
<1>2. p \in Nat /\ p \in 0 .. Len(t) /\ Len(u) \in Nat /\ Len(v) \in Nat
  OBVIOUS
<1>3. Len(b) = Len(v) + 1 /\ \A i \in 1 .. Len(v) + 1 : b[i] = IF i = Len(v) + 1 THEN x ELSE v[i]
  OBVIOUS
<1> HIDE DEF b, c
<1>4. /\ Paste(t, p, c) \in Seq(E) /\ Len(Paste(t, p, c)) = Len(t) + Len(c)
      /\ \A k \in 1 .. p : Paste(t, p, c)[k] = t[k]
      /\ \A k \in 1 .. Len(c) : Paste(t, p, c)[p + k] = c[k]
      /\ \A k \in p + 1 .. Len(t) : Paste(t, p, c)[k + Len(c)] = t[k]
  <2>1. t \in Seq(E) /\ c \in Seq(E) /\ p \in 0 .. Len(t)
    BY <1>1, <1>2
  <2> HIDE DEF w
  <2> QED
    BY ONLY <2>1, PasteIs
<1>5. Len(w) = p + 1 /\ (\A k \in 1 .. p : w[k] = t[k]) /\ w[p + 1] = x
  <2>1. w = Paste(t, p, c)
    BY DEF c
  <2> HIDE DEF w
  <2> QED
    BY <1>1, <1>4, <2>1
<1> HIDE DEF w
<1>6. /\ p = Len(u) + Len(v)
      /\ \A i \in 1 .. Len(u) : t[i] = u[i]
      /\ \A i \in 1 .. Len(v) : t[Len(u) + i] = v[i]
  <2>1. Len(v) - 0 = Len(v) /\ \A i \in 1 .. Len(v) : 0 + i = i
    BY <1>2
  <2>2. /\ Len(t) = Len(u) + (Len(v) - 0)
        /\ \A i \in 1 .. Len(u) : t[i] = u[i]
        /\ \A i \in 1 .. Len(v) - 0 : t[Len(u) + i] = v[0 + i]
    BY DEF Then
  <2> QED
    BY <2>1, <2>2
<1>7. Len(w) = Len(u) + (Len(b) - 0)
  BY <1>2, <1>3, <1>5, <1>6
<1>8. \A i \in 1 .. Len(u) : w[i] = u[i]
  <2>1. \A i \in 1 .. Len(u) : i \in 1 .. p
    BY <1>2, <1>6
  <2> QED
    BY <1>5, <1>6, <2>1
<1>9. ASSUME NEW i \in 1 .. Len(b) - 0 PROVE w[Len(u) + i] = b[0 + i]
  <2>1. 0 + i = i /\ i \in 1 .. Len(v) + 1
    BY <1>2, <1>3
  <2>2. CASE i = Len(v) + 1
    <3>1. Len(u) + i = p + 1
      BY <1>2, <1>6, <2>2
    <3> QED
      BY <1>3, <1>5, <2>1, <2>2, <3>1
  <2>3. CASE i # Len(v) + 1
    <3>1. i \in 1 .. Len(v) /\ Len(u) + i \in 1 .. p
      BY <1>2, <1>6, <2>1, <2>3
    <3> QED
      BY <1>3, <1>5, <1>6, <2>1, <2>3, <3>1
  <2> QED
    BY <2>2, <2>3
<1> QED
  BY <1>7, <1>8, <1>9 DEF Then, w, b

\* At the end the list is u, or u and then v.
LEMMA ThenAll ==
    ASSUME NEW E, NEW t \in Seq(E), NEW u \in Seq(E), NEW v \in Seq(E)
    PROVE  /\ Then(t, u, v, Len(v)) => t = u
           /\ Then(t, u, v, 0) => t = u \o v
<1>1. Len(u) \in Nat /\ Len(v) \in Nat /\ Len(v) - Len(v) = 0 /\ Len(u) + 0 = Len(u)
  OBVIOUS
<1>2. ASSUME Then(t, u, v, Len(v)) PROVE t = u
  <2>1. Len(t) = Len(u) /\ \A i \in 1 .. Len(t) : t[i] = u[i]
    BY <1>1, <1>2 DEF Then
  <2> QED
    BY <2>1, SeqEqual
<1>3. ASSUME Then(t, u, v, 0) PROVE t = u \o v
  <2> DEFINE w == u \o v
  <2>1. /\ w \in Seq(E) /\ Len(w) = Len(u) + Len(v)
        /\ \A i \in 1 .. Len(u) + Len(v) : w[i] = IF i <= Len(u) THEN u[i] ELSE v[i - Len(u)]
    BY ConcatProperties
  <2> HIDE DEF w
  <2>2. /\ Len(t) = Len(u) + (Len(v) - 0)
        /\ \A i \in 1 .. Len(u) : t[i] = u[i]
        /\ \A i \in 1 .. Len(v) - 0 : t[Len(u) + i] = v[0 + i]
    BY <1>3 DEF Then
  <2>3. Len(t) = Len(w)
    BY <1>1, <2>1, <2>2
  <2>4. ASSUME NEW i \in 1 .. Len(t) PROVE t[i] = w[i]
    <3>1. i \in 1 .. Len(u) + Len(v)
      BY <2>1, <2>3
    <3>2. CASE i <= Len(u)
      <4>1. i \in 1 .. Len(u)
        BY <3>1, <3>2, <1>1
      <4> QED
        BY <2>1, <2>2, <3>1, <3>2, <4>1
    <3>3. CASE ~(i <= Len(u))
      <4>1. i - Len(u) \in 1 .. Len(v) - 0 /\ Len(u) + (i - Len(u)) = i /\ 0 + (i - Len(u)) = i - Len(u)
        BY <3>1, <3>3, <1>1
      <4> QED
        BY <2>1, <2>2, <3>1, <3>3, <4>1
    <3> QED
      BY <3>2, <3>3
  <2>5. t = w
    BY <2>1, <2>3, <2>4, SeqEqual
  <2> QED
    BY <2>5 DEF w
<1> QED
  BY <1>2, <1>3

\* T is S when list_unique has done the first y elements of l: a[y] of them
\* are kept and b[y] are in dup.
Weeded(T, S, l, dup, a, b, y) ==
    /\ DOMAIN T = DOMAIN S /\ Then(T[l], a[y], S[l], y)
    /\ dup # NoList => Then(T[dup], S[dup], b[y], 0)
    /\ \A x \in DOMAIN S \ {l, dup} : T[x] = S[x]

\* Where its loop is then: at the last one kept, an equal of the last one done.
UniqueAt(q, T, S, l, d, dup, a, b, y) ==
    /\ q \in [links : ListMemory, elem : ListCells] /\ Holds(q.links, T)
    /\ Weeded(T, S, l, dup, a, b, y)
    /\ Len(a[y]) # 0 /\ q.elem = a[y][Len(a[y])] /\ d[q.elem] = d[S[l][y]]

\* The loop is at element p of list l, which has r after it.
NextThere(q, T, l, p, r) ==
    /\ q.links.next[q.elem] = Cell(T[l], l, p + 1) /\ p \in 1 .. Len(T[l])
    /\ Len(T[l]) = p + r /\ q.elem = T[l][p] /\ q.elem \in Elems
    /\ T[l] \in Seq(Elems) /\ l \in DOMAIN T /\ Apart(T)

\* Where the loop of list_unique is, by the places of the sequence.
LEMMA UniqueNext ==
    ASSUME NEW S, Apart(S), NEW l \in DOMAIN S, NEW d, NEW dup, NEW a, NEW b,
           NEW y \in 0 .. Len(S[l]), a[y] \in Seq(Elems), NEW q, NEW T, UniqueAt(q, T, S, l, d, dup, a, b, y)
    PROVE  NextThere(q, T, l, Len(a[y]), Len(S[l]) - y)
<1> DEFINE p == Len(a[y])
<1>1. /\ Holds(q.links, T) /\ Then(T[l], a[y], S[l], y) /\ DOMAIN T = DOMAIN S
      /\ p # 0 /\ p \in Nat /\ q.elem = a[y][p]
  BY DEF UniqueAt, Weeded
<1>2. Apart(T) /\ l \in DOMAIN T
  BY <1>1, HoldsIs
<1>3. T[l] \in Seq(Elems) /\ Len(S[l]) \in Nat /\ Len(T[l]) \in Nat
  BY <1>2, CellIs
<1>4. Len(T[l]) = p + (Len(S[l]) - y) /\ \A i \in 1 .. p : T[l][i] = a[y][i]
  BY <1>1 DEF Then
<1>5. p \in 1 .. Len(T[l]) /\ p \in 1 .. p /\ p \in 0 .. Len(T[l])
  <2>1. p \in Nat /\ p # 0 /\ Len(S[l]) \in Nat /\ y \in 0 .. Len(S[l]) /\ Len(T[l]) = p + (Len(S[l]) - y)
    BY <1>1, <1>3, <1>4
  <2> QED
    BY <2>1
<1>6. Cell(T[l], l, p) = T[l][p] /\ T[l][p] \in Elems
  BY <1>2, <1>5, CellIs
<1>7. q.links.next[Cell(T[l], l, p)] = Cell(T[l], l, p + 1)
  BY <1>1, <1>2, <1>5, LinksAre
<1>8. q.elem = T[l][p]
  BY <1>1, <1>4, <1>5
<1> QED
  BY <1>2, <1>3, <1>4, <1>5, <1>6, <1>7, <1>8 DEF NextThere

\* After the last one the loop stands still.
LEMMA UniqueStops ==
    ASSUME NEW S, Apart(S), NEW l \in DOMAIN S, NEW d, NEW dup, NEW a, NEW b,
           NEW y, y = Len(S[l]), a[y] \in Seq(Elems), NEW q, NEW T, UniqueAt(q, T, S, l, d, dup, a, b, y)
    PROVE  UniqueElem(q, d, l, dup) = q
<1> DEFINE p == Len(a[y])
<1>1. y \in 0 .. Len(S[l]) /\ Len(S[l]) - y = 0
  BY CellIs
<1>2. /\ q.links.next[q.elem] = Cell(T[l], l, p + 1) /\ p \in 1 .. Len(T[l])
      /\ Len(T[l]) = p + (Len(S[l]) - y) /\ l \in DOMAIN T /\ Apart(T)
  BY <1>1, UniqueNext DEF NextThere
<1>3. Len(T[l]) = p
  <2> HIDE DEF p
  <2> QED
    BY <1>1, <1>2
<1>4. q.links.next[q.elem] = list_end(l)
  BY <1>2, <1>3, CellIs DEF list_end
<1> QED
  BY <1>4 DEF UniqueElem

\* A round keeps the next element or takes it out.
LEMMA UniqueRound ==
    ASSUME NEW S, Apart(S), NEW l \in DOMAIN S, NEW d \in [Elems -> Int],
           NEW dup, dup # l, dup = NoList \/ dup \in DOMAIN S, NEW a, NEW b,
           NEW y \in 0 .. Len(S[l]) - 1, NEW z, z = y + 1,
           a[y] \in Seq(Elems), b[y] \in Seq(Elems),
           d[S[l][z]] # d[S[l][y]] => a[z] = Append(a[y], S[l][z]) /\ b[z] = b[y],
           d[S[l][z]] = d[S[l][y]] => a[z] = a[y] /\ b[z] = Append(b[y], S[l][z]),
           NEW q, NEW T, UniqueAt(q, T, S, l, d, dup, a, b, y)
    PROVE  \E U : UniqueAt(UniqueElem(q, d, l, dup), U, S, l, d, dup, a, b, z)
<1> DEFINE p == Len(a[y])
           s == S[l]
           next == q.links.next[q.elem]
           m1 == list_remove(q.links, next)
           U1 == CutOut(T, l, p, p + 1)
<1>1. y \in 0 .. Len(S[l]) /\ z \in 1 .. Len(S[l]) /\ Len(S[l]) \in Nat /\ s \in Seq(Elems) /\ s[z] \in Elems
  <2>1. Len(S[l]) \in Nat
    BY CellIs
  <2>2. y \in 0 .. Len(S[l]) /\ z \in 1 .. Len(S[l])
    BY <2>1
  <2> QED
    BY <2>1, <2>2, CellIs
<1>2. /\ next = Cell(T[l], l, p + 1) /\ p \in 1 .. Len(T[l])
      /\ q.elem = T[l][p] /\ q.elem \in Elems
      /\ T[l] \in Seq(Elems) /\ l \in DOMAIN T /\ Apart(T)
  <2>1. NextThere(q, T, l, Len(a[y]), Len(S[l]) - y)
    BY <1>1, UniqueNext
  <2> QED
    BY <2>1 DEF NextThere
<1>3. /\ q \in [links : ListMemory, elem : ListCells] /\ Holds(q.links, T)
      /\ DOMAIN T = DOMAIN S /\ Then(T[l], a[y], s, y)
      /\ dup # NoList => Then(T[dup], S[dup], b[y], 0)
      /\ \A x \in DOMAIN S \ {l, dup} : T[x] = S[x]
      /\ d[q.elem] = d[s[y]] /\ p # 0 /\ p \in Nat
  BY DEF UniqueAt, Weeded
<1>4. Then(Cut(T[l], p, p + 1), a[y], s, z) /\ T[l][p + 1] = s[z] /\ p + 1 \in 1 .. Len(T[l])
  <2> DEFINE t == T[l]
             u == a[y]
  <2>1. t \in Seq(Elems) /\ u \in Seq(Elems) /\ s \in Seq(Elems) /\ y \in 0 .. Len(s) - 1 /\ Then(t, u, s, y)
    BY <1>1, <1>2, <1>3
  <2> HIDE DEF s, t, u, next, m1, U1
  <2>2. ThenGone(t, u, s, y + 1, Len(u))
    BY <2>1, ThenDrop
  <2> QED
    BY <2>2 DEF t, u, ThenGone
<1>5. next = s[z] /\ next \in Elems /\ next # list_end(l) /\ next \in ListCells
  <2>1. Cell(T[l], l, p + 1) = T[l][p + 1]
    BY <1>2, <1>4, CellIs
  <2> QED
    BY <1>1, <1>2, <1>4, <2>1, ListKinds, IsListCell DEF list_end
<1>6. less(d, q.elem, next) \/ less(d, next, q.elem) <=> d[s[z]] # d[s[y]]
  <2>1. d[q.elem] \in Int /\ d[next] \in Int
    BY <1>2, <1>5
  <2>2. d[q.elem] = d[s[y]] /\ d[next] = d[s[z]]
    BY <1>3, <1>5
  <2> HIDE DEF next, s
  <2> QED
    BY <2>1, <2>2 DEF less
<1>7. CASE d[s[z]] # d[s[y]]
  <2> DEFINE r == [q EXCEPT !.elem = next]
  <2>1. UniqueElem(q, d, l, dup) = r
    BY <1>5, <1>6, <1>7 DEF UniqueElem
  <2>2. r \in [links : ListMemory, elem : ListCells] /\ r.links = q.links /\ r.elem = next
    <3> HIDE DEF next
    <3> QED
      BY <1>3, <1>5
  <2>3. a[z] = Append(a[y], s[z]) /\ b[z] = b[y]
    BY <1>7
  <2>4. Then(T[l], a[z], s, z)
    <3> DEFINE t == T[l]
               u == a[y]
    <3>1. t \in Seq(Elems) /\ u \in Seq(Elems) /\ s \in Seq(Elems) /\ y \in 0 .. Len(s) - 1 /\ Then(t, u, s, y)
      BY <1>1, <1>2, <1>3
    <3> HIDE DEF s, t, u, next, m1, U1, r
    <3>2. Then(t, Append(u, s[z]), s, z)
      BY <3>1, ThenKeep
    <3> QED
      BY <2>3, <3>2 DEF t, u
  <2>5. Weeded(T, S, l, dup, a, b, z)
    BY <1>3, <2>3, <2>4 DEF Weeded
  <2>6. Len(a[z]) # 0 /\ a[z][Len(a[z])] = s[z]
    <3>1. a[y] \in Seq(Elems) /\ s[z] \in Elems
      BY <1>1
    <3> HIDE DEF s
    <3> QED
      BY <2>3, <3>1
  <2> HIDE DEF r, next
  <2>7. UniqueAt(r, T, S, l, d, dup, a, b, z)
    BY <1>3, <1>5, <2>2, <2>5, <2>6 DEF UniqueAt
  <2> QED
    BY <2>1, <2>7
<1>8. CASE d[s[z]] = d[s[y]]
  <2>1. a[z] = a[y] /\ b[z] = Append(b[y], s[z])
    BY <1>8
  <2>2. Holds(m1, U1)
    <3> DEFINE k == p + 1
    <3>1. k \in 1 .. Len(T[l]) /\ T[l][k] = next /\ k - 1 = p
      BY <1>3, <1>4, <1>5
    <3> HIDE DEF k, next, p
    <3>2. Holds(list_remove(q.links, T[l][k]), CutOut(T, l, k - 1, k))
      BY <1>2, <1>3, <3>1, RemoveHolds
    <3> QED
      BY <3>1, <3>2 DEF k
  <2>3. /\ DOMAIN U1 = DOMAIN S /\ U1[l] = Cut(T[l], p, p + 1) /\ \A x \in DOMAIN S : x # l => U1[x] = T[x]
    BY <1>3 DEF CutOut
  <2>4. m1 \in ListMemory /\ Apart(U1)
    BY <2>2, HoldsIs
  <2>5. Len(a[z]) # 0 /\ a[z][Len(a[z])] = q.elem /\ d[q.elem] = d[s[z]]
    BY <1>3, <1>8, <2>1 DEF UniqueAt
  <2>6. CASE dup = NoList
    <3> DEFINE r == [q EXCEPT !.links = m1]
    <3>1. UniqueElem(q, d, l, dup) = r
      BY <1>5, <1>6, <1>8, <2>6 DEF UniqueElem
    <3>2. r \in [links : ListMemory, elem : ListCells] /\ r.links = m1 /\ r.elem = q.elem
      <4> HIDE DEF m1
      <4> QED
        BY <1>3, <2>4
    <3>3. Weeded(U1, S, l, dup, a, b, z)
      <4> HIDE DEF U1
      <4> QED
        BY <1>3, <1>4, <2>1, <2>3, <2>6 DEF Weeded
    <3> HIDE DEF r, m1, U1
    <3>4. UniqueAt(r, U1, S, l, d, dup, a, b, z)
      BY <2>2, <2>5, <3>2, <3>3 DEF UniqueAt
    <3> QED
      BY <3>1, <3>4
  <2>7. CASE dup # NoList
    <3> DEFINE m2 == list_push_back(m1, dup, next)
               r == [q EXCEPT !.links = m2]
               n == Len(U1[dup])
               U == PutIn(U1, dup, n, <<next>>)
    <3>1. UniqueElem(q, d, l, dup) = r
      BY <1>5, <1>6, <1>8, <2>7 DEF UniqueElem
    <3>2. dup \in DOMAIN U1 /\ U1[dup] = T[dup] /\ dup \in DOMAIN S
      BY <2>3, <2>7
    <3>3. U1[dup] \in Seq(Elems) /\ n \in 0 .. Len(U1[dup]) /\ Cell(U1[dup], dup, n + 1) = list_end(dup)
      <4> HIDE DEF U1
      <4>1. Apart(U1) /\ dup \in DOMAIN U1
        BY <2>4, <3>2
      <4> QED
        BY ONLY <4>1, CellIs DEF list_end, n
    <3>4. \A x \in DOMAIN U1 : \A k \in 1 .. Len(U1[x]) : U1[x][k] # next
      <4> DEFINE j == p + 1
      <4>1. j \in 0 .. Len(T[l]) /\ p \in 0 .. j /\ j \in p + 1 .. j /\ T[l][j] = next
        <5>1. p \in 1 .. Len(T[l]) /\ p + 1 \in 1 .. Len(T[l]) /\ T[l][p + 1] = next
          BY <1>3, <1>4, <1>5
        <5> HIDE DEF p, next
        <5> QED
          BY ONLY <5>1 DEF j
      <4> HIDE DEF j, p, next
      <4>2. \A k \in p + 1 .. j : \A x \in DOMAIN T : \A i \in 1 .. Len(CutOut(T, l, p, j)[x]) :
               CutOut(T, l, p, j)[x][i] # T[l][k]
        BY <1>2, <4>1, CutApart
      <4>3. U1 = CutOut(T, l, p, j) /\ DOMAIN T = DOMAIN U1
        BY <1>3, <2>3 DEF j
      <4> HIDE DEF U1
      <4> QED
        BY <4>1, <4>2, <4>3
    <3>5. Holds(m2, U)
      <4>1. Holds(list_insert(m1, Cell(U1[dup], dup, n + 1), next), U)
        <5> HIDE DEF U1, m1, next, n
        <5> QED
          BY <1>5, <2>2, <3>2, <3>3, <3>4, InsertHolds
      <4> QED
        BY <3>3, <4>1 DEF list_push_back
    <3>6. m2 \in ListMemory
      BY <3>5, HoldsIs
    <3>7. DOMAIN U = DOMAIN S /\ U[dup] = Paste(U1[dup], n, <<next>>) /\ \A x \in DOMAIN S : x # dup => U[x] = U1[x]
      <4> HIDE DEF U1, n, next
      <4> QED
        BY <2>3, <3>2 DEF PutIn
    <3>8. r \in [links : ListMemory, elem : ListCells] /\ r.links = m2 /\ r.elem = q.elem
      <4> HIDE DEF m2
      <4> QED
        BY <1>3, <3>6
    <3> HIDE DEF r, m2, U
    <3>9. Then(U[dup], S[dup], b[z], 0)
      <4> DEFINE t == U1[dup]
                 u == S[dup]
                 v == b[y]
      <4>1. t \in Seq(Elems) /\ u \in Seq(Elems) /\ v \in Seq(Elems) /\ Then(t, u, v, 0) /\ n = Len(t)
        BY <1>3, <2>7, <3>2, <3>3, CellIs
      <4>2. U[dup] = Paste(t, n, <<next>>) /\ b[z] = Append(v, next) /\ next \in Elems
        BY <1>5, <2>1, <3>7
      <4> HIDE DEF t, u, v, n, next
      <4>3. Then(Paste(t, n, <<next>>), u, Append(v, next), 0)
        BY <4>1, <4>2, ThenAdd
      <4> QED
        BY <4>2, <4>3 DEF u
    <3>10. Weeded(U, S, l, dup, a, b, z)
      <4>1. U[l] = Cut(T[l], p, p + 1)
        BY <2>3, <3>7
      <4>2. \A x \in DOMAIN S \ {l, dup} : U[x] = S[x]
        <5> HIDE DEF U1
        <5> QED
          BY <1>3, <2>3, <3>7
      <4> QED
        BY <1>4, <2>1, <3>7, <3>9, <4>1, <4>2 DEF Weeded
    <3>11. UniqueAt(r, U, S, l, d, dup, a, b, z)
      BY <2>5, <3>5, <3>8, <3>10 DEF UniqueAt
    <3> QED
      BY <3>1, <3>11
  <2> QED
    BY <2>6, <2>7
<1> QED
  BY <1>7, <1>8

\* test tells the first of each run of equals in s, rest the others.
Telling(test, rest, s, d) ==
    /\ \A k \in 1 .. Len(s) : test[k] <=> k = 1 \/ d[s[k]] # d[s[k - 1]]
    /\ \A k \in 1 .. Len(s) : rest[k] <=> ~test[k]

\* r has the lists T: those of S, list l without what rest tells, which dup has.
UniqueDone(r, T, S, l, dup, test, rest) ==
    /\ Holds(r, T) /\ DOMAIN T = DOMAIN S
    /\ T[l] = Picked(S[l], test)
    /\ dup # NoList => T[dup] = S[dup] \o Picked(S[l], rest)
    /\ \A x \in DOMAIN S \ {l, dup} : T[x] = S[x]

\* list_unique keeps the elements test tells and moves the rest to dup.
LEMMA UniqueHolds ==
    ASSUME NEW m, NEW S, Holds(m, S), NEW l \in DOMAIN S, NEW d \in [Elems -> Int],
           NEW dup, dup # l, dup = NoList \/ dup \in DOMAIN S,
           NEW test, NEW rest, Telling(test, rest, S[l], d)
    PROVE  \E T : UniqueDone(list_unique(m, d, l, dup), T, S, l, dup, test, rest)
<1> DEFINE s == S[l]
           a == PickSteps(s, test)
           b == PickSteps(s, rest)
           c == Len(s)
           Done(k) == IF k + 1 <= c THEN k + 1 ELSE c
           x0 == [links |-> m, elem |-> list_begin(m, l)]
           n == LoopBound(m)
           I == [k \in 0 .. n |-> {q \in [links : ListMemory, elem : ListCells] :
                                      \E T : UniqueAt(q, T, S, l, d, dup, a, b, Done(k))}]
           Round(q, k) == UniqueElem(q, d, l, dup)
           g == [k \in 1 .. n |-> [q \in I[k - 1] |-> Round(q, k)]]
           after == CHOOSE h : h = [k \in 0 .. n |-> IF k = 0 THEN x0 ELSE Round(h[k - 1], k)]
<1>0. /\ \A k \in 1 .. Len(S[l]) : test[k] <=> k = 1 \/ d[S[l][k]] # d[S[l][k - 1]]
      /\ \A k \in 1 .. Len(S[l]) : rest[k] <=> ~test[k]
  BY DEF Telling
<1>1. /\ n \in Nat /\ c \in Nat /\ c < n /\ Apart(S) /\ m \in ListMemory /\ s \in Seq(Elems)
      /\ list_begin(m, l) = Cell(s, l, 1) /\ (list_empty(m, l) <=> c = 0)
  BY HoldsIs, CellIs, HoldsPlaces
<1>2. /\ Picked(s, test) = a[c] /\ a[0] = << >>
      /\ \A k \in 1 .. c : a[k] = IF test[k] THEN Append(a[k - 1], s[k]) ELSE a[k - 1]
      /\ \A k \in 0 .. c : a[k] \in Seq(Elems)
  <2>1. Picking(PickSteps(s, test), Elems, s, test)
    <3> HIDE DEF s
    <3> QED
      BY <1>1, PickStepsAre
  <2> QED
    BY <2>1 DEF Picking
<1>3. /\ Picked(s, rest) = b[c] /\ b[0] = << >>
      /\ \A k \in 1 .. c : b[k] = IF rest[k] THEN Append(b[k - 1], s[k]) ELSE b[k - 1]
      /\ \A k \in 0 .. c : b[k] \in Seq(Elems)
  <2>1. Picking(PickSteps(s, rest), Elems, s, rest)
    <3> HIDE DEF s
    <3> QED
      BY <1>1, PickStepsAre
  <2> QED
    BY <2>1 DEF Picking
<1>4. \A x \in DOMAIN S : S[x] \in Seq(Elems)
  BY <1>1, CellIs
<1> HIDE DEF a, b
<1>5. CASE c = 0
  <2>1. list_unique(m, d, l, dup) = m
    BY <1>1, <1>5 DEF list_unique
  <2>2. S[l] = Picked(s, test) /\ (dup # NoList => S[dup] = S[dup] \o Picked(s, rest))
    <3>1. s = << >> /\ a[c] = << >> /\ b[c] = << >>
      BY <1>1, <1>2, <1>3, <1>5
    <3>2. dup # NoList => S[dup] \o << >> = S[dup]
      BY <1>4
    <3> HIDE DEF c
    <3> QED
      BY <1>2, <1>3, <3>1, <3>2
  <2>3. UniqueDone(m, S, S, l, dup, test, rest)
    BY <2>2 DEF UniqueDone
  <2> QED
    BY <2>1, <2>3
<1>6. CASE c # 0
  <2>1. list_unique(m, d, l, dup) = after[n].links
    BY <1>1, <1>6, Zenon DEF list_unique, Loop
  <2> HIDE DEF n, s, c
  <2>2. a[1] = <<s[1]>> /\ b[1] = << >> /\ 1 \in 1 .. c /\ s[1] \in Elems /\ Cell(s, l, 1) = s[1] /\ s[1] \in ListCells
    <3>1. 1 \in 1 .. c /\ 1 - 1 = 0
      BY <1>1, <1>6
    <3>2. test[1] /\ ~rest[1] /\ s[1] \in Elems /\ Cell(s, l, 1) = s[1]
      BY <1>0, <1>1, <3>1, CellIs DEF s, c
    <3>3. a[1] = Append(<< >>, s[1])
      <4>1. a[1] = IF test[1] THEN Append(a[1 - 1], s[1]) ELSE a[1 - 1]
        BY <1>2, <3>1
      <4> QED
        BY <1>2, <3>1, <3>2, <4>1
    <3>4. b[1] = << >>
      BY <1>3, <3>1, <3>2
    <3> QED
      BY <3>1, <3>2, <3>3, <3>4, IsListCell
  <2>3. x0 \in I[0]
    <3>1. Done(0) = 1 /\ 0 \in 0 .. n
      BY <1>1, <1>6
    <3>2. x0 \in [links : ListMemory, elem : ListCells]
      BY <1>1, <2>2
    <3>3. Len(a[1]) = 1 /\ a[1][1] = s[1]
      BY <2>2
    <3>4. Then(s, a[1], s, 1)
      <4>1. Len(s) = 1 + (Len(s) - 1) /\ \A i \in 1 .. 1 : i = 1
        BY <1>1, <1>6 DEF c
      <4> QED
        BY <3>3, <4>1 DEF Then
    <3>5. dup # NoList => Then(S[dup], S[dup], b[1], 0)
      <4>1. ASSUME dup # NoList PROVE Len(S[dup]) \in Nat
        BY <1>4, <4>1
      <4> QED
        BY <2>2, <4>1 DEF Then
    <3>6. Weeded(S, S, l, dup, a, b, 1)
      BY <3>4, <3>5 DEF Weeded, s
    <3>7. UniqueAt(x0, S, S, l, d, dup, a, b, 1)
      <4>1. x0.links = m /\ x0.elem = s[1]
        BY <1>1, <2>2
      <4> HIDE DEF x0
      <4> QED
        BY <3>2, <3>3, <3>6, <4>1 DEF UniqueAt, s
    <3> HIDE DEF x0, Done
    <3> QED
      BY <3>1, <3>2, <3>7
  <2>4. ASSUME NEW k \in 1 .. n, NEW q \in I[k - 1] PROVE Round(q, k) \in I[k]
    <3>1. k - 1 \in 0 .. n /\ k \in 0 .. n
      BY <1>1
    <3> DEFINE y == Done(k - 1)
               z == Done(k)
    <3>2. y \in 1 .. c /\ (y = c => z = y) /\ (y # c => z = y + 1 /\ y \in 0 .. c - 1 /\ z \in 1 .. c /\ z # 1 /\ z - 1 = y)
          /\ y \in 0 .. c
      BY <1>1, <1>6
    <3>3. PICK T : UniqueAt(q, T, S, l, d, dup, a, b, y)
      BY <3>1
    <3> HIDE DEF y, z, Done
    <3>4. CASE y = c
      <4>1. UniqueElem(q, d, l, dup) = q
        BY <1>1, <1>2, <3>2, <3>3, <3>4, UniqueStops DEF c, s
      <4>2. q \in [links : ListMemory, elem : ListCells] /\ z = y
        BY <3>2, <3>3, <3>4 DEF UniqueAt
      <4> QED
        BY <3>1, <3>3, <4>1, <4>2 DEF z
    <3>5. CASE y # c
      <4> DEFINE r == UniqueElem(q, d, l, dup)
      <4>1. /\ y \in 0 .. Len(S[l]) - 1 /\ z = y + 1 /\ a[y] \in Seq(Elems) /\ b[y] \in Seq(Elems)
        BY <1>2, <1>3, <3>2, <3>5 DEF c, s
      <4>2. test[z] <=> d[S[l][z]] # d[S[l][y]]
        BY <1>0, <3>2, <3>5 DEF c, s
      <4>3. rest[z] <=> ~test[z]
        BY <1>0, <3>2, <3>5 DEF c, s
      <4>4. a[z] = (IF test[z] THEN Append(a[y], s[z]) ELSE a[y]) /\ b[z] = IF rest[z] THEN Append(b[y], s[z]) ELSE b[y]
        BY <1>2, <1>3, <3>2, <3>5
      <4>5. /\ d[S[l][z]] # d[S[l][y]] => a[z] = Append(a[y], S[l][z]) /\ b[z] = b[y]
            /\ d[S[l][z]] = d[S[l][y]] => a[z] = a[y] /\ b[z] = Append(b[y], S[l][z])
        BY <4>2, <4>3, <4>4 DEF s
      <4>6. \E U : UniqueAt(r, U, S, l, d, dup, a, b, z)
        BY <1>1, <3>3, <4>1, <4>5, UniqueRound
      <4> HIDE DEF r
      <4>7. r \in [links : ListMemory, elem : ListCells]
        BY <4>6 DEF UniqueAt
      <4>8. r \in {v \in [links : ListMemory, elem : ListCells] :
                      \E U : UniqueAt(v, U, S, l, d, dup, a, b, z)}
        BY <4>6, <4>7
      <4> QED
        BY <3>1, <4>8 DEF z, r
    <3> QED
      BY <3>4, <3>5
  <2>5. \A k \in 1 .. n : k - 1 \in 0 .. n /\ \A c0 \in I[k - 1] : g[k][c0] = Round(c0, k) /\ g[k][c0] \in I[k]
    <3>1. \A k \in 1 .. n : k - 1 \in 0 .. n
      BY <1>1
    <3> HIDE DEF Round, n, I
    <3>2. \A k \in 1 .. n : \A c0 \in I[k - 1] : g[k][c0] = Round(c0, k)
      OBVIOUS
    <3> HIDE DEF g
    <3> QED
      BY <3>1, <3>2, <2>4
  <2> HIDE DEF x0, g, I, Round, n
  <2>6. \E f : f = [k \in 0 .. n |-> IF k = 0 THEN x0 ELSE Round(f[k - 1], k)]
    <3>1. PICK f : Turns(f, n, x0, g, I)
      BY <1>1, <2>3, <2>5, LoopRuns
    <3>2. /\ f = [k \in 0 .. n |-> IF k = 0 THEN x0 ELSE g[k][f[k - 1]]]
          /\ \A k \in 0 .. n : f[k] \in I[k]
      BY <3>1 DEF Turns
    <3>3. \A k \in 1 .. n : g[k][f[k - 1]] = Round(f[k - 1], k)
      BY <2>5, <3>2
    <3>4. \A k \in 0 .. n : k = 0 \/ k \in 1 .. n
      BY <1>1
    <3>5. \A k \in 0 .. n : (IF k = 0 THEN x0 ELSE g[k][f[k - 1]]) = IF k = 0 THEN x0 ELSE Round(f[k - 1], k)
      BY <3>3, <3>4
    <3>6. f = [k \in 0 .. n |-> IF k = 0 THEN x0 ELSE Round(f[k - 1], k)]
      BY <3>2, <3>5
    <3> QED
      BY <3>6
  <2>7. after = [k \in 0 .. n |-> IF k = 0 THEN x0 ELSE Round(after[k - 1], k)]
    BY <2>6
  <2> HIDE DEF after
  <2>8. \A k \in 0 .. n : after[k] \in I[k]
    <3>1. after[0] \in I[0]
      BY <1>1, <2>3, <2>7
    <3>2. \A k \in 1 .. n : after[k - 1] \in I[k - 1] => after[k] \in I[k]
      <4> SUFFICES ASSUME NEW k \in 1 .. n, after[k - 1] \in I[k - 1] PROVE after[k] \in I[k]
        OBVIOUS
      <4>1. k \in 0 .. n /\ k # 0
        BY <1>1
      <4>2. after[k] = Round(after[k - 1], k)
        BY <2>7, <4>1
      <4> QED
        BY <2>5, <4>2
    <3> QED
      BY <1>1, <3>1, <3>2, LoopStays
  <2>9. after[n] \in I[n] /\ n \in 0 .. n
    BY <1>1, <2>8
  <2>10. Done(n) = c
    BY <1>1
  <2> HIDE DEF Done
  <2>11. PICK T : UniqueAt(after[n], T, S, l, d, dup, a, b, c)
    BY <2>9, <2>10 DEF I
  <2>12. /\ Holds(after[n].links, T) /\ DOMAIN T = DOMAIN S /\ Then(T[l], a[c], s, c)
         /\ dup # NoList => Then(T[dup], S[dup], b[c], 0)
         /\ \A x \in DOMAIN S \ {l, dup} : T[x] = S[x]
    BY <2>11 DEF UniqueAt, Weeded, s
  <2>13. \A x \in DOMAIN S : T[x] \in Seq(Elems)
    BY <2>12, HoldsIs, CellIs
  <2>14. a[c] \in Seq(Elems) /\ b[c] \in Seq(Elems)
    BY <1>1, <1>2, <1>3
  <2>15. T[l] = a[c]
    BY <1>1, <2>12, <2>13, <2>14, ThenAll DEF c
  <2>16. dup # NoList => T[dup] = S[dup] \o b[c]
    <3> SUFFICES ASSUME dup # NoList PROVE T[dup] = S[dup] \o b[c]
      OBVIOUS
    <3> DEFINE t == T[dup]
               u == S[dup]
               v == b[c]
    <3>1. dup \in DOMAIN S
      OBVIOUS
    <3>2. t \in Seq(Elems) /\ u \in Seq(Elems) /\ v \in Seq(Elems) /\ Then(t, u, v, 0)
      BY <1>4, <2>12, <2>13, <2>14, <3>1
    <3> HIDE DEF t, u, v
    <3>3. t = u \o v
      BY <3>2, ThenAll
    <3> QED
      BY <3>3 DEF t, u, v
  <2> DEFINE r == list_unique(m, d, l, dup)
  <2>17. Holds(r, T)
    BY <2>1, <2>12
  <2>18. T[l] = Picked(S[l], test) /\ (dup # NoList => T[dup] = S[dup] \o Picked(S[l], rest))
    BY <1>2, <1>3, <2>15, <2>16 DEF s
  <2> HIDE DEF r
  <2>19. DOMAIN T = DOMAIN S /\ \A x \in DOMAIN S \ {l, dup} : T[x] = S[x]
    BY <2>12
  <2>20. UniqueDone(r, T, S, l, dup, test, rest)
    BY <2>17, <2>18, <2>19 DEF UniqueDone
  <2> QED
    BY <2>20 DEF r
<1> QED
  BY <1>5, <1>6

\* Picked has the elements that test tells.
LEMMA PickedSet ==
    ASSUME NEW E, NEW s \in Seq(E), NEW test
    PROVE  \A e : e \in ToSet(Picked(s, test)) <=> \E k \in 1 .. Len(s) : test[k] /\ s[k] = e
<1> DEFINE n == Len(s)
           Has(r, k) == \A e : e \in ToSet(r) <=> \E i \in 1 .. k : test[i] /\ s[i] = e
           I == [k \in 0 .. n |-> {r \in Seq(E) : Has(r, k)}]
<1>1. PICK a : /\ Picked(s, test) = a[n] /\ a[0] = << >>
               /\ \A k \in 1 .. n : a[k] = IF test[k] THEN Append(a[k - 1], s[k]) ELSE a[k - 1]
               /\ \A k \in 0 .. n : a[k] \in Seq(E)
  BY PickStepsAre DEF Picking
<1>2. n \in Nat /\ \A k \in 1 .. n : s[k] \in E /\ k - 1 \in 0 .. n /\ k \in 0 .. n
  BY ElementOfSeq
<1> HIDE DEF n
<1>3. a[0] \in I[0]
  <2>1. Has(a[0], 0)
    BY <1>1 DEF ToSet
  <2> HIDE DEF Has
  <2> QED
    BY <1>1, <1>2, <2>1
<1>4. ASSUME NEW k \in 1 .. n, a[k - 1] \in I[k - 1] PROVE a[k] \in I[k]
  <2> DEFINE j == k - 1
             r == a[j]
  <2>1. r \in Seq(E) /\ Has(r, j) /\ j \in Nat /\ s[k] \in E /\ k \in 0 .. n /\ a[k] \in Seq(E)
        /\ a[k] = (IF test[k] THEN Append(r, s[k]) ELSE r)
    BY <1>1, <1>2, <1>4
  <2>2. \A i \in 1 .. k : i = k \/ i \in 1 .. j
    BY <1>2
  <2>3. k \in 1 .. k /\ \A i \in 1 .. j : i \in 1 .. k
    BY <1>2
  <2> HIDE DEF j, r
  <2>4. CASE test[k]
    <3>1. ToSet(Append(r, s[k])) = ToSet(r) \cup {s[k]}
      <4>1. /\ Len(Append(r, s[k])) = Len(r) + 1 /\ Len(r) \in Nat
            /\ Append(r, s[k]) \in Seq(E)
            /\ \A i \in 1 .. Len(r) + 1 : Append(r, s[k])[i] = IF i = Len(r) + 1 THEN s[k] ELSE r[i]
        BY <2>1
      <4>2. \A e : e \in ToSet(r) <=> \E i \in 1 .. Len(r) : r[i] = e
        BY <2>1, SetIs
      <4>3. \A e : e \in ToSet(Append(r, s[k])) <=> \E i \in 1 .. Len(r) + 1 : Append(r, s[k])[i] = e
        BY <4>1, SetIs
      <4>4. /\ Len(r) + 1 \in 1 .. Len(r) + 1
            /\ \A i \in 1 .. Len(r) + 1 : i = Len(r) + 1 \/ i \in 1 .. Len(r)
            /\ \A i \in 1 .. Len(r) : i \in 1 .. Len(r) + 1 /\ i # Len(r) + 1
        BY <4>1
      <4>5. \A e : e \in ToSet(Append(r, s[k])) <=> e \in ToSet(r) \/ e = s[k]
        <5> SUFFICES ASSUME NEW e
                     PROVE  (\E i \in 1 .. Len(r) + 1 : Append(r, s[k])[i] = e)
                               <=> (\E i \in 1 .. Len(r) : r[i] = e) \/ e = s[k]
          BY <4>2, <4>3
        <5> QED
          BY <4>1, <4>4
      <4> QED
        BY <4>5
    <3>2. \A e : e \in ToSet(a[k]) <=> e \in ToSet(r) \/ e = s[k]
      BY <2>1, <2>4, <3>1
    <3>3. ASSUME NEW e
          PROVE  e \in ToSet(a[k]) <=> \E i \in 1 .. k : test[i] /\ s[i] = e
      <4>1. e \in ToSet(r) <=> \E i \in 1 .. j : test[i] /\ s[i] = e
        BY <2>1
      <4> QED
        BY <2>2, <2>3, <2>4, <3>2, <4>1
    <3>4. Has(a[k], k)
      BY <3>3
    <3> HIDE DEF Has
    <3> QED
      BY <2>1, <3>4
  <2>5. CASE ~test[k]
    <3>3. ASSUME NEW e
          PROVE  e \in ToSet(a[k]) <=> \E i \in 1 .. k : test[i] /\ s[i] = e
      <4>1. e \in ToSet(r) <=> \E i \in 1 .. j : test[i] /\ s[i] = e
        BY <2>1
      <4> QED
        BY <2>1, <2>2, <2>3, <2>5, <4>1
    <3>4. Has(a[k], k)
      BY <3>3
    <3> HIDE DEF Has
    <3> QED
      BY <2>1, <3>4
  <2> QED
    BY <2>4, <2>5
<1> HIDE DEF I, Has
<1>5. \A k \in 0 .. n : a[k] \in I[k]
  BY <1>2, <1>3, <1>4, LoopStays
<1>6. a[n] \in I[n] /\ n \in 0 .. n
  BY <1>2, <1>5
<1>7. Has(a[n], n)
  BY <1>6 DEF I
<1> QED
  BY <1>1, <1>7 DEF Has, n

\* The elements of s that test tells.
Told(s, test) == {s[k] : k \in {n \in 1 .. Len(s) : test[n]}}

\* What the lists T have of the elements of the lists S.
LeftOf(T, S, l, dup, rest) ==
    Inside(T) = IF dup = NoList THEN Inside(S) \ Told(S[l], rest) ELSE Inside(S)

\* Of a list without its duplicates and the lists with them: what is in the
\* lists is what was in them, or, with no list for the duplicates, all but them.
LEMMA WeededSet ==
    ASSUME NEW m, NEW S, Apart(S), NEW l \in DOMAIN S, NEW d, NEW T,
           NEW dup, dup # l, dup = NoList \/ dup \in DOMAIN S,
           NEW test, NEW rest, Telling(test, rest, S[l], d),
           UniqueDone(m, T, S, l, dup, test, rest)
    PROVE  LeftOf(T, S, l, dup, rest)
<1> DEFINE s == S[l]
           u == Picked(s, test)
           v == Picked(s, rest)
           gone == {s[k] : k \in {n \in 1 .. Len(s) : rest[n]}}
<1>1. /\ Holds(m, T) /\ DOMAIN T = DOMAIN S /\ T[l] = u
      /\ dup # NoList => T[dup] = S[dup] \o v
      /\ \A x \in DOMAIN S \ {l, dup} : T[x] = S[x]
      /\ \A k \in 1 .. Len(s) : rest[k] <=> ~test[k]
  BY DEF UniqueDone, Telling
<1>2. s \in Seq(Elems) /\ NoList \notin DOMAIN S /\ DOMAIN S \subseteq Lists
  BY CellIs, ListConstants DEF Apart
<1>3. u \in Seq(Elems) /\ v \in Seq(Elems)
  <2> HIDE DEF s
  <2>1. Len(s) \in 0 .. Len(s)
    BY <1>2
  <2>2. Picking(PickSteps(s, test), Elems, s, test) /\ Picking(PickSteps(s, rest), Elems, s, rest)
    BY <1>2, PickStepsAre
  <2> QED
    BY <2>1, <2>2 DEF Picking
<1>4. \A e : /\ e \in ToSet(u) <=> \E k \in 1 .. Len(s) : test[k] /\ s[k] = e
             /\ e \in ToSet(v) <=> \E k \in 1 .. Len(s) : rest[k] /\ s[k] = e
             /\ e \in ToSet(s) <=> \E k \in 1 .. Len(s) : s[k] = e
  <2> HIDE DEF s
  <2>1. \A e : e \in ToSet(u) <=> \E k \in 1 .. Len(s) : test[k] /\ s[k] = e
    BY <1>2, PickedSet
  <2>2. \A e : e \in ToSet(v) <=> \E k \in 1 .. Len(s) : rest[k] /\ s[k] = e
    BY <1>2, PickedSet
  <2>3. \A e : e \in ToSet(s) <=> \E k \in 1 .. Len(s) : s[k] = e
    BY <1>2, SetIs
  <2> QED
    BY <2>1, <2>2, <2>3
<1>5. \A k, n \in 1 .. Len(s) : s[k] = s[n] => k = n
  BY DEF Apart
<1>6. \A x \in DOMAIN S : x # l => \A e \in ToSet(S[x]) : e \notin ToSet(s)
  <2> SUFFICES ASSUME NEW x \in DOMAIN S, x # l, NEW e \in ToSet(S[x]), e \in ToSet(s) PROVE FALSE
    OBVIOUS
  <2>1. S[x] \in Seq(Elems)
    BY CellIs
  <2>2. PICK k \in 1 .. Len(S[x]) : S[x][k] = e
    BY <2>1, SetIs
  <2>3. PICK i \in 1 .. Len(s) : s[i] = e
    BY <1>4
  <2> QED
    BY <2>2, <2>3 DEF Apart
<1> HIDE DEF s, u, v
<1>7. ToSet(s) = ToSet(u) \cup ToSet(v) /\ gone = ToSet(v) /\ ToSet(u) \cap ToSet(v) = {}
  <2>1. \A e : e \in ToSet(s) <=> e \in ToSet(u) \/ e \in ToSet(v)
    BY <1>1, <1>4
  <2>2. \A e : e \in gone <=> \E k \in 1 .. Len(s) : rest[k] /\ s[k] = e
    OBVIOUS
  <2>3. \A e : ~(e \in ToSet(u) /\ e \in ToSet(v))
    BY <1>1, <1>4, <1>5
  <2> HIDE DEF gone
  <2>4. \A e : e \in gone <=> e \in ToSet(v)
    BY <1>4, <2>2
  <2> QED
    BY <2>1, <2>3, <2>4
<1> HIDE DEF gone
<1>8. Inside(S) = ToSet(s) \cup Others(S, l)
  BY OthersStay DEF s
<1>9. CASE dup = NoList
  <2>1. \A x \in DOMAIN S : x # l => T[x] = S[x]
    BY <1>1, <1>2, <1>9
  <2>2. Inside(T) = ToSet(T[l]) \cup Others(S, l)
    BY <1>1, <2>1, OthersStay
  <2>3. Others(S, l) \cap ToSet(v) = {}
    BY <1>6, <1>7 DEF Others
  <2>4. Inside(T) = Inside(S) \ gone
    BY <1>1, <1>7, <1>8, <2>2, <2>3
  <2> QED
    BY <1>9, <2>4 DEF gone, s, Told, LeftOf
<1>10. CASE dup # NoList
  <2> DEFINE T1 == [S EXCEPT ![dup] = T[dup]]
  <2>1. dup \in DOMAIN S /\ T[dup] = S[dup] \o v /\ S[dup] \in Seq(Elems)
    BY <1>1, <1>10, CellIs
  <2>2. DOMAIN T1 = DOMAIN S /\ T1[dup] = T[dup] /\ \A x \in DOMAIN S : x # dup => T1[x] = S[x]
    BY <2>1
  <2>3. \A x \in DOMAIN S : x # l => T[x] = T1[x]
    BY <1>1, <2>2
  <2> HIDE DEF T1
  <2>4. ToSet(T[dup]) = ToSet(S[dup]) \cup ToSet(v)
    <3> DEFINE t == S[dup]
               w == t \o v
               n == Len(t)
               q == Len(v)
    <3>1. t \in Seq(Elems) /\ n \in Nat /\ q \in Nat
      BY <1>3, <2>1
    <3> HIDE DEF t
    <3>2. /\ w \in Seq(Elems) /\ Len(w) = n + q
          /\ \A k \in 1 .. n + q : w[k] = IF k <= n THEN t[k] ELSE v[k - n]
      BY <1>3, <3>1, ConcatProperties
    <3> HIDE DEF w
    <3>3. /\ \A e : e \in ToSet(w) <=> \E k \in 1 .. n + q : w[k] = e
          /\ \A e : e \in ToSet(t) <=> \E k \in 1 .. n : t[k] = e
          /\ \A e : e \in ToSet(v) <=> \E k \in 1 .. q : v[k] = e
      BY <1>3, <3>1, <3>2, SetIs
    <3> HIDE DEF n, q
    <3>4. ASSUME NEW e \in ToSet(w) PROVE e \in ToSet(t) \cup ToSet(v)
      <4>1. PICK k \in 1 .. n + q : w[k] = e
        BY <3>3
      <4>2. CASE k <= n
        BY <3>1, <3>2, <3>3, <4>1, <4>2
      <4>3. CASE k > n
        <5>1. k - n \in 1 .. q /\ ~(k <= n)
          BY <3>1, <4>3
        <5> QED
          BY <3>2, <3>3, <4>1, <5>1
      <4> QED
        BY <3>1, <4>2, <4>3
    <3>5. ASSUME NEW e \in ToSet(t) PROVE e \in ToSet(w)
      <4>1. PICK k \in 1 .. n : t[k] = e
        BY <3>3
      <4>2. k \in 1 .. n + q /\ k <= n
        BY <3>1
      <4> QED
        BY <3>2, <3>3, <4>1, <4>2
    <3>6. ASSUME NEW e \in ToSet(v) PROVE e \in ToSet(w)
      <4>1. PICK k \in 1 .. q : v[k] = e
        BY <3>3
      <4>2. n + k \in 1 .. n + q /\ ~(n + k <= n) /\ (n + k) - n = k
        BY <3>1
      <4>3. w[n + k] = e
        BY <3>2, <4>1, <4>2
      <4> QED
        BY <3>3, <4>2, <4>3
    <3>7. ToSet(w) = ToSet(t) \cup ToSet(v)
      BY <3>4, <3>5, <3>6
    <3> QED
      BY <2>1, <3>7 DEF w, t
  <2>5. Inside(S) = ToSet(S[dup]) \cup Others(S, dup) /\ Inside(T1) = ToSet(T1[dup]) \cup Others(S, dup)
    BY <2>1, <2>2, OthersStay
  <2>6. Inside(T1) = ToSet(T1[l]) \cup Others(T1, l) /\ Inside(T) = ToSet(T[l]) \cup Others(T1, l)
    BY <1>1, <2>2, <2>3, OthersStay
  <2>7. Inside(T1) = Inside(S) \cup ToSet(v) /\ T1[l] = s
    BY <2>2, <2>4, <2>5 DEF s
  <2>8. ToSet(v) \subseteq Others(T1, l)
    <3>1. ToSet(T1[dup]) \subseteq Others(T1, l)
      BY <2>1, <2>2 DEF Others
    <3> QED
      BY <2>2, <2>4, <3>1
  <2>9. Inside(T) = Inside(S)
    BY <1>1, <1>7, <1>8, <2>6, <2>7, <2>8
  <2> QED
    BY <1>10, <2>9 DEF LeftOf
<1> QED
  BY <1>9, <1>10

\* ListUnique keeps the invariant.
LEMMA UniqueInv ==
    ASSUME ListInv, NEW l \in Lists, NEW dup \in Lists \cup {NoList}, ListUnique(l, dup)
    PROVE  ListInv'
<1> DEFINE test == [k \in 1 .. Len(Seqs[l]) |-> k = 1 \/ value[Seqs[l][k]] # value[Seqs[l][k - 1]]]
           rest == [k \in 1 .. Len(Seqs[l]) |-> ~test[k]]
<1>1. /\ l \in Used /\ Holds(links, Seqs) /\ DOMAIN Seqs = Used /\ value \in [Elems -> Data]
      /\ Relink(list_unique(links, value, l, dup), IF dup = NoList THEN Duplicates(l) ELSE {})
      /\ dup # l /\ (dup = NoList \/ dup \in Used)
      /\ Apart(Seqs) /\ live = Inside(Seqs) /\ Walk(links, l) = Seqs[l]
  BY InvIs DEF ListUnique, Used
<1>2. value \in [Elems -> Int]
  BY <1>1, ListConstants
<1>3. /\ \A k \in 1 .. Len(Seqs[l]) : test[k] <=> k = 1 \/ value[Seqs[l][k]] # value[Seqs[l][k - 1]]
      /\ \A k \in 1 .. Len(Seqs[l]) : rest[k] <=> ~test[k]
  OBVIOUS
<1> HIDE DEF test, rest
<1>4. \E T : /\ Holds(list_unique(links, value, l, dup), T) /\ DOMAIN T = DOMAIN Seqs
             /\ Inside(T) = IF dup = NoList THEN Inside(Seqs) \ Duplicates(l) ELSE Inside(Seqs)
  <2> DEFINE S == Seqs
             d == value
             m == links
  <2>1. /\ Holds(m, S) /\ l \in DOMAIN S /\ d \in [Elems -> Int] /\ dup # l /\ (dup = NoList \/ dup \in DOMAIN S)
        /\ Telling(test, rest, S[l], d) /\ Apart(S)
    BY <1>1, <1>2, <1>3 DEF Telling
  <2>4. Duplicates(l) = Told(S[l], rest)
    <3> DEFINE s == Seqs[l]
    <3>1. Len(s) \in Nat
      BY <1>1, CellIs
    <3>2. /\ \A n \in 2 .. Len(s) : n \in 1 .. Len(s) /\ n # 1
          /\ \A n \in 1 .. Len(s) : n # 1 => n \in 2 .. Len(s)
      BY <3>1
    <3>3. {n \in 2 .. Len(s) : value[s[n]] = value[s[n - 1]]} = {n \in 1 .. Len(s) : rest[n]}
      BY <1>3, <3>2
    <3>4. Duplicates(l) = {s[k] : k \in {n \in 2 .. Len(s) : value[s[n]] = value[s[n - 1]]}}
      BY <1>1 DEF Duplicates
    <3> QED
      BY <3>3, <3>4 DEF Told
  <2> HIDE DEF S, d, m
  <2>2. \E T : UniqueDone(list_unique(m, d, l, dup), T, S, l, dup, test, rest)
    BY <2>1, UniqueHolds
  <2>5. PICK T : UniqueDone(list_unique(m, d, l, dup), T, S, l, dup, test, rest)
    BY <2>2
  <2>6. Inside(T) = IF dup = NoList THEN Inside(S) \ Duplicates(l) ELSE Inside(S)
    <3>1. LeftOf(T, S, l, dup, rest)
      BY ONLY <2>1, <2>5, WeededSet
    <3> QED
      BY <2>4, <3>1 DEF LeftOf
  <2>3. \E U : /\ Holds(list_unique(m, d, l, dup), U) /\ DOMAIN U = DOMAIN S
               /\ Inside(U) = IF dup = NoList THEN Inside(S) \ Duplicates(l) ELSE Inside(S)
    BY <2>5, <2>6 DEF UniqueDone
  <2> QED
    BY <2>3 DEF S, d, m
<1>5. PICK T : /\ Holds(list_unique(links, value, l, dup), T) /\ DOMAIN T = Used
               /\ Inside(T) = IF dup = NoList THEN Inside(Seqs) \ Duplicates(l) ELSE Inside(Seqs)
  BY <1>1, <1>4
<1>6. live \ (IF dup = NoList THEN Duplicates(l) ELSE {}) = Inside(T)
  BY <1>1, <1>5
<1> QED
  BY <1>1, <1>5, <1>6, RelinkInv DEF Relink

-----------------------------------------------------------------------------
(* list_sort.                                                              *)

\* v is u with element y moved to before element x.
Lifted(v, u, x, y) ==
    /\ Len(v) = Len(u)
    /\ \A i \in 1 .. Len(u) : v[i] = IF i = x THEN u[y] ELSE IF x < i /\ i <= y THEN u[i - 1] ELSE u[i]

\* To cut element y out and paste it before element x is to lift it there.
LEMMA LiftIs ==
    ASSUME NEW E, NEW s \in Seq(E), NEW y \in 1 .. Len(s), NEW x \in 1 .. y - 1,
           NEW p, p = x - 1, NEW i, i = y - 1
    PROVE  Lifted(Paste(Cut(s, i, y), p, SubSeq(s, i + 1, y)), s, x, y)
<1> DEFINE n == Len(s)
           c == Cut(s, i, y)
           a == SubSeq(s, i + 1, y)
           v == Paste(c, p, a)
<1>1. n \in Nat /\ y \in 0 .. n /\ i \in 0 .. y /\ y - i = 1 /\ i + 1 = y /\ p + 1 = x /\ p \in 0 .. n - 1
      /\ i \in Nat /\ p \in Nat /\ y \in Nat /\ x \in Nat /\ x < y /\ y <= n
  OBVIOUS
<1>2. /\ c \in Seq(E) /\ Len(c) = n - (y - i)
      /\ \A k \in 1 .. i : c[k] = s[k]
      /\ \A k \in i + 1 .. n - (y - i) : c[k] = s[k + (y - i)]
  BY <1>1, CutIs
<1> HIDE DEF c
<1>3. Len(c) = n - 1 /\ \A k \in 1 .. n - 1 : c[k] = IF k < y THEN s[k] ELSE s[k + 1]
  <2>1. Len(c) = n - 1
    BY <1>1, <1>2
  <2>2. ASSUME NEW k \in 1 .. n - 1 PROVE c[k] = IF k < y THEN s[k] ELSE s[k + 1]
    <3>1. k < y => k \in 1 .. i
      BY <1>1
    <3>2. ~(k < y) => k \in i + 1 .. n - (y - i) /\ k + (y - i) = k + 1
      BY <1>1
    <3> QED
      BY <1>2, <3>1, <3>2
  <2> QED
    BY <2>1, <2>2
<1>4. a \in Seq(E) /\ Len(a) = 1 /\ a[1] = s[y]
  <2> DEFINE b == i + 1
  <2>1. b \in 1 .. Len(s) + 1 /\ y \in 0 .. Len(s) /\ b <= y + 1
    BY <1>1
  <2>2. y - b + 1 = 1 /\ 1 \in 1 .. y - b + 1 /\ 1 + b - 1 = y
    BY <1>1
  <2> HIDE DEF b
  <2>3. SubSeq(s, b, y) \in Seq(E) /\ Len(SubSeq(s, b, y)) = y - b + 1
        /\ \A k \in 1 .. y - b + 1 : SubSeq(s, b, y)[k] = s[k + b - 1]
    BY <2>1, PartIs
  <2>4. SubSeq(s, b, y)[1] = s[y]
    BY <2>2, <2>3
  <2> QED
    BY <2>2, <2>3, <2>4 DEF b
<1> HIDE DEF a
<1>5. /\ v \in Seq(E) /\ Len(v) = Len(c) + Len(a)
      /\ \A k \in 1 .. p : v[k] = c[k]
      /\ \A k \in 1 .. Len(a) : v[p + k] = a[k]
      /\ \A k \in p + 1 .. Len(c) : v[k + Len(a)] = c[k]
  <2>1. c \in Seq(E) /\ a \in Seq(E) /\ p \in 0 .. Len(c)
    BY <1>1, <1>2, <1>3, <1>4
  <2> QED
    BY <2>1, PasteIs
<1> HIDE DEF v
<1>6. Len(v) = n /\ v[x] = s[y] /\ \A k \in x .. n - 1 : v[k + 1] = c[k]
  <2>1. Len(v) = n
    BY <1>1, <1>3, <1>4, <1>5
  <2>2. 1 \in 1 .. Len(a) /\ p + 1 = x
    BY <1>1, <1>4
  <2>3. v[x] = s[y]
    BY <1>4, <1>5, <2>2
  <2>4. \A k \in x .. n - 1 : k \in p + 1 .. Len(c) /\ k + Len(a) = k + 1
    BY <1>1, <1>3, <1>4
  <2>5. \A k \in x .. n - 1 : v[k + 1] = c[k]
    BY <1>5, <2>4
  <2> QED
    BY <2>1, <2>3, <2>5
<1>7. ASSUME NEW k \in 1 .. n
      PROVE  v[k] = IF k = x THEN s[y] ELSE IF x < k /\ k <= y THEN s[k - 1] ELSE s[k]
  <2>1. CASE k = x
    BY <1>6, <2>1
  <2>2. CASE k < x
    <3>1. k \in 1 .. p /\ k \in 1 .. n - 1 /\ k < y /\ k # x /\ ~(x < k)
      BY <1>1, <2>2
    <3> QED
      BY <1>3, <1>5, <3>1
  <2>3. CASE x < k
    <3>1. k - 1 \in x .. n - 1 /\ (k - 1) + 1 = k /\ k - 1 \in 1 .. n - 1 /\ k # x /\ (k - 1 < y <=> k <= y)
      BY <1>1, <2>3
    <3> HIDE DEF n
    <3> QED
      BY <1>3, <1>6, <2>3, <3>1
  <2> QED
    BY <1>1, <2>1, <2>2, <2>3
<1> HIDE DEF n
<1> QED
  BY <1>6, <1>7 DEF Lifted, n, v, a, c

\* The lists of T are those of S, but for l.
ElseSame(T, S, l) == DOMAIN T = DOMAIN S /\ \A x \in DOMAIN S : x # l => T[x] = S[x]

\* What a splice of inplace_merge does.
LEMMA LiftHolds ==
    ASSUME NEW m, NEW S, Holds(m, S), NEW l \in DOMAIN S, NEW y \in 1 .. Len(S[l]), NEW x \in 1 .. y - 1
    PROVE  \E T : /\ Holds(list_splice(m, Cell(S[l], l, x), Cell(S[l], l, y), Cell(S[l], l, y + 1)), T)
                  /\ ElseSame(T, S, l) /\ Lifted(T[l], S[l], x, y)
<1> DEFINE p == x - 1
           i == y - 1
           s == S[l]
           T == Relocated(S, l, l, p, i, y)
           r == list_splice(m, Cell(S[l], l, x), Cell(S[l], l, y), Cell(S[l], l, y + 1))
<1>1. Len(s) \in Nat /\ s \in Seq(Elems) /\ Apart(S)
  BY HoldsIs, CellIs
<1>2. /\ p \in 0 .. Len(S[l]) /\ y \in 0 .. Len(S[l]) /\ i \in 0 .. y /\ p < i /\ p + 1 = x /\ i + 1 = y
      /\ ~(p >= y)
  <2> HIDE DEF s
  <2>1. Len(S[l]) \in Nat
    BY <1>1 DEF s
  <2> QED
    BY <2>1
<1>3. p = x - 1 /\ i = y - 1
  OBVIOUS
<1> HIDE DEF p, i
<1>4. /\ Holds(list_splice(m, Cell(S[l], l, p + 1), Cell(S[l], l, i + 1), Cell(S[l], l, y + 1)), T)
      /\ DOMAIN T = DOMAIN S
      /\ \A k \in DOMAIN S \ {l, l} : T[k] = S[k]
      /\ T[l] = Paste(CutOut(S, l, i, y)[l], IF l = l /\ p >= y THEN p - (y - i) ELSE p, SubSeq(S[l], i + 1, y))
  <2>1. RangeMoved(list_splice(m, Cell(S[l], l, p + 1), Cell(S[l], l, i + 1), Cell(S[l], l, y + 1)),
                   S, l, l, p, i, y)
    BY <1>2, SpliceIs
  <2> QED
    BY <2>1 DEF RangeMoved, T
<1>5. CutOut(S, l, i, y)[l] = Cut(s, i, y)
  BY DEF CutOut
<1>6. T[l] = Paste(Cut(s, i, y), p, SubSeq(s, i + 1, y))
  BY <1>2, <1>4, <1>5
<1>7. Lifted(T[l], s, x, y)
  <2>1. Lifted(Paste(Cut(s, i, y), p, SubSeq(s, i + 1, y)), s, x, y)
    <3> HIDE DEF s, T
    <3>1. y \in 1 .. Len(s)
      BY DEF s
    <3> QED
      BY <1>1, <1>3, <3>1, LiftIs
  <2> QED
    BY <1>6, <2>1
<1>8. Holds(r, T)
  BY <1>2, <1>4
<1> HIDE DEF T, r
<1>9. ElseSame(T, S, l)
  BY <1>4 DEF ElseSame
<1>10. \E U : Holds(r, U) /\ ElseSame(U, S, l) /\ Lifted(U[l], S[l], x, y)
  BY <1>7, <1>8, <1>9
<1> QED
  BY <1>10 DEF r

-----------------------------------------------------------------------------
\* v has the elements of u, the equals in the same order.
Arranges(w, N, v, u, d) ==
    /\ \A i \in N : v[i] = u[w[i]]
    /\ \A i, j \in N : i < j /\ d[v[i]] = d[v[j]] => w[i] < w[j]
    /\ \A i, j \in N : w[i] = w[j] => i = j
    /\ \A k \in N : \E i \in N : w[i] = k

\* There is a w that says where each element of v was in u.
Arranged(v, u, d) ==
    Len(v) = Len(u) /\ \E w \in [1 .. Len(u) -> 1 .. Len(u)] : Arranges(w, 1 .. Len(u), v, u, d)

\* A sequence is an arrangement of itself.
LEMMA ArrangedSame ==
    ASSUME NEW u
    PROVE  \A d : Arranged(u, u, d)
<1> DEFINE w == [i \in 1 .. Len(u) |-> i]
<1>1. w \in [1 .. Len(u) -> 1 .. Len(u)] /\ \A i \in 1 .. Len(u) : w[i] = i
  OBVIOUS
<1> HIDE DEF w
<1> QED
  BY <1>1 DEF Arranged, Arranges

\* And an arrangement of an arrangement is one.
LEMMA ArrangedOn ==
    ASSUME NEW d, NEW s, NEW u, NEW v, Arranged(u, s, d), Arranged(v, u, d)
    PROVE  Arranged(v, s, d)
<1> DEFINE N == 1 .. Len(s)
<1>1. Len(u) = Len(s) /\ Len(v) = Len(s)
  BY DEF Arranged
<1>2. PICK a \in [N -> N] : Arranges(a, N, u, s, d)
  BY DEF Arranged
<1>3. PICK b \in [N -> N] : Arranges(b, N, v, u, d)
  BY <1>1 DEF Arranged
<1> DEFINE w == [i \in N |-> a[b[i]]]
<1> HIDE DEF N
<1>4. w \in [N -> N] /\ \A i \in N : w[i] = a[b[i]] /\ b[i] \in N
  BY <1>2, <1>3
<1> HIDE DEF w
<1>5. ASSUME NEW i \in N PROVE v[i] = s[w[i]]
  <2>1. v[i] = u[b[i]] /\ b[i] \in N /\ w[i] = a[b[i]]
    BY <1>3, <1>4 DEF Arranges
  <2>2. u[b[i]] = s[a[b[i]]]
    BY <1>2, <2>1 DEF Arranges
  <2> QED
    BY <2>1, <2>2
<1>6. ASSUME NEW i \in N, NEW j \in N, i < j, d[v[i]] = d[v[j]] PROVE w[i] < w[j]
  <2>1. b[i] < b[j] /\ b[i] \in N /\ b[j] \in N /\ v[i] = u[b[i]] /\ v[j] = u[b[j]]
    BY <1>3, <1>4, <1>6 DEF Arranges
  <2>2. d[u[b[i]]] = d[u[b[j]]]
    BY <1>6, <2>1
  <2>3. a[b[i]] < a[b[j]]
    BY <1>2, <2>1, <2>2 DEF Arranges
  <2> QED
    BY <1>4, <2>3
<1>7. ASSUME NEW i \in N, NEW j \in N, w[i] = w[j] PROVE i = j
  <2>1. b[i] \in N /\ b[j] \in N /\ a[b[i]] = a[b[j]]
    BY <1>4, <1>7
  <2>2. b[i] = b[j]
    BY <1>2, <2>1 DEF Arranges
  <2> QED
    BY <1>3, <2>2 DEF Arranges
<1>8. ASSUME NEW k \in N PROVE \E i \in N : w[i] = k
  <2>1. PICK j \in N : a[j] = k
    BY <1>2 DEF Arranges
  <2>2. PICK i \in N : b[i] = j
    BY <1>3 DEF Arranges
  <2> QED
    BY <1>4, <2>1, <2>2
<1>9. Arranges(w, N, v, s, d)
  BY <1>5, <1>6, <1>7, <1>8 DEF Arranges
<1> QED
  BY <1>1, <1>4, <1>9 DEF Arranged, N

\* An element moved to before ones that are all greater.
LEMMA ArrangedLift ==
    ASSUME NEW u, Len(u) \in Nat, NEW v, NEW y \in 1 .. Len(u), NEW x \in 1 .. y - 1, Lifted(v, u, x, y),
           NEW d, \A k \in x .. y - 1 : d[u[k]] # d[u[y]]
    PROVE  Arranged(v, u, d)
<1> DEFINE n == Len(u)
           w == [i \in 1 .. n |-> IF i = x THEN y ELSE IF x < i /\ i <= y THEN i - 1 ELSE i]
<1>1. n \in Nat /\ x \in Nat /\ y \in Nat /\ 1 <= x /\ x < y /\ y <= n
  OBVIOUS
<1>2. /\ Len(v) = n
      /\ \A i \in 1 .. n : v[i] = IF i = x THEN u[y] ELSE IF x < i /\ i <= y THEN u[i - 1] ELSE u[i]
  BY DEF Lifted
<1> HIDE DEF n
<1>3. w \in [1 .. n -> 1 .. n]
  BY <1>1
<1>4. \A i \in 1 .. n : w[i] = IF i = x THEN y ELSE IF x < i /\ i <= y THEN i - 1 ELSE i
  OBVIOUS
<1> HIDE DEF w
<1>5. \A i \in 1 .. n : v[i] = u[w[i]]
  BY <1>2, <1>4
<1>6. \A i, j \in 1 .. n : w[i] = w[j] => i = j
  BY <1>1, <1>4
<1>7. ASSUME NEW k \in 1 .. n PROVE \E i \in 1 .. n : w[i] = k
  <2> DEFINE i == IF k = y THEN x ELSE IF x <= k /\ k < y THEN k + 1 ELSE k
  <2>1. i \in 1 .. n /\ (i = x <=> k = y) /\ (i # x => (x < i /\ i <= y <=> x <= k /\ k < y))
    BY <1>1
  <2>2. w[i] = k
    BY <1>1, <1>4, <2>1
  <2> QED
    BY <2>1, <2>2
<1>8. ASSUME NEW i \in 1 .. n, NEW j \in 1 .. n, i < j, d[v[i]] = d[v[j]] PROVE w[i] < w[j]
  <2>1. CASE i # x
    BY <1>1, <1>4, <1>8, <2>1
  <2>2. CASE i = x /\ j <= y
    <3>1. v[i] = u[y] /\ v[j] = u[j - 1] /\ j - 1 \in x .. y - 1
      BY <1>1, <1>2, <1>8, <2>2
    <3> QED
      BY <1>8, <3>1
  <2>3. CASE i = x /\ ~(j <= y)
    BY <1>1, <1>4, <1>8, <2>3
  <2> QED
    BY <2>1, <2>2, <2>3
<1>9. Arranges(w, 1 .. n, v, u, d)
  BY <1>5, <1>6, <1>7, <1>8 DEF Arranges
<1> QED
  BY <1>2, <1>3, <1>9 DEF Arranged, n

\* The data of u do not fall from place i to place j.
Rising(u, d, i, j) == \A p, q \in i .. j : p < q => d[u[p]] <= d[u[q]]

\* The run of s that starts at x ends before y.
RunEnds(s, d, x, y) ==
    /\ y \in x + 1 .. Len(s) + 1 /\ Rising(s, d, x, y - 1)
    /\ y # Len(s) + 1 => d[s[y]] < d[s[y - 1]]

\* The loop of find_end_of_run is at c after k rounds.
RunAt(c, s, l, d, x, k) ==
    \E y \in x + 1 .. Len(s) + 1 :
        /\ c = Cell(s, l, y) /\ Rising(s, d, x, y - 1)
        /\ y = x + 1 + k \/ y = Len(s) + 1 \/ d[s[y]] < d[s[y - 1]]

\* A run goes on with an element that is not less than its last.
LEMMA RisingOn ==
    ASSUME NEW s \in Seq(Elems), NEW d \in [Elems -> Int], NEW y \in 2 .. Len(s), NEW x \in 1 .. y - 1,
           Rising(s, d, x, y - 1), d[s[y - 1]] <= d[s[y]]
    PROVE  Rising(s, d, x, y)
<1> DEFINE v == [i \in 1 .. Len(s) |-> d[s[i]]]
<1>1. Len(s) \in Nat /\ \A i \in 1 .. Len(s) : v[i] = d[s[i]] /\ v[i] \in Int
  BY ElementOfSeq
<1> HIDE DEF v
<1>2. \A i \in x .. y : i \in 1 .. Len(s)
  BY <1>1
<1>3. y - 1 \in x .. y - 1 /\ y \in x .. y /\ y - 1 \in x .. y
  OBVIOUS
<1>4. v[y - 1] <= v[y]
  BY <1>1, <1>2, <1>3
<1>5. \A p \in x .. y - 1 : p # y - 1 => v[p] <= v[y - 1]
  <2> SUFFICES ASSUME NEW p \in x .. y - 1, p # y - 1 PROVE v[p] <= v[y - 1]
    OBVIOUS
  <2>1. p < y - 1 /\ p \in 1 .. Len(s) /\ y - 1 \in 1 .. Len(s)
    BY <1>2
  <2> QED
    BY <1>1, <1>3, <2>1 DEF Rising
<1> SUFFICES ASSUME NEW p \in x .. y, NEW q \in x .. y, p < q PROVE d[s[p]] <= d[s[q]]
  BY DEF Rising
<1>6. p \in x .. y - 1 /\ p \in 1 .. Len(s) /\ q \in 1 .. Len(s) /\ y - 1 \in 1 .. Len(s) /\ y \in 1 .. Len(s)
  BY <1>2
<1>7. CASE q = y
  <2>1. v[p] <= v[y - 1]
    BY <1>1, <1>5, <1>6
  <2>2. v[p] <= v[y]
    <3>1. p = y - 1 \/ (p # y - 1 /\ v[p] <= v[y - 1])
      BY <1>5, <1>6
    <3>2. v[p] \in Int /\ v[y - 1] \in Int /\ v[y] \in Int
      BY <1>1, <1>6
    <3> QED
      BY <1>4, <3>1, <3>2
  <2> QED
    BY <1>1, <1>6, <1>7, <2>2
<1>8. CASE q # y
  <2>1. q \in x .. y - 1
    BY <1>8
  <2> QED
    BY <1>6, <2>1 DEF Rising
<1> QED
  BY <1>7, <1>8

\* A round of find_end_of_run.
LEMMA RunRound ==
    ASSUME NEW m, NEW S, Holds(m, S), NEW l \in DOMAIN S, NEW d \in [Elems -> Int],
           NEW x \in 1 .. Len(S[l]), NEW j \in Nat, NEW k, k = j + 1, NEW c, RunAt(c, S[l], l, d, x, j)
    PROVE  RunAt(IF c = list_end(l) \/ less(d, c, m.prev[c]) THEN c ELSE m.next[c], S[l], l, d, x, k)
<1> DEFINE s == S[l]
           r == IF c = list_end(l) \/ less(d, c, m.prev[c]) THEN c ELSE m.next[c]
<1> SUFFICES RunAt(r, s, l, d, x, k)
  OBVIOUS
<1>1. /\ Len(s) \in Nat /\ s \in Seq(Elems) /\ Apart(S) /\ list_end(l) = Cell(s, l, Len(s) + 1)
      /\ x \in Nat /\ 1 <= x /\ x <= Len(s)
  BY HoldsIs, CellIs, HoldsPlaces
<1>2. PICK y \in x + 1 .. Len(s) + 1 :
        /\ c = Cell(s, l, y) /\ Rising(s, d, x, y - 1)
        /\ y = x + 1 + j \/ y = Len(s) + 1 \/ d[s[y]] < d[s[y - 1]]
  BY DEF RunAt
<1>3. CASE y = Len(s) + 1
  <2>1. r = c
    BY <1>1, <1>2, <1>3
  <2> QED
    BY <1>2, <1>3, <2>1 DEF RunAt
<1>4. CASE y # Len(s) + 1
  <2>1. y \in 2 .. Len(s) /\ y - 1 \in 1 .. Len(s) /\ x \in 1 .. y - 1 /\ (y - 1) + 1 = y /\ y \in 1 .. Len(s)
        /\ y + 1 \in x + 1 .. Len(s) + 1 /\ (y + 1) - 1 = y
    <3>1. Len(s) \in Nat /\ x \in Nat /\ 1 <= x /\ x <= Len(s) /\ y \in x + 1 .. Len(s) + 1 /\ y # Len(s) + 1
      BY <1>1, <1>4
    <3> HIDE DEF s
    <3> QED
      BY ONLY <3>1
  <2>2. c = s[y] /\ Cell(s, l, y - 1) = s[y - 1] /\ s[y] \in Elems /\ s[y - 1] \in Elems
    BY <1>1, <1>2, <2>1, CellIs
  <2>3. c # list_end(l)
    BY <2>2, ListKinds DEF list_end
  <2>4. m.prev[c] = s[y - 1] /\ m.next[c] = Cell(s, l, y + 1)
    <3>1. y - 1 \in 0 .. Len(s) /\ y \in 0 .. Len(s)
      BY <1>1, <2>1
    <3>2. m.prev[Cell(s, l, (y - 1) + 1)] = Cell(s, l, y - 1) /\ m.next[Cell(s, l, y)] = Cell(s, l, y + 1)
      BY <3>1, LinksAre
    <3> QED
      BY <1>2, <2>1, <2>2, <3>2
  <2>5. d[s[y]] \in Int /\ d[s[y - 1]] \in Int
    BY <2>2
  <2>6. CASE d[s[y]] < d[s[y - 1]]
    <3>1. r = c
      BY <2>2, <2>4, <2>6 DEF less
    <3> HIDE DEF r
    <3> QED
      BY <1>2, <2>6, <3>1 DEF RunAt
  <2>7. CASE ~(d[s[y]] < d[s[y - 1]])
    <3>1. r = Cell(s, l, y + 1)
      BY <2>2, <2>3, <2>4, <2>7 DEF less
    <3>2. d[s[y - 1]] <= d[s[y]]
      BY <2>5, <2>7
    <3>3. Rising(s, d, x, y)
      <4> HIDE DEF s
      <4> QED
        BY <1>1, <1>2, <2>1, <3>2, RisingOn
    <3>4. y = x + 1 + j
      BY <1>2, <1>4, <2>7
    <3>5. y + 1 = x + 1 + k
      BY <1>1, <3>4
    <3> HIDE DEF r
    <3> QED
      BY <2>1, <3>1, <3>3, <3>5 DEF RunAt
  <2> QED
    BY <2>6, <2>7
<1> QED
  BY <1>3, <1>4

\* find_end_of_run finds the end of the run.
LEMMA RunEndIs ==
    ASSUME NEW m, NEW S, Holds(m, S), NEW l \in DOMAIN S, NEW d \in [Elems -> Int], NEW x \in 1 .. Len(S[l])
    PROVE  \E y : /\ RunEnds(S[l], d, x, y)
                  /\ find_end_of_run(m, d, Cell(S[l], l, x), list_end(l)) = Cell(S[l], l, y)
<1> DEFINE s == S[l]
           z == list_end(l)
           x0 == m.next[Cell(s, l, x)]
           n == LoopBound(m)
           I == [k \in 0 .. n |-> {c \in ListCells : RunAt(c, s, l, d, x, k)}]
           Round(c, k) == IF c = z \/ less(d, c, m.prev[c]) THEN c ELSE m.next[c]
           g == [k \in 1 .. n |-> [c \in I[k - 1] |-> Round(c, k)]]
           after == CHOOSE h : h = [k \in 0 .. n |-> IF k = 0 THEN x0 ELSE Round(h[k - 1], k)]
<1>1. find_end_of_run(m, d, Cell(s, l, x), z) = after[n]
  BY Zenon DEF find_end_of_run, Loop
<1>2. /\ n \in Nat /\ Len(s) \in Nat /\ Len(s) < n /\ m \in ListMemory /\ Apart(S) /\ x \in 1 .. Len(s)
      /\ s \in Seq(Elems)
  BY HoldsIs, CellIs, HoldsPlaces
<1>3. \A y \in 0 .. Len(s) + 1 : Cell(s, l, y) \in ListCells
  BY <1>2, CellIs
<1>4. x0 = Cell(s, l, x + 1)
  <2>1. x \in 0 .. Len(S[l])
    BY <1>2
  <2> QED
    BY <2>1, LinksAre
<1>5. \A c, k : RunAt(c, s, l, d, x, k) => c \in ListCells
  <2> SUFFICES ASSUME NEW c, NEW k, RunAt(c, s, l, d, x, k) PROVE c \in ListCells
    OBVIOUS
  <2>1. PICK y \in x + 1 .. Len(s) + 1 : c = Cell(s, l, y)
    BY DEF RunAt
  <2>2. y \in 0 .. Len(s) + 1
    BY <1>2
  <2> QED
    BY <1>3, <2>1, <2>2
<1> HIDE DEF x0
<1>6. x0 \in I[0]
  <2>1. Rising(s, d, x, (x + 1) - 1)
    <3>1. \A p, q \in x .. (x + 1) - 1 : ~(p < q)
      BY <1>2
    <3> QED
      BY <3>1 DEF Rising
  <2>2. x + 1 \in x + 1 .. Len(s) + 1 /\ x + 1 = x + 1 + 0 /\ 0 \in 0 .. n
    BY <1>2
  <2> HIDE DEF s
  <2>3. RunAt(x0, s, l, d, x, 0)
    BY <1>4, <2>1, <2>2 DEF RunAt
  <2> QED
    BY <1>5, <2>2, <2>3
<1>7. ASSUME NEW k \in 1 .. n, NEW c \in I[k - 1] PROVE Round(c, k) \in I[k]
  <2>1. k - 1 \in 0 .. n /\ k \in 0 .. n /\ k - 1 \in Nat /\ k = (k - 1) + 1
    BY <1>2
  <2> DEFINE j == k - 1
  <2>2. RunAt(c, s, l, d, x, j)
    BY <2>1
  <2> HIDE DEF j, I
  <2>3. RunAt(Round(c, k), s, l, d, x, k)
    BY <2>1, <2>2, RunRound DEF j
  <2> HIDE DEF Round
  <2> QED
    BY <1>5, <2>1, <2>3 DEF I
<1>8. \A k \in 1 .. n : k - 1 \in 0 .. n /\ \A c0 \in I[k - 1] : g[k][c0] = Round(c0, k) /\ g[k][c0] \in I[k]
  <2>1. \A k \in 1 .. n : k - 1 \in 0 .. n
    BY <1>2
  <2> HIDE DEF Round, n, I
  <2>2. \A k \in 1 .. n : \A c0 \in I[k - 1] : g[k][c0] = Round(c0, k)
    OBVIOUS
  <2> HIDE DEF g
  <2> QED
    BY <2>1, <2>2, <1>7
<1> HIDE DEF g, I, Round, n
<1>9. \E f : f = [k \in 0 .. n |-> IF k = 0 THEN x0 ELSE Round(f[k - 1], k)]
  <2>1. PICK f : Turns(f, n, x0, g, I)
    BY <1>2, <1>6, <1>8, LoopRuns
  <2>2. /\ f = [k \in 0 .. n |-> IF k = 0 THEN x0 ELSE g[k][f[k - 1]]]
        /\ \A k \in 0 .. n : f[k] \in I[k]
    BY <2>1 DEF Turns
  <2>3. \A k \in 1 .. n : g[k][f[k - 1]] = Round(f[k - 1], k)
    BY <1>8, <2>2
  <2>4. \A k \in 0 .. n : k = 0 \/ k \in 1 .. n
    BY <1>2
  <2>5. \A k \in 0 .. n : (IF k = 0 THEN x0 ELSE g[k][f[k - 1]]) = IF k = 0 THEN x0 ELSE Round(f[k - 1], k)
    BY <2>3, <2>4
  <2>6. f = [k \in 0 .. n |-> IF k = 0 THEN x0 ELSE Round(f[k - 1], k)]
    BY <2>2, <2>5
  <2> QED
    BY <2>6
<1>10. after = [k \in 0 .. n |-> IF k = 0 THEN x0 ELSE Round(after[k - 1], k)]
  BY <1>9
<1> HIDE DEF after
<1>11. \A k \in 0 .. n : after[k] \in I[k]
  <2>1. after[0] \in I[0]
    BY <1>2, <1>6, <1>10
  <2>2. \A k \in 1 .. n : after[k - 1] \in I[k - 1] => after[k] \in I[k]
    <3> SUFFICES ASSUME NEW k \in 1 .. n, after[k - 1] \in I[k - 1] PROVE after[k] \in I[k]
      OBVIOUS
    <3>1. k \in 0 .. n /\ k # 0
      BY <1>2
    <3>2. after[k] = Round(after[k - 1], k)
      BY <1>10, <3>1
    <3> QED
      BY <1>8, <3>2
  <2> QED
    BY <1>2, <2>1, <2>2, LoopStays
<1>12. after[n] \in I[n] /\ n \in 0 .. n
  BY <1>2, <1>11
<1>13. RunAt(after[n], s, l, d, x, n)
  BY <1>12 DEF I
<1>14. PICK y \in x + 1 .. Len(s) + 1 :
        /\ after[n] = Cell(s, l, y) /\ Rising(s, d, x, y - 1)
        /\ y = x + 1 + n \/ y = Len(s) + 1 \/ d[s[y]] < d[s[y - 1]]
  BY <1>13 DEF RunAt
<1>15. y # x + 1 + n
  <2> HIDE DEF s
  <2>1. x + 1 \in Nat /\ Len(s) + 1 \in Nat /\ n + 1 \in Nat /\ y \in x + 1 .. Len(s) + 1
    BY <1>2
  <2> QED
    BY <1>2, <2>1 DEF n
<1>16. RunEnds(s, d, x, y)
  BY <1>14, <1>15 DEF RunEnds
<1>17. find_end_of_run(m, d, Cell(s, l, x), z) = Cell(s, l, y)
  BY <1>1, <1>14
<1> QED
  BY <1>16, <1>17

\* u is s after some rounds of inplace_merge on the runs from x0 to before z:
\* what is before x is merged, the rests of the runs start at x and y.
Merging(u, s, d, x0, z, x, y) ==
    /\ Arranged(u, s, d)
    /\ Rising(u, d, x0, y - 1) /\ Rising(u, d, y, z - 1)
    /\ \A p \in x0 .. x - 1, q \in y .. z - 1 : d[u[p]] <= d[u[q]]
    /\ \A i \in 1 .. Len(s) : i < x0 \/ z <= i => u[i] = s[i]

\* Where the places are.
Bounds(n, x0, z, x, y) ==
    /\ n \in Nat /\ x0 \in 1 .. n /\ z \in x0 .. n + 1 /\ y \in x0 .. z /\ x \in x0 .. y

\* The left element is not greater, and stays where it is.
LEMMA MergingStay ==
    ASSUME NEW s, NEW u \in Seq(Elems), NEW d \in [Elems -> Int],
           NEW x0, NEW x, NEW y, NEW z, Bounds(Len(u), x0, z, x, y), x # y, y # z,
           Merging(u, s, d, x0, z, x, y), d[u[x]] <= d[u[y]]
    PROVE  Merging(u, s, d, x0, z, x + 1, y)
<1> DEFINE n == Len(u)
           e == [i \in 1 .. n |-> d[u[i]]]
<1>1. \A i \in 1 .. n : e[i] = d[u[i]] /\ e[i] \in Int
  BY ElementOfSeq
<1> HIDE DEF e
<1>2. /\ n \in Nat /\ x0 \in 1 .. n /\ z \in x0 .. n + 1 /\ y \in x0 .. z /\ x \in x0 .. y /\ x # y /\ y # z
  BY DEF Bounds
<1> HIDE DEF n
<1>3. \A p \in x0 .. x - 1, q \in y .. z - 1 : d[u[p]] <= d[u[q]]
  BY DEF Merging
<1>4. ASSUME NEW q \in y .. z - 1 PROVE d[u[x]] <= d[u[q]]
  <2>1. x \in 1 .. n /\ y \in 1 .. n /\ q \in 1 .. n /\ y \in y .. z - 1
    BY <1>2
  <2>2. q = y \/ d[u[y]] <= d[u[q]]
    <3>1. q = y \/ y < q
      BY <2>1
    <3> QED
      BY <2>1, <3>1 DEF Merging, Rising
  <2>3. e[x] <= e[y] /\ (q = y \/ e[y] <= e[q])
    BY <1>1, <2>1, <2>2
  <2>4. e[x] \in Int /\ e[y] \in Int /\ e[q] \in Int
    BY <1>1, <2>1
  <2>5. e[x] <= e[q]
    BY <2>3, <2>4
  <2> QED
    BY <1>1, <2>1, <2>5
<1>5. ASSUME NEW p \in x0 .. (x + 1) - 1, NEW q \in y .. z - 1 PROVE d[u[p]] <= d[u[q]]
  <2>1. p = x \/ p \in x0 .. x - 1
    BY <1>2
  <2> QED
    BY <1>3, <1>4, <2>1
<1> QED
  BY <1>5 DEF Merging

\* The right element is less, and goes before the left one.
LEMMA MergingLift ==
    ASSUME NEW s, NEW u \in Seq(Elems), NEW v \in Seq(Elems), NEW d \in [Elems -> Int],
           NEW x0, NEW x, NEW y, NEW z, Bounds(Len(u), x0, z, x, y), x # y, y # z, Len(s) = Len(u),
           Merging(u, s, d, x0, z, x, y), d[u[y]] < d[u[x]], Lifted(v, u, x, y)
    PROVE  Merging(v, s, d, x0, z, x + 1, y + 1)
<1> DEFINE n == Len(u)
           e == [i \in 1 .. n |-> d[u[i]]]
           f == [i \in 1 .. n |-> d[v[i]]]
<1>1. \A i \in 1 .. n : e[i] = d[u[i]] /\ e[i] \in Int
  BY ElementOfSeq
<1>2. /\ n \in Nat /\ x0 \in 1 .. n /\ z \in x0 .. n + 1 /\ y \in x0 .. z /\ x \in x0 .. y /\ x # y /\ y # z
  BY DEF Bounds
<1>3. /\ Len(v) = n
      /\ \A i \in 1 .. n : v[i] = IF i = x THEN u[y] ELSE IF x < i /\ i <= y THEN u[i - 1] ELSE u[i]
  BY DEF Lifted
<1>4. \A i \in 1 .. n : f[i] = d[v[i]]
  OBVIOUS
<1> HIDE DEF e, f, n
<1>5. \A i \in 1 .. n : f[i] = IF i = x THEN e[y] ELSE IF x < i /\ i <= y THEN e[i - 1] ELSE e[i]
  <2> SUFFICES ASSUME NEW i \in 1 .. n
               PROVE  f[i] = IF i = x THEN e[y] ELSE IF x < i /\ i <= y THEN e[i - 1] ELSE e[i]
    OBVIOUS
  <2>1. y \in 1 .. n /\ (x < i => i - 1 \in 1 .. n)
    BY <1>2
  <2>2. f[i] = d[v[i]] /\ e[y] = d[u[y]] /\ e[i] = d[u[i]] /\ (x < i => e[i - 1] = d[u[i - 1]])
    BY <1>1, <1>4, <2>1
  <2>3. v[i] = IF i = x THEN u[y] ELSE IF x < i /\ i <= y THEN u[i - 1] ELSE u[i]
    BY <1>3
  <2> QED
    BY ONLY <2>2, <2>3
<1>6. \A i \in 1 .. n : f[i] \in Int
  <2> SUFFICES ASSUME NEW i \in 1 .. n PROVE f[i] \in Int
    OBVIOUS
  <2>1. y \in 1 .. n /\ (x < i => i - 1 \in 1 .. n)
    BY <1>2
  <2> QED
    BY <1>1, <1>5, <2>1
<1>7. \A p, q \in x0 .. y - 1 : p < q => e[p] <= e[q]
  <2>1. \A p \in x0 .. y - 1 : p \in 1 .. n
    BY <1>2
  <2> QED
    BY <1>1, <2>1 DEF Merging, Rising
<1>8. \A p, q \in y .. z - 1 : p < q => e[p] <= e[q]
  <2>1. \A p \in y .. z - 1 : p \in 1 .. n
    BY <1>2
  <2> QED
    BY <1>1, <2>1 DEF Merging, Rising
<1>9. \A p \in x0 .. x - 1, q \in y .. z - 1 : e[p] <= e[q]
  <2>1. (\A p \in x0 .. x - 1 : p \in 1 .. n) /\ \A p \in y .. z - 1 : p \in 1 .. n
    BY <1>2
  <2> QED
    BY <1>1, <2>1 DEF Merging
<1>10. e[y] < e[x] /\ x \in 1 .. n /\ y \in 1 .. n /\ y \in y .. z - 1 /\ x \in x0 .. y - 1
  <2>1. x \in 1 .. n /\ y \in 1 .. n /\ y \in y .. z - 1 /\ x \in x0 .. y - 1
    BY <1>2
  <2> QED
    BY <1>1, <2>1
<1>11. \A k \in x .. y - 1 : e[y] < e[k]
  <2> SUFFICES ASSUME NEW k \in x .. y - 1 PROVE e[y] < e[k]
    OBVIOUS
  <2>1. k \in x0 .. y - 1 /\ k \in 1 .. n /\ (k = x \/ x < k)
    BY <1>2
  <2>2. k = x \/ e[x] <= e[k]
    BY <1>7, <1>10, <2>1
  <2>3. e[k] \in Int /\ e[x] \in Int /\ e[y] \in Int
    BY <1>1, <1>10, <2>1
  <2> QED
    BY <1>10, <2>2, <2>3
<1>12. Arranged(v, s, d)
  <2>1. \A k \in x .. y - 1 : d[u[k]] # d[u[y]]
    <3> SUFFICES ASSUME NEW k \in x .. y - 1 PROVE d[u[k]] # d[u[y]]
      OBVIOUS
    <3>1. k \in 1 .. n /\ y \in 1 .. n
      BY <1>2
    <3> QED
      BY <1>1, <1>11, <3>1
  <2>2. y \in 1 .. Len(u) /\ x \in 1 .. y - 1 /\ Len(u) \in Nat
    BY <1>2 DEF n
  <2>3. Arranged(v, u, d)
    BY <2>1, <2>2, ArrangedLift
  <2>4. Arranged(u, s, d)
    BY DEF Merging
  <2> QED
    BY <2>3, <2>4, ArrangedOn
<1>13. Rising(v, d, x0, (y + 1) - 1)
  <2> SUFFICES ASSUME NEW p \in x0 .. (y + 1) - 1, NEW q \in x0 .. (y + 1) - 1, p < q PROVE d[v[p]] <= d[v[q]]
    BY DEF Rising
  <2>1. p \in 1 .. n /\ q \in 1 .. n /\ p \in x0 .. y /\ q \in x0 .. y
    BY <1>2
  <2> SUFFICES f[p] <= f[q]
    BY <1>4, <2>1
  <2>2. CASE q < x
    <3>1. p \in x0 .. y - 1 /\ q \in x0 .. y - 1 /\ ~(x < p) /\ ~(x < q) /\ p # x /\ q # x
      BY <1>2, <2>1, <2>2
    <3> QED
      BY <1>5, <1>7, <2>1, <3>1
  <2>3. CASE q = x
    <3>1. p \in x0 .. x - 1 /\ ~(x < p) /\ p # x
      BY <1>2, <2>1, <2>3
    <3> QED
      BY <1>5, <1>9, <1>10, <2>1, <2>3, <3>1
  <2>4. CASE x < q /\ p < x
    <3>1. (p \in x0 .. y - 1 /\ q - 1 \in x0 .. y - 1 /\ p < q - 1 /\ ~(x < p) /\ p # x /\ q # x /\ q <= y /\ q - 1 \in 1 .. n)
          \/ (p = q - 1)
      BY <1>2, <2>1, <2>4
    <3>2. p # q - 1
      BY <1>2, <2>1, <2>4
    <3> QED
      BY <1>5, <1>7, <2>1, <2>4, <3>1, <3>2
  <2>5. CASE x < q /\ p = x
    <3>1. q - 1 \in x .. y - 1 /\ q # x /\ q <= y /\ q - 1 \in 1 .. n
      BY <1>2, <2>1, <2>5
    <3>2. f[p] = e[y] /\ f[q] = e[q - 1] /\ e[y] < e[q - 1]
      BY <1>5, <1>11, <2>1, <2>5, <3>1
    <3>3. e[y] \in Int /\ e[q - 1] \in Int
      BY <1>1, <1>10, <3>1
    <3> QED
      BY <3>2, <3>3
  <2>6. CASE x < q /\ x < p
    <3>1. p - 1 \in x0 .. y - 1 /\ q - 1 \in x0 .. y - 1 /\ p - 1 < q - 1 /\ p # x /\ q # x /\ p <= y /\ q <= y
      BY <1>2, <2>1, <2>6
    <3>2. f[p] = e[p - 1] /\ f[q] = e[q - 1]
      BY <1>5, <2>1, <2>6, <3>1
    <3> QED
      BY <1>7, <3>1, <3>2
  <2> QED
    BY <1>2, <2>1, <2>2, <2>3, <2>4, <2>5, <2>6
<1>14. Rising(v, d, y + 1, z - 1)
  <2> SUFFICES ASSUME NEW p \in y + 1 .. z - 1, NEW q \in y + 1 .. z - 1, p < q PROVE d[v[p]] <= d[v[q]]
    BY DEF Rising
  <2>1. p \in 1 .. n /\ q \in 1 .. n /\ p \in y .. z - 1 /\ q \in y .. z - 1 /\ ~(p <= y) /\ ~(q <= y) /\ p # x /\ q # x
    BY <1>2
  <2>2. f[p] = e[p] /\ f[q] = e[q]
    BY <1>5, <2>1
  <2> QED
    BY <1>4, <1>8, <2>1, <2>2
<1>15. ASSUME NEW p \in x0 .. (x + 1) - 1, NEW q \in y + 1 .. z - 1 PROVE d[v[p]] <= d[v[q]]
  <2>1. p \in 1 .. n /\ q \in 1 .. n /\ q \in y .. z - 1 /\ ~(q <= y) /\ q # x /\ (p = x \/ p \in x0 .. x - 1) /\ y < q
    BY <1>2
  <2>2. f[q] = e[q]
    BY <1>5, <2>1
  <2>3. CASE p = x
    BY <1>4, <1>5, <1>8, <1>10, <2>1, <2>2, <2>3
  <2>4. CASE p \in x0 .. x - 1
    <3>1. ~(x < p) /\ p # x
      BY <1>2, <2>4
    <3>2. f[p] = e[p]
      BY <1>5, <2>1, <3>1
    <3> QED
      BY <1>4, <1>9, <2>1, <2>2, <2>4, <3>2
  <2> QED
    BY <2>1, <2>3, <2>4
<1>16. ASSUME NEW i \in 1 .. Len(s), i < x0 \/ z <= i PROVE v[i] = s[i]
  <2>1. u[i] = s[i] /\ i \in 1 .. n
    BY <1>16 DEF Merging, n
  <2>2. i # x /\ ~(x < i /\ i <= y)
    BY <1>2, <1>16, <2>1
  <2> QED
    BY <1>3, <2>1, <2>2
<1> QED
  BY <1>12, <1>13, <1>14, <1>15, <1>16 DEF Merging

\* At the end the two runs are one.
LEMMA MergingEnd ==
    ASSUME NEW s, NEW u \in Seq(Elems), NEW d \in [Elems -> Int],
           NEW x0, NEW x, NEW y, NEW z, Bounds(Len(u), x0, z, x, y), x = y \/ y = z,
           Merging(u, s, d, x0, z, x, y)
    PROVE  Rising(u, d, x0, z - 1)
<1> SUFFICES ASSUME NEW p \in x0 .. z - 1, NEW q \in x0 .. z - 1, p < q PROVE d[u[p]] <= d[u[q]]
  BY DEF Rising
<1>1. /\ x0 \in Nat /\ z \in Nat /\ y \in Nat /\ x \in Nat
  BY DEF Bounds
<1>2. CASE y = z
  BY <1>2 DEF Merging, Rising
<1>3. CASE x = y
  <2>1. CASE q < y
    <3>1. p \in x0 .. y - 1 /\ q \in x0 .. y - 1
      BY <1>1, <2>1
    <3> QED
      BY <3>1 DEF Merging, Rising
  <2>2. CASE y <= q /\ p < y
    <3>1. p \in x0 .. x - 1 /\ q \in y .. z - 1
      BY <1>1, <1>3, <2>2
    <3> QED
      BY <3>1 DEF Merging
  <2>3. CASE y <= p
    <3>1. p \in y .. z - 1 /\ q \in y .. z - 1
      BY <1>1, <2>3
    <3> QED
      BY <3>1 DEF Merging, Rising
  <2> QED
    BY <1>1, <2>1, <2>2, <2>3
<1> QED
  BY <1>2, <1>3

\* The loop of inplace_merge, q, has come to x and y in list l of T, from S.
MergeAt(q, T, S, l, d, x0, z, x, y) ==
    /\ q \in [links : ListMemory, a0 : ListCells, a1b0 : ListCells]
    /\ Holds(q.links, T) /\ ElseSame(T, S, l) /\ Len(T[l]) = Len(S[l])
    /\ Bounds(Len(T[l]), x0, z, x, y) /\ Merging(T[l], S[l], d, x0, z, x, y)
    /\ q.a0 = Cell(T[l], l, x) /\ q.a1b0 = Cell(T[l], l, y)

\* What the comparisons of inplace_merge are about, by places.
LEMMA MergeEnd ==
    ASSUME NEW S, NEW l \in DOMAIN S, NEW d, NEW x0, NEW x, NEW y, NEW z, NEW q, NEW T,
           MergeAt(q, T, S, l, d, x0, z, x, y)
    PROVE  /\ Cell(T[l], l, z) = Cell(S[l], l, z) /\ l \in DOMAIN T
           /\ x \in 1 .. Len(T[l]) + 1 /\ y \in 1 .. Len(T[l]) + 1 /\ z \in 1 .. Len(T[l]) + 1
           /\ x <= y /\ y <= z /\ Len(T[l]) \in Nat /\ T[l] \in Seq(Elems) /\ Apart(T)
           /\ (q.a0 = q.a1b0 <=> x = y) /\ (q.a1b0 = Cell(S[l], l, z) <=> y = z)
<1>1. Apart(T) /\ l \in DOMAIN T /\ Len(T[l]) = Len(S[l])
  BY HoldsIs DEF MergeAt, ElseSame
<1>2. Len(T[l]) \in Nat /\ T[l] \in Seq(Elems)
  BY <1>1, CellIs
<1>3. x \in 1 .. Len(T[l]) + 1 /\ y \in 1 .. Len(T[l]) + 1 /\ z \in 1 .. Len(T[l]) + 1 /\ x <= y /\ y <= z
  BY DEF MergeAt, Bounds
<1>4. Cell(T[l], l, z) = Cell(S[l], l, z)
  <2>1. CASE z = Len(T[l]) + 1
    BY <1>1, <2>1 DEF Cell
  <2>2. CASE z # Len(T[l]) + 1
    <3>1. z \in 1 .. Len(S[l]) /\ z <= z
      BY <1>1, <1>2, <1>3, <2>2
    <3>2. T[l][z] = S[l][z]
      BY <3>1 DEF MergeAt, Merging
    <3> QED
      BY <1>1, <3>2 DEF Cell
  <2> QED
    BY <2>1, <2>2
<1>5. \A i, j \in 0 .. Len(T[l]) + 1 : Cell(T[l], l, i) = Cell(T[l], l, j) => i = j
  BY <1>1, CellOnce
<1>6. x \in 0 .. Len(T[l]) + 1 /\ y \in 0 .. Len(T[l]) + 1 /\ z \in 0 .. Len(T[l]) + 1
  BY <1>2, <1>3
<1>7. q.a0 = Cell(T[l], l, x) /\ q.a1b0 = Cell(T[l], l, y)
  BY DEF MergeAt
<1> QED
  BY <1>1, <1>2, <1>3, <1>4, <1>5, <1>6, <1>7

\* After the last comparison a round changes nothing.
LEMMA MergeStops ==
    ASSUME NEW S, NEW l \in DOMAIN S, NEW d, NEW x0, NEW x, NEW y, NEW z, NEW q, NEW T,
           MergeAt(q, T, S, l, d, x0, z, x, y), x = y \/ y = z
    PROVE  MergeElem(q, d, Cell(S[l], l, z)) = q
<1>1. q.a0 = q.a1b0 \/ q.a1b0 = Cell(S[l], l, z)
  BY MergeEnd
<1> QED
  BY <1>1 DEF MergeElem

\* Before, a round takes one more element into the left run or lifts it there.
LEMMA MergeRound ==
    ASSUME NEW S, NEW l \in DOMAIN S, NEW d \in [Elems -> Int], NEW x0, NEW x, NEW y, NEW z, NEW q, NEW T,
           MergeAt(q, T, S, l, d, x0, z, x, y), x # y, y # z
    PROVE  \E U : \E w \in {y, y + 1} : MergeAt(MergeElem(q, d, Cell(S[l], l, z)), U, S, l, d, x0, z, x + 1, w)
<1> DEFINE b1 == Cell(S[l], l, z)
           u == T[l]
           n == Len(u)
           r == MergeElem(q, d, b1)
           next == q.links.next[q.a1b0]
<1>1. /\ l \in DOMAIN T /\ x \in 1 .. n + 1 /\ y \in 1 .. n + 1 /\ z \in 1 .. n + 1
      /\ x <= y /\ y <= z /\ n \in Nat /\ u \in Seq(Elems) /\ Apart(T)
      /\ (q.a0 = q.a1b0 <=> x = y) /\ (q.a1b0 = b1 <=> y = z)
  BY MergeEnd
<1>2. q.a0 # q.a1b0 /\ q.a1b0 # b1
  BY <1>1
<1>3. /\ q \in [links : ListMemory, a0 : ListCells, a1b0 : ListCells]
      /\ Holds(q.links, T) /\ ElseSame(T, S, l) /\ Len(u) = Len(S[l])
      /\ Bounds(Len(u), x0, z, x, y) /\ Merging(u, S[l], d, x0, z, x, y)
      /\ q.a0 = Cell(u, l, x) /\ q.a1b0 = Cell(u, l, y)
  BY DEF MergeAt
<1> HIDE DEF b1
<1>4. x \in 1 .. n /\ y \in 1 .. n /\ x \in 1 .. y - 1 /\ x + 1 \in 1 .. n + 1 /\ y + 1 \in 1 .. n + 1
      /\ x + 1 \in 0 .. n + 1 /\ y + 1 \in 0 .. n + 1 /\ x \in 0 .. n /\ y \in 0 .. n
  <2> HIDE DEF n
  <2> QED
    BY <1>1
<1>5. q.a0 = u[x] /\ q.a1b0 = u[y] /\ u[x] \in Elems /\ u[y] \in Elems
      /\ Cell(u, l, x + 1) \in ListCells /\ Cell(u, l, y + 1) \in ListCells
  BY <1>1, <1>3, <1>4, CellIs
<1>6. /\ q.links.next[q.a0] = Cell(u, l, x + 1) /\ next = Cell(u, l, y + 1)
      /\ q.links.prev[next] = Cell(u, l, y)
  BY <1>1, <1>3, <1>4, LinksAre
<1>7. d[u[x]] \in Int /\ d[u[y]] \in Int
  BY <1>5
<1>8. CASE ~less(d, q.a1b0, q.a0)
  <2> DEFINE p == [q EXCEPT !.a0 = q.links.next[q.a0]]
  <2>1. r = p
    BY <1>2, <1>8 DEF MergeElem
  <2>2. d[u[x]] <= d[u[y]]
    BY <1>5, <1>7, <1>8 DEF less
  <2>3. /\ p \in [links : ListMemory, a0 : ListCells, a1b0 : ListCells]
        /\ p.links = q.links /\ p.a0 = Cell(u, l, x + 1) /\ p.a1b0 = q.a1b0
    BY <1>3, <1>5, <1>6
  <2>4. Merging(u, S[l], d, x0, z, x + 1, y)
    <3> HIDE DEF u, n
    <3> QED
      BY <1>1, <1>3, <2>2, MergingStay
  <2>5. Bounds(n, x0, z, x + 1, y)
    BY <1>3, <1>4 DEF Bounds
  <2> HIDE DEF p, n, r
  <2>6. MergeAt(p, T, S, l, d, x0, z, x + 1, y)
    BY <1>3, <2>3, <2>4, <2>5 DEF MergeAt, n
  <2>7. MergeAt(r, T, S, l, d, x0, z, x + 1, y) /\ y \in {y, y + 1}
    BY <2>1, <2>6
  <2>8. \E U : \E w \in {y, y + 1} : MergeAt(r, U, S, l, d, x0, z, x + 1, w)
    BY <2>7
  <2> QED
    BY <2>8 DEF r, b1
<1>9. CASE less(d, q.a1b0, q.a0)
  <2> DEFINE m1 == list_splice(q.links, q.a0, q.links.prev[next], next)
             p == [q EXCEPT !.links = m1, !.a1b0 = next]
  <2>1. r = p
    BY <1>2, <1>9 DEF MergeElem
  <2>2. d[u[y]] < d[u[x]]
    BY <1>5, <1>9 DEF less
  <2>3. PICK V : /\ Holds(list_splice(q.links, Cell(T[l], l, x), Cell(T[l], l, y), Cell(T[l], l, y + 1)), V)
                 /\ ElseSame(V, T, l) /\ Lifted(V[l], T[l], x, y)
    BY <1>1, <1>3, <1>4, LiftHolds
  <2>4. Holds(m1, V)
    BY <1>3, <1>6, <2>3
  <2>5. m1 \in ListMemory /\ Apart(V) /\ l \in DOMAIN V
    BY <1>1, <2>3, <2>4, HoldsIs DEF ElseSame
  <2>6. V[l] \in Seq(Elems)
    BY <2>5, CellIs
  <2>7. Len(V[l]) = n
    BY <2>3 DEF Lifted
  <2>8. Merging(V[l], S[l], d, x0, z, x + 1, y + 1)
    <3> DEFINE v == V[l]
               s == S[l]
    <3>1. Lifted(v, u, x, y) /\ v \in Seq(Elems) /\ Len(s) = Len(u)
      BY <1>3, <2>3, <2>6
    <3>2. Bounds(Len(u), x0, z, x, y) /\ Merging(u, s, d, x0, z, x, y) /\ u \in Seq(Elems)
      BY <1>1, <1>3
    <3> HIDE DEF u, n, v, s
    <3>3. Merging(v, s, d, x0, z, x + 1, y + 1)
      BY <2>2, <3>1, <3>2, MergingLift
    <3> QED
      BY <3>3 DEF v, s
  <2>9. Bounds(n, x0, z, x + 1, y + 1)
    <3>1. Bounds(n, x0, z, x, y) /\ x # y /\ y # z
      BY <1>3
    <3> HIDE DEF n
    <3>2. n \in Nat /\ x0 \in 1 .. n /\ z \in x0 .. n + 1 /\ y \in x0 .. z /\ x \in x0 .. y
      BY ONLY <3>1 DEF Bounds
    <3>3. y + 1 \in x0 .. z /\ x + 1 \in x0 .. y + 1
      BY ONLY <3>1, <3>2
    <3> QED
      BY ONLY <3>2, <3>3 DEF Bounds
  <2>10. ElseSame(V, S, l)
    BY <1>3, <2>3 DEF ElseSame
  <2>11. /\ p \in [links : ListMemory, a0 : ListCells, a1b0 : ListCells]
         /\ p.links = m1 /\ p.a0 = q.a0 /\ p.a1b0 = next
    <3> HIDE DEF m1, next
    <3> QED
      BY <1>3, <1>5, <1>6, <2>5
  <2>12. q.a0 = Cell(V[l], l, x + 1) /\ next = Cell(V[l], l, y + 1)
    <3>1. \A i \in 1 .. n : V[l][i] = IF i = x THEN u[y] ELSE IF x < i /\ i <= y THEN u[i - 1] ELSE u[i]
      BY <2>3 DEF Lifted
    <3>2. x + 1 \in 1 .. n /\ x + 1 # x /\ x < x + 1 /\ x + 1 <= y /\ (x + 1) - 1 = x
      <4>1. n \in Nat /\ x \in 1 .. n /\ y \in 1 .. n /\ x \in 1 .. y - 1
        BY <1>1, <1>4
      <4> HIDE DEF n
      <4> QED
        BY ONLY <4>1
    <3>3. Cell(V[l], l, x + 1) = V[l][x + 1]
      BY <2>5, <2>7, <3>2, CellIs
    <3>4. q.a0 = Cell(V[l], l, x + 1)
      BY <1>5, <3>1, <3>2, <3>3
    <3>5. CASE y = n
      <4>1. Cell(V[l], l, Len(V[l]) + 1) = ListTail(l) /\ Cell(u, l, Len(u) + 1) = ListTail(l)
        BY <1>1, <2>5, CellIs
      <4>2. y + 1 = Len(V[l]) + 1 /\ y + 1 = Len(u) + 1
        BY <2>7, <3>5
      <4> HIDE DEF n, u
      <4> QED
        BY <1>6, <3>4, <4>1, <4>2
    <3>6. CASE y # n
      <4>1. y + 1 \in 1 .. n /\ y + 1 # x /\ ~(y + 1 <= y)
        BY <1>1, <1>4, <3>6
      <4>2. Cell(V[l], l, y + 1) = V[l][y + 1] /\ Cell(u, l, y + 1) = u[y + 1]
        BY <1>1, <2>5, <2>7, <4>1, CellIs
      <4> QED
        BY <1>6, <3>1, <3>4, <4>1, <4>2
    <3> QED
      BY <3>4, <3>5, <3>6
  <2> HIDE DEF p, n, r, m1, next
  <2>13. MergeAt(p, V, S, l, d, x0, z, x + 1, y + 1)
    BY <1>3, <2>4, <2>7, <2>8, <2>9, <2>10, <2>11, <2>12 DEF MergeAt, n
  <2>14. MergeAt(r, V, S, l, d, x0, z, x + 1, y + 1) /\ y + 1 \in {y, y + 1}
    BY <2>1, <2>13
  <2>15. \E U : \E w \in {y, y + 1} : MergeAt(r, U, S, l, d, x0, z, x + 1, w)
    BY <2>14
  <2> QED
    BY <2>15 DEF r, b1
<1> QED
  BY <1>8, <1>9

\* T is S with list l in other order: the equals in the same, nothing moved
\* but from x0 to before z, and there no fall.
Merged(T, S, l, d, x0, z) ==
    /\ ElseSame(T, S, l) /\ Len(T[l]) = Len(S[l]) /\ Arranged(T[l], S[l], d)
    /\ Rising(T[l], d, x0, z - 1)
    /\ \A i \in 1 .. Len(S[l]) : i < x0 \/ z <= i => T[l][i] = S[l][i]

\* inplace_merge merges two runs.
LEMMA MergeHolds ==
    ASSUME NEW m, NEW S, Holds(m, S), NEW l \in DOMAIN S, NEW d \in [Elems -> Int],
           NEW x0 \in 1 .. Len(S[l]), NEW y0 \in 1 .. Len(S[l]), NEW z,
           RunEnds(S[l], d, x0, y0), RunEnds(S[l], d, y0, z)
    PROVE  \E T : /\ Holds(inplace_merge(m, d, Cell(S[l], l, x0), Cell(S[l], l, y0), Cell(S[l], l, z)), T)
                  /\ Merged(T, S, l, d, x0, z)
<1> DEFINE s == S[l]
           b1 == Cell(s, l, z)
           s0 == [links |-> m, a0 |-> Cell(s, l, x0), a1b0 |-> Cell(s, l, y0)]
           n == LoopBound(m)
           Q == [links : ListMemory, a0 : ListCells, a1b0 : ListCells]
           In0(q, k) == \E T, x, y : MergeAt(q, T, S, l, d, x0, z, x, y) /\ (x = y \/ y = z \/ x = x0 + k)
           I == [k \in 0 .. n |-> {q \in Q : In0(q, k)}]
           Round(q, k) == MergeElem(q, d, b1)
           g == [k \in 1 .. n |-> [q \in I[k - 1] |-> Round(q, k)]]
           after == CHOOSE h : h = [k \in 0 .. n |-> IF k = 0 THEN s0 ELSE Round(h[k - 1], k)]
           r == inplace_merge(m, d, Cell(S[l], l, x0), Cell(S[l], l, y0), Cell(S[l], l, z))
<1>1. r = after[n].links
  BY Zenon DEF inplace_merge, Loop
<1>2. /\ n \in Nat /\ Len(s) \in Nat /\ Len(s) < n /\ m \in ListMemory /\ Apart(S) /\ s \in Seq(Elems)
  BY HoldsIs, CellIs, HoldsPlaces
<1>3. /\ y0 \in x0 + 1 .. Len(s) + 1 /\ Rising(s, d, x0, y0 - 1)
      /\ z \in y0 + 1 .. Len(s) + 1 /\ Rising(s, d, y0, z - 1)
  BY DEF RunEnds
<1> HIDE DEF n, r
<1>4. s0 \in I[0]
  <2>1. Cell(s, l, x0) \in ListCells /\ Cell(s, l, y0) \in ListCells
    <3>1. x0 \in 0 .. Len(s) + 1 /\ y0 \in 0 .. Len(s) + 1
      BY <1>2
    <3> QED
      BY <1>2, <3>1, CellIs
  <2>2. Bounds(Len(s), x0, z, x0, y0)
    <3> HIDE DEF s
    <3>1. x0 \in 1 .. Len(s)
      BY DEF s
    <3> QED
      BY <1>2, <1>3, <3>1 DEF Bounds
  <2>3. Merging(s, s, d, x0, z, x0, y0)
    <3>1. \A p \in x0 .. x0 - 1 : FALSE
      BY <1>2
    <3> QED
      BY <1>3, <3>1, ArrangedSame DEF Merging
  <2>4. s0 \in Q /\ s0.links = m /\ s0.a0 = Cell(s, l, x0) /\ s0.a1b0 = Cell(s, l, y0)
    BY <1>2, <2>1
  <2> HIDE DEF s0
  <2>5. MergeAt(s0, S, S, l, d, x0, z, x0, y0)
    BY <2>2, <2>3, <2>4 DEF MergeAt, ElseSame
  <2>6. 0 \in 0 .. n /\ x0 = x0 + 0
    BY <1>2
  <2>7. In0(s0, 0)
    BY <2>5, <2>6
  <2> HIDE DEF In0, Q
  <2> QED
    BY <2>4, <2>6, <2>7
<1>5. ASSUME NEW k \in 1 .. n, NEW q \in I[k - 1] PROVE Round(q, k) \in I[k]
  <2>1. k - 1 \in 0 .. n /\ k \in 0 .. n
    BY <1>2
  <2>2. In0(q, k - 1)
    BY <2>1
  <2>3. PICK T, x, y : MergeAt(q, T, S, l, d, x0, z, x, y) /\ (x = y \/ y = z \/ x = x0 + (k - 1))
    BY <2>2
  <2> HIDE DEF I
  <2> DEFINE p == MergeElem(q, d, b1)
  <2>4. In0(p, k) /\ p \in Q
    <3>1. CASE x = y \/ y = z
      <4>1. p = q
        BY <2>3, <3>1, MergeStops
      <4> HIDE DEF p
      <4>2. q \in Q
        BY <2>3 DEF MergeAt
      <4> HIDE DEF Q
      <4> QED
        BY <2>3, <3>1, <4>1, <4>2
    <3>2. CASE ~(x = y \/ y = z)
      <4>1. \E U : \E w \in {y, y + 1} : MergeAt(p, U, S, l, d, x0, z, x + 1, w)
        BY <2>3, <3>2, MergeRound
      <4> HIDE DEF p
      <4>2. PICK U, w : MergeAt(p, U, S, l, d, x0, z, x + 1, w)
        BY <4>1
      <4>3. x + 1 = x0 + k
        BY <1>2, <2>3, <3>2
      <4>4. p \in Q
        BY <4>2 DEF MergeAt
      <4> HIDE DEF Q
      <4> QED
        BY <4>2, <4>3, <4>4
    <3> QED
      BY <3>1, <3>2
  <2> HIDE DEF In0, Q, p
  <2> QED
    BY <2>1, <2>4 DEF I, p
<1>6. \A k \in 1 .. n : k - 1 \in 0 .. n /\ \A c0 \in I[k - 1] : g[k][c0] = Round(c0, k) /\ g[k][c0] \in I[k]
  <2>1. \A k \in 1 .. n : k - 1 \in 0 .. n
    BY <1>2
  <2> HIDE DEF Round, n, I
  <2>2. \A k \in 1 .. n : \A c0 \in I[k - 1] : g[k][c0] = Round(c0, k)
    OBVIOUS
  <2> HIDE DEF g
  <2> QED
    BY <2>1, <2>2, <1>5
<1> HIDE DEF s0, g, I, Round, n
<1>7. \E f : f = [k \in 0 .. n |-> IF k = 0 THEN s0 ELSE Round(f[k - 1], k)]
  <2>1. PICK f : Turns(f, n, s0, g, I)
    BY <1>2, <1>4, <1>6, LoopRuns
  <2>2. /\ f = [k \in 0 .. n |-> IF k = 0 THEN s0 ELSE g[k][f[k - 1]]]
        /\ \A k \in 0 .. n : f[k] \in I[k]
    BY <2>1 DEF Turns
  <2>3. \A k \in 1 .. n : g[k][f[k - 1]] = Round(f[k - 1], k)
    BY <1>6, <2>2
  <2>4. \A k \in 0 .. n : k = 0 \/ k \in 1 .. n
    BY <1>2
  <2>5. \A k \in 0 .. n : (IF k = 0 THEN s0 ELSE g[k][f[k - 1]]) = IF k = 0 THEN s0 ELSE Round(f[k - 1], k)
    BY <2>3, <2>4
  <2>6. f = [k \in 0 .. n |-> IF k = 0 THEN s0 ELSE Round(f[k - 1], k)]
    BY <2>2, <2>5
  <2> QED
    BY <2>6
<1>8. after = [k \in 0 .. n |-> IF k = 0 THEN s0 ELSE Round(after[k - 1], k)]
  BY <1>7
<1> HIDE DEF after
<1>9. \A k \in 0 .. n : after[k] \in I[k]
  <2>1. after[0] \in I[0]
    BY <1>2, <1>4, <1>8
  <2>2. \A k \in 1 .. n : after[k - 1] \in I[k - 1] => after[k] \in I[k]
    <3> SUFFICES ASSUME NEW k \in 1 .. n, after[k - 1] \in I[k - 1] PROVE after[k] \in I[k]
      OBVIOUS
    <3>1. k \in 0 .. n /\ k # 0
      BY <1>2
    <3>2. after[k] = Round(after[k - 1], k)
      BY <1>8, <3>1
    <3> QED
      BY <1>6, <3>2
  <2> QED
    BY <1>2, <2>1, <2>2, LoopStays
<1>10. after[n] \in I[n] /\ n \in 0 .. n
  BY <1>2, <1>9
<1>11. In0(after[n], n)
  <2> HIDE DEF In0
  <2> QED
    BY <1>10 DEF I
<1>12. PICK T, x, y : MergeAt(after[n], T, S, l, d, x0, z, x, y) /\ (x = y \/ y = z \/ x = x0 + n)
  BY <1>11
<1>13. x = y \/ y = z
  <2>1. x \in 1 .. Len(T[l]) + 1 /\ Len(T[l]) = Len(s)
    BY <1>12, MergeEnd DEF MergeAt
  <2>2. x # x0 + n
    BY <1>2, <2>1
  <2> QED
    BY <1>12, <2>2
<1>14. Rising(T[l], d, x0, z - 1)
  <2>1. T[l] \in Seq(Elems)
    BY <1>12, MergeEnd
  <2>2. Bounds(Len(T[l]), x0, z, x, y) /\ Merging(T[l], S[l], d, x0, z, x, y)
    BY <1>12 DEF MergeAt
  <2> DEFINE u == T[l]
             v == S[l]
  <2> HIDE DEF u, v
  <2>3. Rising(u, d, x0, z - 1)
    BY <1>13, <2>1, <2>2, MergingEnd DEF u, v
  <2> QED
    BY <2>3 DEF u
<1>15. Merged(T, S, l, d, x0, z)
  BY <1>12, <1>14 DEF MergeAt, Merging, Merged
<1>16. Holds(r, T)
  BY <1>1, <1>12 DEF MergeAt
<1>17. \E U : Holds(r, U) /\ Merged(U, S, l, d, x0, z)
  BY <1>15, <1>16
<1> QED
  BY <1>17 DEF r

\* w gives the first k places of u grades up to r, one more where the data fall.
Graded(u, d, w, k, r) ==
    /\ \A i \in 1 .. k : w[i] \in 1 .. r
    /\ \A i, j \in 1 .. k : i < j => w[i] <= w[j]
    /\ \A i \in 1 .. k - 1 : d[u[i + 1]] < d[u[i]] => w[i] < w[i + 1]

\* u is s after some rounds of a pass of list_sort: c runs, which end before x.
\* The grades w of s say that there were twice as many before, or almost.
Passing(u, s, d, w, r, v, x, c) ==
    /\ Len(u) = Len(s) /\ Arranged(u, s, d) /\ x \in 1 .. Len(s) + 1 /\ c \in Nat
    /\ \A i \in x .. Len(s) : u[i] = s[i]
    /\ Graded(u, d, v, x - 1, c)
    /\ c = 0 \/ 2 * c <= r + 1
    /\ x # Len(s) + 1 => 2 * c + 1 <= w[x]

\* Two runs of the pass have become one: the list is arranged anew, and the
\* runs counted are at most half of those before, rounded up.
LEMMA PassingOn ==
    ASSUME NEW s, Len(s) \in Nat, NEW d \in [Elems -> Int], NEW w, NEW r \in Nat, Graded(s, d, w, Len(s), r),
           NEW u, NEW v, NEW x, NEW c, Passing(u, s, d, w, r, v, x, c), x # Len(s) + 1,
           NEW t \in Seq(Elems), Len(t) = Len(u), Arranged(t, u, d),
           NEW z \in x + 1 .. Len(s) + 1, Rising(t, d, x, z - 1),
           \A i \in 1 .. Len(u) : i < x \/ z <= i => t[i] = u[i],
           z # Len(s) + 1 => w[x] + 2 <= w[z]
    PROVE  \E f : Passing(t, s, d, w, r, f, z, c + 1)
<1> DEFINE n == Len(s)
           f == [i \in 1 .. n |-> IF i < x THEN v[i] ELSE c + 1]
<1>1. /\ Len(u) = n /\ Arranged(u, s, d) /\ x \in 1 .. n /\ c \in Nat /\ n \in Nat
      /\ \A i \in x .. n : u[i] = s[i]
      /\ Graded(u, d, v, x - 1, c)
      /\ 2 * c + 1 <= w[x]
  BY DEF Passing
<1>3. z \in x + 1 .. n + 1
  OBVIOUS
<1>2. w[x] \in 1 .. r /\ (z # n + 1 => w[z] \in 1 .. r)
  <2>1. z # n + 1 => z \in 1 .. n
    <3> HIDE DEF n
    <3> QED
      BY <1>1, <1>3
  <2>2. \A i \in 1 .. n : w[i] \in 1 .. r
    BY DEF Graded
  <2> HIDE DEF n
  <2> QED
    BY <1>1, <2>1, <2>2
<1> HIDE DEF n
<1>4. /\ \A i \in 1 .. x - 1 : v[i] \in 1 .. c
      /\ \A i, j \in 1 .. x - 1 : i < j => v[i] <= v[j]
      /\ \A i \in 1 .. (x - 1) - 1 : d[u[i + 1]] < d[u[i]] => v[i] < v[i + 1]
  BY <1>1 DEF Graded
<1>5. \A i \in 1 .. n : f[i] = IF i < x THEN v[i] ELSE c + 1
  OBVIOUS
<1> HIDE DEF f
<1>6. \A i \in 1 .. z - 1 : i \in 1 .. n /\ (i < x => i \in 1 .. x - 1)
  BY <1>1, <1>3
<1>7. \A i \in 1 .. z - 1 : f[i] \in 1 .. c + 1
  <2> SUFFICES ASSUME NEW i \in 1 .. z - 1 PROVE f[i] \in 1 .. c + 1
    OBVIOUS
  <2>1. CASE i < x
    <3>1. f[i] = v[i] /\ v[i] \in 1 .. c
      BY <1>4, <1>5, <1>6, <2>1
    <3> QED
      BY <1>1, <3>1
  <2>2. CASE ~(i < x)
    <3>1. f[i] = c + 1
      BY <1>5, <1>6, <2>2
    <3> QED
      BY <1>1, <3>1
  <2> QED
    BY <2>1, <2>2
<1>8. ASSUME NEW i \in 1 .. z - 1, NEW j \in 1 .. z - 1, i < j PROVE f[i] <= f[j]
  <2>4. i \in 1 .. n /\ j \in 1 .. n
    BY <1>6
  <2>5. i \in Nat /\ j \in Nat /\ x \in Nat
    BY <1>1, <2>4
  <2>6. f[i] \in 1 .. c + 1
    BY <1>7
  <2>1. i \in 1 .. n /\ j \in 1 .. n /\ f[i] \in 1 .. c + 1 /\ i \in Nat /\ j \in Nat /\ x \in Nat
    BY <2>4, <2>5, <2>6
  <2>2. CASE j < x
    <3>1. i < x
      BY <1>8, <2>1, <2>2
    <3> QED
      BY <1>4, <1>5, <1>6, <1>8, <2>1, <2>2, <3>1
  <2>3. CASE ~(j < x)
    <3>1. f[j] = c + 1
      BY <1>5, <2>1, <2>3
    <3> QED
      BY <1>1, <2>1, <3>1
  <2> QED
    BY <2>2, <2>3
<1>9. ASSUME NEW i \in 1 .. (z - 1) - 1, d[t[i + 1]] < d[t[i]] PROVE f[i] < f[i + 1]
  <2>1. i \in 1 .. n /\ i + 1 \in 1 .. n /\ i \in 1 .. z - 1 /\ i + 1 \in 1 .. z - 1
    BY <1>1, <1>3
  <2>2. CASE i + 1 < x
    <3>1. i < x /\ i \in 1 .. (x - 1) - 1
      BY <1>1, <2>1, <2>2
    <3>2. t[i] = u[i] /\ t[i + 1] = u[i + 1]
      BY <1>1, <2>1, <2>2, <3>1
    <3> QED
      BY <1>4, <1>5, <1>9, <2>1, <2>2, <3>1, <3>2
  <2>3. CASE i + 1 = x
    <3>1. i < x /\ i \in 1 .. x - 1 /\ ~(i + 1 < x)
      BY <1>1, <2>1, <2>3
    <3>2. f[i] \in 1 .. c /\ f[i + 1] = c + 1
      BY <1>4, <1>5, <2>1, <3>1
    <3>3. c \in Nat
      BY <1>1
    <3> QED
      BY ONLY <3>2, <3>3
  <2>4. CASE x < i + 1
    <3>1. i \in x .. z - 1 /\ i + 1 \in x .. z - 1 /\ i < i + 1
      BY <1>1, <1>3, <2>1, <2>4
    <3>2. d[t[i]] <= d[t[i + 1]]
      BY <3>1 DEF Rising
    <3>3. t[i] \in Elems /\ t[i + 1] \in Elems
      <4>1. i \in 1 .. Len(t) /\ i + 1 \in 1 .. Len(t)
        BY <1>1, <2>1
      <4> QED
        BY <4>1, ElementOfSeq
    <3>4. d[t[i]] \in Int /\ d[t[i + 1]] \in Int
      BY <3>3
    <3> QED
      BY <1>9, <3>2, <3>4
  <2> QED
    BY <1>1, <2>1, <2>2, <2>3, <2>4
<1>10. Graded(t, d, f, z - 1, c + 1)
  BY <1>7, <1>8, <1>9 DEF Graded
<1>11. 2 * (c + 1) <= r + 1 /\ (z # n + 1 => 2 * (c + 1) + 1 <= w[z])
  <2>1. c \in Nat /\ 2 * c + 1 <= w[x] /\ r \in Nat /\ w[x] \in 1 .. r
    BY <1>1, <1>2
  <2>2. z # n + 1 => w[z] \in 1 .. r /\ w[x] + 2 <= w[z]
    BY <1>2 DEF n
  <2> QED
    BY ONLY <2>1, <2>2
<1>12. \A i \in z .. n : t[i] = s[i]
  <2> SUFFICES ASSUME NEW i \in z .. n PROVE t[i] = s[i]
    OBVIOUS
  <2>1. i \in 1 .. Len(u) /\ z <= i /\ i \in x .. n
    BY <1>1, <1>3
  <2> QED
    BY <1>1, <2>1
<1>13. Arranged(t, s, d)
  BY <1>1, ArrangedOn
<1>14. z \in 1 .. n + 1 /\ c + 1 \in Nat
  BY <1>1, <1>3
<1>15. Passing(t, s, d, w, r, f, z, c + 1)
  BY <1>1, <1>10, <1>11, <1>12, <1>13, <1>14 DEF Passing, n
<1> QED
  BY <1>15

\* The inner loop of list_sort, q, has come to x.
PassAt(q, T, S, l, d, w, r, v, x) ==
    /\ q \in [links : ListMemory, a0 : ListCells, runs : Nat] /\ Holds(q.links, T) /\ ElseSame(T, S, l)
    /\ Passing(T[l], S[l], d, w, r, v, x, q.runs) /\ q.a0 = Cell(T[l], l, x)

\* A round merges two runs, or is at the end.
LEMMA PassRound ==
    ASSUME NEW S, Apart(S), NEW l \in DOMAIN S, NEW d \in [Elems -> Int], NEW w, NEW r \in Nat,
           Graded(S[l], d, w, Len(S[l]), r), NEW q, NEW T, NEW v, NEW x, PassAt(q, T, S, l, d, w, r, v, x)
    PROVE  \E U, f, z : /\ PassAt(MergeRun(q, d, list_end(l)), U, S, l, d, w, r, f, z)
                        /\ z = Len(S[l]) + 1 \/ z > x
<1> DEFINE s == S[l]
           u == T[l]
           n == Len(s)
           end == list_end(l)
           p == MergeRun(q, d, end)
           y1 == find_end_of_run(q.links, d, q.a0, end)
           z1 == find_end_of_run(q.links, d, y1, end)
<1> SUFFICES \E U, f, z : PassAt(p, U, S, l, d, w, r, f, z) /\ (z = n + 1 \/ z > x)
  OBVIOUS
<1>1. /\ q \in [links : ListMemory, a0 : ListCells, runs : Nat] /\ Holds(q.links, T) /\ ElseSame(T, S, l)
      /\ Passing(u, s, d, w, r, v, x, q.runs) /\ q.a0 = Cell(u, l, x)
  BY DEF PassAt
<1>2. /\ l \in DOMAIN T /\ Apart(T) /\ n \in Nat /\ s \in Seq(Elems)
  BY <1>1, HoldsIs, CellIs DEF ElseSame
<1>3. /\ u \in Seq(Elems) /\ Len(u) = n /\ x \in 1 .. n + 1 /\ Len(u) \in Nat
      /\ q.runs \in Nat /\ \A i \in x .. n : u[i] = s[i]
  BY <1>1, <1>2, CellIs DEF Passing
<1>4. \A i, j \in 0 .. n + 1 : Cell(u, l, i) = Cell(u, l, j) => i = j
  BY <1>2, <1>3, CellOnce
<1>5. end = Cell(u, l, n + 1) /\ end \in ListCells
  <2>1. Cell(u, l, Len(u) + 1) = ListTail(l) /\ l \in Lists
    BY <1>2, CellIs
  <2> QED
    BY <1>3, <2>1, IsListCell DEF list_end
<1>6. x \in 0 .. n + 1 /\ n + 1 \in 0 .. n + 1
  BY <1>2, <1>3
<1>7. CASE x = n + 1
  <2>1. p = q
    BY <1>1, <1>5, <1>7 DEF MergeRun
  <2> HIDE DEF p, n
  <2> QED
    BY <1>7, <2>1
<1>8. CASE x # n + 1
  <2>1. q.a0 # end /\ x \in 1 .. n
    BY <1>1, <1>2, <1>3, <1>4, <1>5, <1>6, <1>8
  <2>2. PICK y : RunEnds(u, d, x, y) /\ y1 = Cell(u, l, y)
    BY <1>1, <1>2, <1>3, <2>1, RunEndIs
  <2>3. y \in x + 1 .. n + 1 /\ Rising(u, d, x, y - 1) /\ (y # n + 1 => d[u[y]] < d[u[y - 1]])
    BY <1>3, <2>2 DEF RunEnds
  <2>4. y \in 0 .. n + 1 /\ (y1 = end <=> y = n + 1)
    <3>1. y \in 0 .. n + 1
      BY <1>2, <2>1, <2>3
    <3> QED
      BY <1>4, <1>5, <1>6, <2>2, <3>1
  <2>5. CASE y = n + 1
    <3> DEFINE a == [q EXCEPT !.a0 = end, !.runs = q.runs + 1]
    <3>1. p = a
      BY <2>1, <2>4, <2>5 DEF MergeRun
    <3>2. /\ a \in [links : ListMemory, a0 : ListCells, runs : Nat]
          /\ a.links = q.links /\ a.a0 = end /\ a.runs = q.runs + 1
      <4>1. q.runs + 1 \in Nat
        BY <1>3
      <4>2. q \in [links : ListMemory, a0 : ListCells, runs : Nat]
        BY <1>1
      <4> DEFINE c == q.runs + 1
                 b == [q EXCEPT !.a0 = end, !.runs = c]
      <4> HIDE DEF end, c
      <4>3. /\ b \in [links : ListMemory, a0 : ListCells, runs : Nat]
            /\ b.links = q.links /\ b.a0 = end /\ b.runs = c
        <5>1. c \in Nat
          BY <4>1 DEF c
        <5>2. end \in ListCells
          BY <1>5
        <5> QED
          BY <4>2, <5>1, <5>2
      <4> QED
        BY <4>3 DEF c
    <3>3. \E f : Passing(u, s, d, w, r, f, y, q.runs + 1)
      <4>1. Arranged(u, u, d)
        BY ArrangedSame
      <4>2. Graded(s, d, w, Len(s), r) /\ Len(s) \in Nat /\ x # Len(s) + 1 /\ y \in x + 1 .. Len(s) + 1 /\ y = Len(s) + 1
        BY <1>2, <1>8, <2>3, <2>5
      <4> DEFINE c == q.runs
      <4>3. Passing(u, s, d, w, r, v, x, c)
        BY <1>1
      <4> HIDE DEF u, s, n, end, p, c
      <4>4. \E f : Passing(u, s, d, w, r, f, y, c + 1)
        BY <1>3, <2>3, <4>1, <4>2, <4>3, PassingOn
      <4> QED
        BY <4>4 DEF c
    <3>4. PICK f : Passing(u, s, d, w, r, f, y, q.runs + 1)
      BY <3>3
    <3> HIDE DEF p, a, end
    <3>5. PassAt(p, T, S, l, d, w, r, f, y)
      BY <1>1, <1>5, <2>5, <3>1, <3>2, <3>4 DEF PassAt
    <3> QED
      BY <2>5, <3>5
  <2>6. CASE y # n + 1
    <3>1. y \in 1 .. n /\ y - 1 \in x .. n /\ y \in x .. n /\ (y - 1) + 1 = y /\ y - 1 \in 1 .. n - 1 /\ y - 1 \in 1 .. n
      <4> HIDE DEF n
      <4> QED
        BY <1>2, <2>1, <2>3, <2>6
    <3>2. PICK z : RunEnds(u, d, y, z) /\ z1 = Cell(u, l, z)
      <4>1. z1 = find_end_of_run(q.links, d, Cell(u, l, y), end)
        BY <2>2
      <4>2. y \in 1 .. Len(u) /\ l \in DOMAIN T /\ Holds(q.links, T)
        BY <1>1, <1>2, <1>3, <3>1
      <4>3. \E z : RunEnds(u, d, y, z) /\ find_end_of_run(q.links, d, Cell(u, l, y), end) = Cell(u, l, z)
        <5> HIDE DEF p, y1, z1, n, s
        <5> QED
          BY <4>2, RunEndIs
      <4> HIDE DEF z1
      <4> QED
        BY <4>1, <4>3
    <3>3. z \in y + 1 .. n + 1 /\ (z # n + 1 => d[u[z]] < d[u[z - 1]])
      BY <1>3, <3>2 DEF RunEnds
    <3>4. PICK U : /\ Holds(inplace_merge(q.links, d, Cell(T[l], l, x), Cell(T[l], l, y), Cell(T[l], l, z)), U)
                   /\ Merged(U, T, l, d, x, z)
      BY <1>1, <1>2, <1>3, <2>1, <2>2, <3>1, <3>2, MergeHolds
    <3> DEFINE m1 == inplace_merge(q.links, d, q.a0, y1, z1)
               a == [links |-> m1, a0 |-> z1, runs |-> q.runs + 1]
               t == U[l]
    <3>5. p = a
      BY <2>1, <2>4, <2>6 DEF MergeRun
    <3>6. Holds(m1, U)
      BY <1>1, <2>2, <3>2, <3>4
    <3> HIDE DEF y1, z1
    <3>7. /\ ElseSame(U, T, l) /\ Len(t) = n /\ Arranged(t, u, d) /\ Rising(t, d, x, z - 1)
          /\ \A i \in 1 .. Len(u) : i < x \/ z <= i => t[i] = u[i]
      BY <1>3, <3>4 DEF Merged
    <3>8. m1 \in ListMemory /\ Apart(U) /\ l \in DOMAIN U
      BY <1>2, <3>6, <3>7, HoldsIs DEF ElseSame
    <3>9. t \in Seq(Elems)
      BY <3>8, CellIs
    <3>10. z # n + 1 => w[x] + 2 <= w[z]
      <4> SUFFICES ASSUME z # n + 1 PROVE w[x] + 2 <= w[z]
        OBVIOUS
      <4> HIDE DEF n
      <4>1. z \in 1 .. n /\ z - 1 \in y .. n /\ z - 1 \in x .. n /\ z \in x .. n /\ (z - 1) + 1 = z
            /\ z - 1 \in 1 .. n - 1 /\ z - 1 \in 1 .. n
        BY <1>2, <2>1, <3>1, <3>3
      <4>2. d[s[(y - 1) + 1]] < d[s[y - 1]] /\ d[s[(z - 1) + 1]] < d[s[z - 1]]
        BY <1>3, <2>3, <2>6, <3>1, <3>3, <4>1
      <4>3. w[y - 1] < w[y] /\ w[z - 1] < w[z]
        BY <3>1, <4>1, <4>2 DEF Graded, n
      <4>4. (y - 1 = x \/ w[x] <= w[y - 1]) /\ (z - 1 = y \/ w[y] <= w[z - 1])
        <5>1. \A i, j \in 1 .. n : i < j => w[i] <= w[j]
          BY DEF Graded, n
        <5>2. (y - 1 = x \/ x < y - 1) /\ (z - 1 = y \/ y < z - 1)
          BY <2>1, <3>1, <4>1
        <5> QED
          BY <2>1, <3>1, <4>1, <5>1, <5>2
      <4>5. w[x] \in Nat /\ w[y] \in Nat /\ w[z] \in Nat /\ w[y - 1] \in Nat /\ w[z - 1] \in Nat
        <5>1. \A i \in 1 .. n : w[i] \in 1 .. r
          BY DEF Graded, n
        <5>2. \A i \in 1 .. n : w[i] \in Nat
          BY <5>1
        <5> QED
          BY <2>1, <3>1, <4>1, <5>2
      <4> QED
        BY <4>3, <4>4, <4>5
    <3>11. \E f : Passing(t, s, d, w, r, f, z, q.runs + 1)
      <4>1. /\ Graded(s, d, w, Len(s), r) /\ Len(s) \in Nat /\ x # Len(s) + 1 /\ Len(t) = Len(u)
            /\ z \in x + 1 .. Len(s) + 1 /\ (z # Len(s) + 1 => w[x] + 2 <= w[z])
        <5>1. z \in x + 1 .. n + 1
          <6> HIDE DEF n
          <6> QED
            BY <1>2, <2>1, <3>1, <3>3
        <5> QED
          BY <1>2, <1>3, <1>8, <3>7, <3>10, <5>1
      <4> DEFINE c == q.runs
      <4>2. Passing(u, s, d, w, r, v, x, c)
        BY <1>1
      <4> HIDE DEF u, s, n, end, p, c, t
      <4>3. \E f : Passing(t, s, d, w, r, f, z, c + 1)
        BY <3>7, <3>9, <4>1, <4>2, PassingOn
      <4> QED
        BY <4>3 DEF c
    <3>12. PICK f : Passing(t, s, d, w, r, f, z, q.runs + 1)
      BY <3>11
    <3>13. z1 = Cell(t, l, z) /\ z1 \in ListCells
      <4>1. z \in 0 .. n + 1
        <5> HIDE DEF n
        <5> QED
          BY <1>2, <3>1, <3>3
      <4>2. Cell(u, l, z) \in ListCells
        BY <1>2, <1>3, <4>1, CellIs
      <4>3. Cell(t, l, z) = Cell(u, l, z)
        <5>1. CASE z = n + 1
          BY <1>3, <3>7, <5>1 DEF Cell
        <5>2. CASE z # n + 1
          <6>1. z \in 1 .. Len(u) /\ z <= z
            <7> HIDE DEF n
            <7> QED
              BY <1>2, <1>3, <3>1, <3>3, <5>2
          <6>2. t[z] = u[z]
            BY <3>7, <6>1
          <6> QED
            BY <1>3, <3>7, <6>2 DEF Cell
        <5> QED
          BY <5>1, <5>2
      <4> QED
        BY <3>2, <4>2, <4>3 DEF z1
    <3>14. /\ a \in [links : ListMemory, a0 : ListCells, runs : Nat]
           /\ a.links = m1 /\ a.a0 = z1 /\ a.runs = q.runs + 1
      <4> HIDE DEF m1
      <4> QED
        BY <1>3, <3>8, <3>13
    <3>15. ElseSame(U, S, l)
      BY <1>1, <3>7 DEF ElseSame
    <3> HIDE DEF p, a, m1, end
    <3>16. PassAt(p, U, S, l, d, w, r, f, z)
      BY <3>5, <3>6, <3>12, <3>13, <3>14, <3>15 DEF PassAt
    <3>17. z > x
      <4> HIDE DEF n
      <4> QED
        BY <1>2, <2>1, <3>1, <3>3
    <3> QED
      BY <3>16, <3>17
  <2> QED
    BY <2>5, <2>6
<1> QED
  BY <1>7, <1>8

\* list_sort, q, has made T of S, and v are the grades of its runs.
SortAt(q, T, S, l, d, v) ==
    /\ q \in [links : ListMemory, a0 : ListCells, runs : Nat] /\ Holds(q.links, T) /\ ElseSame(T, S, l)
    /\ Len(T[l]) = Len(S[l]) /\ Arranged(T[l], S[l], d) /\ Graded(T[l], d, v, Len(S[l]), q.runs)

\* A pass of list_sort halves the number of runs.
LEMMA PassHolds ==
    ASSUME NEW m, NEW S, Holds(m, S), NEW l \in DOMAIN S, NEW d \in [Elems -> Int], NEW w, NEW r \in Nat,
           Graded(S[l], d, w, Len(S[l]), r)
    PROVE  LET q == MergeRuns(m, d, l)
           IN  \E T, v : SortAt(q, T, S, l, d, v) /\ (q.runs = 0 \/ 2 * q.runs <= r + 1)
<1> DEFINE s == S[l]
           end == list_end(l)
           x0 == [links |-> m, a0 |-> list_begin(m, l), runs |-> 0]
           n == LoopBound(m)
           Q == [links : ListMemory, a0 : ListCells, runs : Nat]
           In0(q, k) == \E T, v, x : PassAt(q, T, S, l, d, w, r, v, x) /\ (x = Len(s) + 1 \/ x >= k + 1)
           I == [k \in 0 .. n |-> {q \in Q : In0(q, k)}]
           Round(q, k) == MergeRun(q, d, end)
           g == [k \in 1 .. n |-> [q \in I[k - 1] |-> Round(q, k)]]
           after == CHOOSE h : h = [k \in 0 .. n |-> IF k = 0 THEN x0 ELSE Round(h[k - 1], k)]
           q1 == MergeRuns(m, d, l)
<1> SUFFICES \E T, v : SortAt(q1, T, S, l, d, v) /\ (q1.runs = 0 \/ 2 * q1.runs <= r + 1)
  OBVIOUS
<1>1. q1 = after[n]
  BY Zenon DEF MergeRuns, Loop
<1>2. /\ n \in Nat /\ Len(s) \in Nat /\ Len(s) < n /\ m \in ListMemory /\ Apart(S) /\ s \in Seq(Elems)
      /\ list_begin(m, l) = Cell(s, l, 1)
  BY HoldsIs, CellIs, HoldsPlaces
<1> HIDE DEF n, q1
<1>3. x0 \in I[0]
  <2>1. 1 \in 0 .. Len(s) + 1 /\ 1 \in 1 .. Len(s) + 1 /\ 0 \in 0 .. n /\ 1 - 1 = 0
    BY <1>2
  <2>2. Cell(s, l, 1) \in ListCells
    BY <1>2, <2>1, CellIs
  <2>3. x0 \in Q /\ x0.links = m /\ x0.a0 = Cell(s, l, 1) /\ x0.runs = 0
    BY <1>2, <2>2
  <2> HIDE DEF x0
  <2>4. Graded(s, d, w, 0, 0)
    BY DEF Graded
  <2>5. 1 # Len(s) + 1 => 2 * 0 + 1 <= w[1]
    <3>1. 1 # Len(s) + 1 => 1 \in 1 .. Len(s)
      <4> HIDE DEF s
      <4> QED
        BY <1>2
    <3>2. \A i \in 1 .. Len(s) : w[i] \in 1 .. r
      BY DEF Graded
    <3> HIDE DEF s
    <3> QED
      BY <3>1, <3>2
  <2>6. Passing(s, s, d, w, r, w, 1, 0)
    <3>1. Arranged(s, s, d)
      BY ArrangedSame
    <3> HIDE DEF s
    <3> QED
      BY <2>1, <2>4, <2>5, <3>1 DEF Passing
  <2>7. PassAt(x0, S, S, l, d, w, r, w, 1)
    BY <2>3, <2>6 DEF PassAt, ElseSame
  <2>8. In0(x0, 0)
    BY <2>7
  <2> HIDE DEF In0, Q
  <2> QED
    BY <2>1, <2>3, <2>8
<1>4. ASSUME NEW k \in 1 .. n, NEW q \in I[k - 1] PROVE Round(q, k) \in I[k]
  <2>1. k - 1 \in 0 .. n /\ k \in 0 .. n
    BY <1>2
  <2>2. In0(q, k - 1)
    BY <2>1
  <2>3. PICK T, v, x : PassAt(q, T, S, l, d, w, r, v, x) /\ (x = Len(s) + 1 \/ x >= (k - 1) + 1)
    BY <2>2
  <2> HIDE DEF I
  <2> DEFINE p == MergeRun(q, d, end)
  <2>4. \E U, f, z : PassAt(p, U, S, l, d, w, r, f, z) /\ (z = Len(s) + 1 \/ z > x)
    BY <1>2, <2>3, PassRound
  <2>5. PICK U, f, z : PassAt(p, U, S, l, d, w, r, f, z) /\ (z = Len(s) + 1 \/ z > x)
    BY <2>4
  <2> HIDE DEF p
  <2>6. x \in 1 .. Len(s) + 1 /\ z \in 1 .. Len(s) + 1
    BY <2>3, <2>5 DEF PassAt, Passing
  <2>7. z = Len(s) + 1 \/ z >= k + 1
    <3> HIDE DEF s
    <3>1. k \in Nat /\ k - 1 + 1 = k
      BY <1>2
    <3>2. x \in Nat /\ z \in Nat /\ x <= Len(s) + 1 /\ z <= Len(s) + 1
      BY <1>2, <2>6
    <3> QED
      BY <1>2, <2>3, <2>5, <3>1, <3>2
  <2>8. In0(p, k)
    BY <2>5, <2>7
  <2>9. p \in Q
    BY <2>5 DEF PassAt
  <2> HIDE DEF In0, Q
  <2> QED
    BY <2>1, <2>8, <2>9 DEF I, p
<1>5. \A k \in 1 .. n : k - 1 \in 0 .. n /\ \A c0 \in I[k - 1] : g[k][c0] = Round(c0, k) /\ g[k][c0] \in I[k]
  <2>1. \A k \in 1 .. n : k - 1 \in 0 .. n
    BY <1>2
  <2> HIDE DEF Round, n, I
  <2>2. \A k \in 1 .. n : \A c0 \in I[k - 1] : g[k][c0] = Round(c0, k)
    OBVIOUS
  <2> HIDE DEF g
  <2> QED
    BY <2>1, <2>2, <1>4
<1> HIDE DEF x0, g, I, Round, n
<1>6. \E f : f = [k \in 0 .. n |-> IF k = 0 THEN x0 ELSE Round(f[k - 1], k)]
  <2>1. PICK f : Turns(f, n, x0, g, I)
    BY <1>2, <1>3, <1>5, LoopRuns
  <2>2. /\ f = [k \in 0 .. n |-> IF k = 0 THEN x0 ELSE g[k][f[k - 1]]]
        /\ \A k \in 0 .. n : f[k] \in I[k]
    BY <2>1 DEF Turns
  <2>3. \A k \in 1 .. n : g[k][f[k - 1]] = Round(f[k - 1], k)
    BY <1>5, <2>2
  <2>4. \A k \in 0 .. n : k = 0 \/ k \in 1 .. n
    BY <1>2
  <2>5. \A k \in 0 .. n : (IF k = 0 THEN x0 ELSE g[k][f[k - 1]]) = IF k = 0 THEN x0 ELSE Round(f[k - 1], k)
    BY <2>3, <2>4
  <2>6. f = [k \in 0 .. n |-> IF k = 0 THEN x0 ELSE Round(f[k - 1], k)]
    BY <2>2, <2>5
  <2> QED
    BY <2>6
<1>7. after = [k \in 0 .. n |-> IF k = 0 THEN x0 ELSE Round(after[k - 1], k)]
  BY <1>6
<1> HIDE DEF after
<1>8. \A k \in 0 .. n : after[k] \in I[k]
  <2>1. after[0] \in I[0]
    BY <1>2, <1>3, <1>7
  <2>2. \A k \in 1 .. n : after[k - 1] \in I[k - 1] => after[k] \in I[k]
    <3> SUFFICES ASSUME NEW k \in 1 .. n, after[k - 1] \in I[k - 1] PROVE after[k] \in I[k]
      OBVIOUS
    <3>1. k \in 0 .. n /\ k # 0
      BY <1>2
    <3>2. after[k] = Round(after[k - 1], k)
      BY <1>7, <3>1
    <3> QED
      BY <1>5, <3>2
  <2> QED
    BY <1>2, <2>1, <2>2, LoopStays
<1>9. after[n] \in I[n] /\ n \in 0 .. n
  BY <1>2, <1>8
<1>10. In0(after[n], n)
  <2> HIDE DEF In0
  <2> QED
    BY <1>9 DEF I
<1>11. PICK T, v, x : PassAt(q1, T, S, l, d, w, r, v, x) /\ (x = Len(s) + 1 \/ x >= n + 1)
  BY <1>1, <1>10
<1>12. x = Len(s) + 1
  <2>1. x \in 1 .. Len(s) + 1
    BY <1>11 DEF PassAt, Passing
  <2> HIDE DEF s
  <2> QED
    BY <1>2, <1>11, <2>1
<1>13. Passing(T[l], S[l], d, w, r, v, x, q1.runs)
  BY <1>11 DEF PassAt
<1>14. /\ Len(T[l]) = Len(S[l]) /\ Arranged(T[l], S[l], d) /\ Graded(T[l], d, v, x - 1, q1.runs)
       /\ q1.runs = 0 \/ 2 * q1.runs <= r + 1
  BY <1>13 DEF Passing
<1>15. x - 1 = Len(S[l])
  BY <1>2, <1>12
<1>16. SortAt(q1, T, S, l, d, v)
  BY <1>11, <1>14, <1>15 DEF SortAt, PassAt
<1> QED
  BY <1>14, <1>16

\* One run is sorted.
LEMMA GradedEnd ==
    ASSUME NEW u \in Seq(Elems), NEW d \in [Elems -> Int], NEW v, NEW c \in Nat, c <= 1, Graded(u, d, v, Len(u), c)
    PROVE  Rising(u, d, 1, Len(u))
<1> DEFINE n == Len(u)
           T == {j \in 0 .. n : Rising(u, d, 1, j)}
<1>1. n \in Nat /\ \A i \in 1 .. n : u[i] \in Elems /\ d[u[i]] \in Int
  BY ElementOfSeq
<1>2. \A i \in 1 .. n : v[i] = 1
  <2>1. \A i \in 1 .. n : v[i] \in 1 .. c
    BY DEF Graded
  <2> HIDE DEF n
  <2>2. \A i \in 1 .. c : i = 1
    OBVIOUS
  <2> QED
    BY <2>1, <2>2
<1>3. \A i \in 1 .. n - 1 : ~(d[u[i + 1]] < d[u[i]])
  <2>1. \A i \in 1 .. n - 1 : d[u[i + 1]] < d[u[i]] => v[i] < v[i + 1]
    BY DEF Graded
  <2> HIDE DEF n
  <2>2. \A i \in 1 .. n - 1 : i \in 1 .. n /\ i + 1 \in 1 .. n
    BY <1>1
  <2> QED
    BY <1>2, <2>1, <2>2
<1>4. 0 \in T
  <2>1. Rising(u, d, 1, 0)
    BY DEF Rising
  <2> HIDE DEF n
  <2> QED
    BY <1>1, <2>1
<1>5. ASSUME NEW j \in 0 .. n - 1, j \in T PROVE j + 1 \in T
  <2>1. Rising(u, d, 1, j)
    BY <1>5
  <2> HIDE DEF n
  <2>2. j + 1 \in 0 .. n /\ j \in Nat
    BY <1>1
  <2>3. Rising(u, d, 1, j + 1)
    <3>1. CASE j = 0
      <4>1. \A p, q \in 1 .. j + 1 : ~(p < q)
        BY <3>1
      <4> QED
        BY <4>1 DEF Rising
    <3>2. CASE j # 0
      <4> DEFINE y == j + 1
      <4>1. /\ y \in 2 .. n /\ y - 1 = j /\ 1 \in 1 .. y - 1 /\ j \in 1 .. n - 1 /\ j \in 1 .. n /\ y \in 1 .. n
            /\ y = j + 1
        BY <1>1, <2>2, <3>2
      <4> HIDE DEF y
      <4>2. d[u[y - 1]] <= d[u[y]]
        <5>1. ~(d[u[y]] < d[u[y - 1]])
          BY <1>3, <4>1
        <5>2. d[u[y]] \in Int /\ d[u[y - 1]] \in Int
          BY <1>1, <4>1
        <5> QED
          BY <5>1, <5>2
      <4>3. y \in 2 .. Len(u)
        BY <4>1 DEF n
      <4>4. Rising(u, d, 1, y)
        BY <2>1, <4>1, <4>2, <4>3, RisingOn
      <4> QED
        BY <4>1, <4>4
    <3> QED
      BY <3>1, <3>2
  <2> QED
    BY <2>2, <2>3
<1> HIDE DEF T
<1>6. 0 .. n \subseteq T
  <2> HIDE DEF n
  <2> QED
    BY <1>1, <1>4, <1>5, Induct
<1>7. n \in T
  <2> HIDE DEF n
  <2> QED
    BY <1>1, <1>6
<1> QED
  BY <1>7 DEF T

\* list_sort sorts the list and keeps the order of equals.
SortedTo(T, S, l, d) ==
    ElseSame(T, S, l) /\ Len(T[l]) = Len(S[l]) /\ Arranged(T[l], S[l], d) /\ Rising(T[l], d, 1, Len(T[l]))

\* The passes end with one run: list_sort leaves the list sorted, with the
\* order of equals kept, and no other list changed.
LEMMA SortHolds ==
    ASSUME NEW m, NEW S, Holds(m, S), NEW l \in DOMAIN S, NEW d \in [Elems -> Int]
    PROVE  \E T : Holds(list_sort(m, d, l), T) /\ SortedTo(T, S, l, d)
<1> DEFINE s == S[l]
           x0 == MergeRuns(m, d, l)
           n == LoopBound(m)
           Q == [links : ListMemory, a0 : ListCells, runs : Nat]
           In0(q, k) == \E T, v : SortAt(q, T, S, l, d, v) /\ (q.runs <= 1 \/ q.runs + k <= Len(s) + 1)
           I == [k \in 0 .. n |-> {q \in Q : In0(q, k)}]
           Round(q, k) == IF q.runs > 1 THEN MergeRuns(q.links, d, l) ELSE q
           g == [k \in 1 .. n |-> [q \in I[k - 1] |-> Round(q, k)]]
           after == CHOOSE h : h = [k \in 0 .. n |-> IF k = 0 THEN x0 ELSE Round(h[k - 1], k)]
           r == list_sort(m, d, l)
<1>1. r = after[n].links
  BY Zenon DEF list_sort, Loop
<1>2. /\ n \in Nat /\ Len(s) \in Nat /\ Len(s) < n /\ m \in ListMemory /\ Apart(S) /\ s \in Seq(Elems)
  BY HoldsIs, CellIs, HoldsPlaces
<1> HIDE DEF n, r
<1>3. x0 \in I[0]
  <2> DEFINE w == [i \in 1 .. Len(s) |-> i]
             b == Len(s)
  <2>1. Graded(s, d, w, Len(s), b)
    <3>1. \A i \in 1 .. Len(s) : w[i] = i
      OBVIOUS
    <3>2. \A i \in 1 .. Len(s) - 1 : i \in 1 .. Len(s) /\ i + 1 \in 1 .. Len(s) /\ i < i + 1
      <4> HIDE DEF s
      <4> QED
        BY <1>2
    <3>3. \A i, j \in 1 .. Len(s) : i < j => w[i] <= w[j]
      BY <3>1
    <3>4. \A i \in 1 .. Len(s) - 1 : d[s[i + 1]] < d[s[i]] => w[i] < w[i + 1]
      <4> HIDE DEF w, s
      <4> QED
        BY <3>1, <3>2
    <3>5. \A i \in 1 .. Len(s) : w[i] \in 1 .. Len(s)
      BY <3>1
    <3> HIDE DEF w, s
    <3> QED
      BY <3>3, <3>4, <3>5 DEF Graded
  <2>2. b \in Nat
    BY <1>2
  <2> HIDE DEF w, b
  <2>3. \E T, v : SortAt(x0, T, S, l, d, v) /\ (x0.runs = 0 \/ 2 * x0.runs <= b + 1)
    BY <2>1, <2>2, PassHolds
  <2> HIDE DEF x0
  <2>4. PICK T, v : SortAt(x0, T, S, l, d, v) /\ (x0.runs = 0 \/ 2 * x0.runs <= b + 1)
    BY <2>3
  <2>5. x0 \in Q /\ x0.runs \in Nat
    BY <2>4 DEF SortAt
  <2>6. x0.runs <= 1 \/ x0.runs + 0 <= Len(s) + 1
    <3>1. b = Len(s)
      BY DEF b
    <3> HIDE DEF s
    <3> QED
      BY <2>2, <2>4, <2>5, <3>1
  <2>7. In0(x0, 0) /\ 0 \in 0 .. n
    BY <1>2, <2>4, <2>6
  <2> HIDE DEF In0, Q
  <2> QED
    BY <2>5, <2>7
<1>4. ASSUME NEW k \in 1 .. n, NEW q \in I[k - 1] PROVE Round(q, k) \in I[k]
  <2>1. k - 1 \in 0 .. n /\ k \in 0 .. n /\ k \in Nat
    BY <1>2
  <2>2. In0(q, k - 1)
    BY <2>1
  <2>3. PICK T, v : SortAt(q, T, S, l, d, v) /\ (q.runs <= 1 \/ q.runs + (k - 1) <= Len(s) + 1)
    BY <2>2
  <2> HIDE DEF I
  <2> DEFINE p == MergeRuns(q.links, d, l)
             c == q.runs
  <2>4. q \in Q /\ c \in Nat
    BY <2>3 DEF SortAt
  <2>5. CASE ~(q.runs > 1)
    <3>1. Round(q, k) = q
      BY <2>5
    <3>2. q.runs <= 1
      BY <2>4, <2>5
    <3>3. In0(q, k)
      BY <2>3, <3>2
    <3> HIDE DEF Round, In0, Q
    <3> QED
      BY <2>1, <2>4, <3>1, <3>3 DEF I
  <2>6. CASE q.runs > 1
    <3>1. Round(q, k) = p
      BY <2>6
    <3>2. /\ Holds(q.links, T) /\ ElseSame(T, S, l) /\ Len(T[l]) = Len(S[l]) /\ Arranged(T[l], S[l], d)
          /\ Graded(T[l], d, v, Len(T[l]), c) /\ l \in DOMAIN T
      BY <2>3 DEF SortAt, ElseSame
    <3> HIDE DEF Round
    <3>3. \E U, f : SortAt(p, U, T, l, d, f) /\ (p.runs = 0 \/ 2 * p.runs <= c + 1)
      <4> HIDE DEF c
      <4> QED
        BY <2>4, <3>2, PassHolds
    <3> HIDE DEF p
    <3>4. PICK U, f : SortAt(p, U, T, l, d, f) /\ (p.runs = 0 \/ 2 * p.runs <= c + 1)
      BY <3>3
    <3>5. SortAt(p, U, S, l, d, f)
      <4>1. ElseSame(U, S, l)
        BY <3>2, <3>4 DEF SortAt, ElseSame
      <4>2. Arranged(U[l], S[l], d)
        BY <3>2, <3>4, ArrangedOn DEF SortAt
      <4> QED
        BY <3>2, <3>4, <4>1, <4>2 DEF SortAt
    <3>6. p.runs <= 1 \/ p.runs + k <= Len(s) + 1
      <4>1. p.runs \in Nat
        BY <3>4 DEF SortAt
      <4>2. c > 1 /\ (c <= 1 \/ c + (k - 1) <= Len(s) + 1)
        BY <2>3, <2>6
      <4>3. Len(s) \in Nat /\ c \in Nat /\ k \in Nat /\ k # 0 /\ (p.runs = 0 \/ 2 * p.runs <= c + 1)
        BY <1>2, <2>1, <2>4, <3>4
      <4> HIDE DEF s, c
      <4> QED
        BY ONLY <4>1, <4>2, <4>3
    <3>7. In0(p, k)
      BY <3>5, <3>6
    <3>8. p \in Q
      BY <3>4 DEF SortAt
    <3> HIDE DEF In0, Q
    <3> QED
      BY <2>1, <3>1, <3>7, <3>8 DEF I
  <2> QED
    BY <2>5, <2>6
<1>5. \A k \in 1 .. n : k - 1 \in 0 .. n /\ \A c0 \in I[k - 1] : g[k][c0] = Round(c0, k) /\ g[k][c0] \in I[k]
  <2>1. \A k \in 1 .. n : k - 1 \in 0 .. n
    BY <1>2
  <2> HIDE DEF Round, n, I
  <2>2. \A k \in 1 .. n : \A c0 \in I[k - 1] : g[k][c0] = Round(c0, k)
    OBVIOUS
  <2> HIDE DEF g
  <2> QED
    BY <2>1, <2>2, <1>4
<1> HIDE DEF x0, g, I, Round, n
<1>6. \E f : f = [k \in 0 .. n |-> IF k = 0 THEN x0 ELSE Round(f[k - 1], k)]
  <2>1. PICK f : Turns(f, n, x0, g, I)
    BY <1>2, <1>3, <1>5, LoopRuns
  <2>2. /\ f = [k \in 0 .. n |-> IF k = 0 THEN x0 ELSE g[k][f[k - 1]]]
        /\ \A k \in 0 .. n : f[k] \in I[k]
    BY <2>1 DEF Turns
  <2>3. \A k \in 1 .. n : g[k][f[k - 1]] = Round(f[k - 1], k)
    BY <1>5, <2>2
  <2>4. \A k \in 0 .. n : k = 0 \/ k \in 1 .. n
    BY <1>2
  <2>5. \A k \in 0 .. n : (IF k = 0 THEN x0 ELSE g[k][f[k - 1]]) = IF k = 0 THEN x0 ELSE Round(f[k - 1], k)
    BY <2>3, <2>4
  <2>6. f = [k \in 0 .. n |-> IF k = 0 THEN x0 ELSE Round(f[k - 1], k)]
    BY <2>2, <2>5
  <2> QED
    BY <2>6
<1>7. after = [k \in 0 .. n |-> IF k = 0 THEN x0 ELSE Round(after[k - 1], k)]
  BY <1>6
<1> HIDE DEF after
<1>8. \A k \in 0 .. n : after[k] \in I[k]
  <2>1. after[0] \in I[0]
    BY <1>2, <1>3, <1>7
  <2>2. \A k \in 1 .. n : after[k - 1] \in I[k - 1] => after[k] \in I[k]
    <3> SUFFICES ASSUME NEW k \in 1 .. n, after[k - 1] \in I[k - 1] PROVE after[k] \in I[k]
      OBVIOUS
    <3>1. k \in 0 .. n /\ k # 0
      BY <1>2
    <3>2. after[k] = Round(after[k - 1], k)
      BY <1>7, <3>1
    <3> QED
      BY <1>5, <3>2
  <2> QED
    BY <1>2, <2>1, <2>2, LoopStays
<1>9. after[n] \in I[n] /\ n \in 0 .. n
  BY <1>2, <1>8
<1>10. In0(after[n], n)
  <2> HIDE DEF In0
  <2> QED
    BY <1>9 DEF I
<1> DEFINE q == after[n]
           c == q.runs
<1>11. PICK T, v : SortAt(q, T, S, l, d, v) /\ (c <= 1 \/ c + n <= Len(s) + 1)
  BY <1>10
<1> HIDE DEF q
<1>12. /\ Holds(q.links, T) /\ ElseSame(T, S, l) /\ Len(T[l]) = Len(S[l]) /\ Arranged(T[l], S[l], d)
       /\ Graded(T[l], d, v, Len(T[l]), c) /\ l \in DOMAIN T /\ c \in Nat
  BY <1>11 DEF SortAt, ElseSame
<1>13. c <= 1
  <2> HIDE DEF s, c
  <2> QED
    BY <1>2, <1>11, <1>12
<1>14. Rising(T[l], d, 1, Len(T[l]))
  <2> DEFINE u == T[l]
  <2>1. u \in Seq(Elems)
    BY <1>12, HoldsIs, CellIs
  <2>2. Graded(u, d, v, Len(u), c)
    BY <1>12
  <2> HIDE DEF u, c
  <2>3. Rising(u, d, 1, Len(u))
    BY <1>12, <1>13, <2>1, <2>2, GradedEnd
  <2> QED
    BY <2>3 DEF u
<1>15. Holds(r, T) /\ SortedTo(T, S, l, d)
  BY <1>1, <1>12, <1>14 DEF SortedTo, q
<1>16. \E U : Holds(r, U) /\ SortedTo(U, S, l, d)
  BY <1>15
<1> QED
  BY <1>16 DEF r

\* ListSort keeps the invariant.
LEMMA SortInv ==
    ASSUME ListInv, NEW l \in Lists, ListSort(l)
    PROVE  ListInv'
<1>1. l \in Used /\ Holds(links, Seqs) /\ DOMAIN Seqs = Used /\ value \in [Elems -> Data]
      /\ Relink(list_sort(links, value, l), {}) /\ Apart(Seqs) /\ live = Inside(Seqs)
  BY InvIs DEF ListSort, Used
<1>2. value \in [Elems -> Int]
  BY <1>1, ListConstants
<1>3. PICK T : Holds(list_sort(links, value, l), T) /\ SortedTo(T, Seqs, l, value)
  BY <1>1, <1>2, SortHolds
<1>4. DOMAIN T = Used
  BY <1>1, <1>3 DEF SortedTo, ElseSame
<1>5. live \ {} = Inside(T)
  <2> DEFINE s == Seqs[l]
             t == T[l]
  <2>1. /\ Len(t) = Len(s) /\ Arranged(t, s, value)
        /\ \A x \in DOMAIN Seqs : x # l => T[x] = Seqs[x]
    BY <1>1, <1>3 DEF SortedTo, ElseSame
  <2>2. s \in Seq(Elems) /\ t \in Seq(Elems)
    BY <1>1, <1>3, <1>4, CellIs DEF Holds
  <2> HIDE DEF s, t
  <2>3. PICK w \in [1 .. Len(s) -> 1 .. Len(s)] : Arranges(w, 1 .. Len(s), t, s, value)
    BY <2>1 DEF Arranged
  <2>4. /\ \A i \in 1 .. Len(s) : t[i] = s[w[i]] /\ w[i] \in 1 .. Len(s)
        /\ \A k \in 1 .. Len(s) : \E i \in 1 .. Len(s) : w[i] = k
    BY <2>3 DEF Arranges
  <2>5. ToSet(t) = ToSet(s)
    <3>1. \A i \in 1 .. Len(t) : \E k \in 1 .. Len(s) : s[k] = t[i]
      BY <2>1, <2>4
    <3>2. \A k \in 1 .. Len(s) : \E i \in 1 .. Len(t) : t[i] = s[k]
      BY <2>1, <2>4
    <3> QED
      BY ONLY <2>2, <3>1, <3>2, SameSet
  <2>6. Inside(Seqs) = ToSet(s) \cup Others(Seqs, l) /\ Inside(T) = ToSet(t) \cup Others(Seqs, l)
    BY <1>1, <1>4, <2>1, OthersStay DEF s, t
  <2> QED
    BY <1>1, <2>5, <2>6
<1> QED
  BY <1>1, <1>3, <1>4, <1>5, RelinkInv DEF Relink

-----------------------------------------------------------------------------
(* The lists.                                                              *)

\* Every command keeps the invariant.
LEMMA ListNextInv ==
    ASSUME ListInv, [ListNext]_listVars
    PROVE  ListInv'
<1>1. CASE UNCHANGED listVars
  <2>1. links' = links /\ value' = value /\ live' = live /\ listInUse' = listInUse
    BY <1>1 DEF listVars
  <2>2. Used' = Used
    BY <2>1 DEF Used
  <2>3. Seqs' = Seqs
    BY <2>1, <2>2 DEF Seqs
  <2> QED
    BY <2>1, <2>3 DEF ListInv, ListTypeOK
<1>2. CASE ListNext
  <2>1. PICK l \in Lists :
          \/ CreateList(l)
          \/ \E d \in Data : \/ ListInsertOrdered(l, d)
                             \/ ListPushFront(l, d)
                             \/ ListPushBack(l, d)
                             \/ \E pos \in Positions : ListInsert(l, pos, d)
          \/ ListPopFront(l) \/ ListPopBack(l) \/ ListReverse(l) \/ ListSort(l)
          \/ ListShuffle(l)
          \/ \E dup \in Lists \cup {NoList} : ListUnique(l, dup)
          \/ \E pos \in Positions : ListRemove(l, pos)
          \/ \E p, q \in Positions : ListSwap(l, p, q)
          \/ \E org \in Lists, p, q, r \in Positions : ListSplice(l, org, p, q, r)
    BY <1>2 DEF ListNext
  <2>2. CASE CreateList(l)
    BY <2>2, CreateListInv
  <2>3. CASE \E d \in Data : \/ ListInsertOrdered(l, d)
                             \/ ListPushFront(l, d)
                             \/ ListPushBack(l, d)
                             \/ \E pos \in Positions : ListInsert(l, pos, d)
    <3>1. PICK d \in Data : \/ ListInsertOrdered(l, d)
                            \/ ListPushFront(l, d)
                            \/ ListPushBack(l, d)
                            \/ \E pos \in Positions : ListInsert(l, pos, d)
      BY <2>3
    <3> QED
      BY <3>1, AddItemsInv
  <2>4. CASE ListPopFront(l) \/ ListPopBack(l) \/ \E pos \in Positions : ListRemove(l, pos)
    BY <2>4, DropsInv
  <2>5. CASE ListReverse(l)
    BY <2>5, ReverseInv
  <2>6. CASE ListSort(l)
    BY <2>6, SortInv
  <2>7. CASE ListShuffle(l)
    BY <2>7, ShuffleInv
  <2>8. CASE \E dup \in Lists \cup {NoList} : ListUnique(l, dup)
    BY <2>8, UniqueInv
  <2>9. CASE \E p, q \in Positions : ListSwap(l, p, q)
    BY <2>9, SwapInv
  <2>10. CASE \E org \in Lists, p, q, r \in Positions : ListSplice(l, org, p, q, r)
    BY <2>10, SpliceInv
  <2> QED
    BY <2>1, <2>2, <2>3, <2>4, <2>5, <2>6, <2>7, <2>8, <2>9, <2>10
<1> QED
  BY <1>1, <1>2

\* The list commands keep the invariant: the memory holds the lists in use.
THEOREM ListInvariant == ListSpec => []ListInv
<1>1. ListInit => ListInv
  BY InvInit
<1>2. ListInv /\ [ListNext]_listVars => ListInv'
  BY ListNextInv
<1> QED
  BY <1>1, <1>2, PTL DEF ListSpec

\* Whatever the commands, the lists in use are linked both ways, share no
\* element, and have every live item and no other.
THEOREM ListLinksSound == ListSpec => []ListsSound
<1>1. ListInv => ListsSound
  BY InvSound
<1> QED
  BY <1>1, ListInvariant, PTL

\* What a loop over the list meets after list_reverse.
LEMMA ReverseWalk ==
    ASSUME NEW m, NEW S, Holds(m, S), NEW l \in DOMAIN S
    PROVE  Walk(list_reverse(m, l), l) = Reverse(S[l])
<1>1. Apart(S)
  BY HoldsIs
<1>2. Holds(list_reverse(m, l), Reversed(S, l)) /\ l \in DOMAIN Reversed(S, l)
      /\ Reversed(S, l)[l] = Reverse(S[l])
  BY <1>1, ReverseHolds, ReverseApart
<1> QED
  BY <1>2, WalkHolds

\* And after list_insert.
LEMMA InsertWalk ==
    ASSUME NEW m, NEW S, Holds(m, S), NEW l \in DOMAIN S, NEW k \in 0 .. Len(S[l]),
           NEW e \in Elems, \A x \in DOMAIN S : \A i \in 1 .. Len(S[x]) : S[x][i] # e
    PROVE  Walk(list_insert(m, At(m, l, k), e), l) = InsertAt(S[l], k + 1, e)
<1> DEFINE r == list_insert(m, Cell(S[l], l, k + 1), e)
           T == PutIn(S, l, k, <<e>>)
<1>1. Holds(r, T)
  BY InsertHolds
<1>2. l \in DOMAIN T /\ T[l] = Paste(S[l], k, <<e>>)
  BY DEF PutIn
<1>3. At(m, l, k) = Cell(S[l], l, k + 1)
  BY HoldsPlaces
<1>4. Walk(r, l) = T[l]
  <2> HIDE DEF r, T
  <2> QED
    BY <1>1, <1>2, WalkHolds
<1>5. Paste(S[l], k, <<e>>) = InsertAt(S[l], k + 1, e)
  <2>1. (k + 1) - 1 = k
    OBVIOUS
  <2> QED
    BY <2>1 DEF Paste, InsertAt
<1> QED
  BY <1>2, <1>3, <1>4, <1>5

\* And after list_remove.
LEMMA RemoveWalk ==
    ASSUME NEW m, NEW S, Holds(m, S), NEW l \in DOMAIN S, NEW k \in 1 .. Len(S[l])
    PROVE  Walk(list_remove(m, S[l][k]), l) = RemoveAt(S[l], k)
<1> DEFINE r == list_remove(m, S[l][k])
           T == CutOut(S, l, k - 1, k)
<1>1. Holds(r, T)
  BY RemoveHolds
<1>2. l \in DOMAIN T /\ T[l] = Cut(S[l], k - 1, k)
  BY DEF CutOut
<1>3. Walk(r, l) = T[l]
  <2> HIDE DEF r, T
  <2> QED
    BY <1>1, <1>2, WalkHolds
<1>4. Cut(S[l], k - 1, k) = RemoveAt(S[l], k)
  BY DEF Cut, RemoveAt
<1> QED
  BY <1>2, <1>3, <1>4

\* What list_splice should make of list l, and of the other list org.
Spliced(S, l, org, p, i, j) ==
    LET rest == SubSeq(S[org], 1, i) \o SubSeq(S[org], j + 1, Len(S[org]))
        q == IF l = org /\ p >= j THEN p - (j - i) ELSE p
        into == IF l = org THEN rest ELSE S[l]
    IN  SubSeq(into, 1, q) \o SubSeq(S[org], i + 1, j) \o SubSeq(into, q + 1, Len(into))

\* list_splice makes that of them.
SpliceDone(m, S, l, org, p, i, j) ==
    LET r == list_splice(m, At(m, l, p), At(m, org, i), At(m, org, j))
    IN  /\ Walk(r, l) = Spliced(S, l, org, p, i, j)
        /\ org # l => Walk(r, org) = SubSeq(S[org], 1, i) \o SubSeq(S[org], j + 1, Len(S[org]))

\* It does so of every memory that holds lists.
LEMMA SpliceWalk ==
    ASSUME NEW m, NEW S, Holds(m, S), NEW l \in DOMAIN S, NEW org \in DOMAIN S,
           NEW p \in 0 .. Len(S[l]), NEW i \in 0 .. Len(S[org]), NEW j \in 0 .. Len(S[org]),
           i <= j, l = org => p < i \/ p >= j
    PROVE  SpliceDone(m, S, l, org, p, i, j)
<1> DEFINE r == list_splice(m, Cell(S[l], l, p + 1), Cell(S[org], org, i + 1), Cell(S[org], org, j + 1))
           T == Relocated(S, l, org, p, i, j)
           q == IF l = org /\ p >= j THEN p - (j - i) ELSE p
<1>1. i \in 0 .. j
  OBVIOUS
<1>2. /\ Holds(r, T) /\ DOMAIN T = DOMAIN S
      /\ T[l] = Paste(CutOut(S, org, i, j)[l], q, SubSeq(S[org], i + 1, j))
      /\ l # org => T[org] = Cut(S[org], i, j)
  <2>1. Holds(m, S) /\ l \in DOMAIN S /\ org \in DOMAIN S /\ p \in 0 .. Len(S[l]) /\ j \in 0 .. Len(S[org])
        /\ i \in 0 .. j /\ (l = org => p < i \/ p >= j)
    BY <1>1
  <2>2. /\ Holds(list_splice(m, Cell(S[l], l, p + 1), Cell(S[org], org, i + 1), Cell(S[org], org, j + 1)),
                 Relocated(S, l, org, p, i, j))
        /\ DOMAIN Relocated(S, l, org, p, i, j) = DOMAIN S
        /\ \A x \in DOMAIN S \ {l, org} : Relocated(S, l, org, p, i, j)[x] = S[x]
        /\ Relocated(S, l, org, p, i, j)[l] =
              Paste(CutOut(S, org, i, j)[l], IF l = org /\ p >= j THEN p - (j - i) ELSE p, SubSeq(S[org], i + 1, j))
        /\ l # org => Relocated(S, l, org, p, i, j)[org] = Cut(S[org], i, j)
    <3> HIDE DEF r, T, q
    <3>1. RangeMoved(list_splice(m, Cell(S[l], l, p + 1), Cell(S[org], org, i + 1), Cell(S[org], org, j + 1)),
                     S, l, org, p, i, j)
      BY ONLY <2>1, SpliceIs
    <3> QED
      BY ONLY <3>1 DEF RangeMoved
  <2> HIDE DEF T
  <2> QED
    BY <2>2 DEF T
<1>3. At(m, l, p) = Cell(S[l], l, p + 1) /\ At(m, org, i) = Cell(S[org], org, i + 1)
      /\ At(m, org, j) = Cell(S[org], org, j + 1)
  BY HoldsPlaces
<1>4. CutOut(S, org, i, j)[l] = IF l = org THEN Cut(S[org], i, j) ELSE S[l]
  BY DEF CutOut
<1> HIDE DEF r, T
<1>5. Walk(r, l) = T[l] /\ Walk(r, org) = T[org]
  BY <1>2, WalkHolds
<1>6. T[l] = Spliced(S, l, org, p, i, j)
  BY <1>2, <1>4 DEF Spliced, Paste, Cut
<1>7. l # org => T[org] = SubSeq(S[org], 1, i) \o SubSeq(S[org], j + 1, Len(S[org]))
  BY <1>2 DEF Cut
<1> QED
  BY <1>3, <1>5, <1>6, <1>7 DEF r, SpliceDone

\* The part of MovesRight that is about list_splice.
SpliceRight(l, org, p, i, j) ==
    LET s == Walk(links, l)
        o == Walk(links, org)
        moved == SubSeq(o, i + 1, j)
        m == list_splice(links, At(links, l, p), At(links, org, i), At(links, org, j))
        rest == SubSeq(o, 1, i) \o SubSeq(o, j + 1, Len(o))
        q == IF l = org /\ p >= j THEN p - (j - i) ELSE p
        into == IF l = org THEN rest ELSE s
    IN  /\ Walk(m, l) = SubSeq(into, 1, q) \o moved \o SubSeq(into, q + 1, Len(into))
        /\ org # l => Walk(m, org) = rest

\* It follows from the invariant.
LEMMA InvSplices ==
    ASSUME ListInv, NEW l \in Used, NEW org \in Used, NEW p \in 0 .. Len(Walk(links, l)),
           NEW i \in 0 .. Size(org), NEW j \in 0 .. Size(org), i <= j, l = org => p < i \/ p >= j
    PROVE  SpliceRight(l, org, p, i, j)
<1> DEFINE S == Seqs
           m == list_splice(links, At(links, l, p), At(links, org, i), At(links, org, j))
           rest == SubSeq(S[org], 1, i) \o SubSeq(S[org], j + 1, Len(S[org]))
<1>1. /\ Holds(links, S) /\ l \in DOMAIN S /\ org \in DOMAIN S
      /\ Walk(links, l) = S[l] /\ Walk(links, org) = S[org] /\ Size(org) = Len(S[org])
  BY InvIs
<1>2. p \in 0 .. Len(S[l]) /\ i \in 0 .. Len(S[org]) /\ j \in 0 .. Len(S[org])
  BY <1>1
<1>3. Walk(m, l) = Spliced(S, l, org, p, i, j) /\ (org # l => Walk(m, org) = rest)
  <2>1. /\ Holds(links, S) /\ l \in DOMAIN S /\ org \in DOMAIN S /\ p \in 0 .. Len(S[l])
        /\ i \in 0 .. Len(S[org]) /\ j \in 0 .. Len(S[org]) /\ i <= j /\ (l = org => p < i \/ p >= j)
    BY <1>1, <1>2
  <2> HIDE DEF S
  <2> HIDE DEF m, rest
  <2>2. SpliceDone(links, S, l, org, p, i, j)
    BY ONLY <2>1, SpliceWalk
  <2> QED
    BY <2>2 DEF SpliceDone, m, rest
<1> HIDE DEF S, m
<1> QED
  BY <1>1, <1>3 DEF SpliceRight, Spliced, m

\* And with it all of MovesRight.
LEMMA InvMoves ==
    ASSUME ListInv
    PROVE  MovesRight
<1> DEFINE S == Seqs
<1>1. /\ Holds(links, S) /\ DOMAIN S = Used /\ \A l \in Used : Walk(links, l) = S[l] /\ Size(l) = Len(S[l])
      /\ \A e \in Elems \ live : \A x \in DOMAIN S : \A k \in 1 .. Len(S[x]) : S[x][k] # e
  BY InvIs
<1> HIDE DEF S
<1>3. ASSUME NEW l \in Used
      PROVE  LET s == Walk(links, l)
             IN  /\ Walk(list_reverse(links, l), l) = Reverse(s)
                 /\ \A k \in 0 .. Len(s), e \in Elems \ live :
                       Walk(list_insert(links, At(links, l, k), e), l) = InsertAt(s, k + 1, e)
                 /\ \A k \in DOMAIN s : Walk(list_remove(links, s[k]), l) = RemoveAt(s, k)
  <2>1. DOMAIN S[l] = 1 .. Len(S[l]) /\ Walk(links, l) = S[l]
    <3>1. S[l] \in Seq(Elems)
      BY <1>1, HoldsIs, CellIs
    <3> QED
      BY <1>1, <3>1
  <2>2. Walk(list_reverse(links, l), l) = Reverse(S[l])
    BY <1>1, ReverseWalk
  <2>3. \A k \in 0 .. Len(S[l]), e \in Elems \ live :
           Walk(list_insert(links, At(links, l, k), e), l) = InsertAt(S[l], k + 1, e)
    BY <1>1, InsertWalk
  <2>4. \A k \in DOMAIN S[l] : Walk(list_remove(links, S[l][k]), l) = RemoveAt(S[l], k)
    BY <1>1, <2>1, RemoveWalk
  <2> QED
    BY <2>1, <2>2, <2>3, <2>4
<1>4. \A l \in Used : \A org \in Used : \A p \in 0 .. Len(Walk(links, l)), i, j \in 0 .. Size(org) :
         i <= j /\ (l = org => p < i \/ p >= j) => SpliceRight(l, org, p, i, j)
  BY InvSplices
<1> QED
  BY Zenon, <1>3, <1>4 DEF MovesRight, SpliceRight

\* list_reverse, list_insert, list_remove and list_splice always do to the
\* sequences of elements what their names say.
THEOREM ListMovesRight == ListSpec => []MovesRight
<1>1. ListInv => MovesRight
  BY InvMoves
<1> QED
  BY <1>1, ListInvariant, PTL

-----------------------------------------------------------------------------
(* What the ordering functions do.                                         *)

\* Where an element is in a sequence that has every element once.
PlaceOf(s, e) == SelectInSeq(s, LAMBDA x : x = e)

\* No element is twice in s.
OneEach(s) == \A i, j \in 1 .. Len(s) : s[i] = s[j] => i = j

\* Then the place of an element is the one it is at.
LEMMA PlaceOfIs ==
    ASSUME NEW s, Len(s) \in Nat, OneEach(s), NEW k \in 1 .. Len(s)
    PROVE  PlaceOf(s, s[k]) = k
<1> DEFINE I == {i \in 1 .. Len(s) : s[i] = s[k]}
<1>1. I = {k}
  BY DEF OneEach
<1>2. PlaceOf(s, s[k]) = IF I # {} THEN Min(I) ELSE 0
  BY DEF PlaceOf, SelectInSeq
<1>3. k \in Int /\ I \in SUBSET Int /\ I # {} /\ IsFiniteSet(I)
  <2>1. k \in Int
    OBVIOUS
  <2> HIDE DEF I
  <2> QED
    BY <1>1, <2>1, FS_Singleton
<1> HIDE DEF I
<1>4. Min(I) \in I
  BY <1>3, MinOf
<1> QED
  BY <1>1, <1>2, <1>3, <1>4

\* The sequences of a memory are such.
LEMMA SeqOnce ==
    ASSUME NEW m, NEW S, Holds(m, S), NEW l \in DOMAIN S
    PROVE  S[l] \in Seq(Elems) /\ Len(S[l]) \in Nat /\ DOMAIN S[l] = 1 .. Len(S[l]) /\ OneEach(S[l])
<1>1. Apart(S)
  BY HoldsIs
<1>2. S[l] \in Seq(Elems) /\ Len(S[l]) \in Nat
  BY <1>1, CellIs
<1>3. OneEach(S[l])
  BY <1>1 DEF Apart, OneEach
<1> QED
  BY <1>2, <1>3

\* An arrangement has the same elements, and equals in the order they had.
LEMMA ArrangedMeans ==
    ASSUME NEW s \in Seq(Elems), NEW t \in Seq(Elems), OneEach(s), NEW d, Arranged(t, s, d)
    PROVE  /\ Len(t) = Len(s) /\ ToSet(t) = ToSet(s)
           /\ \A i, j \in 1 .. Len(t) : i < j /\ d[t[i]] = d[t[j]] => PlaceOf(s, t[i]) < PlaceOf(s, t[j])
<1> DEFINE N == 1 .. Len(s)
<1>1. Len(t) = Len(s) /\ Len(s) \in Nat /\ DOMAIN s = N /\ DOMAIN t = N
  BY DEF Arranged
<1>2. PICK w \in [N -> N] : Arranges(w, N, t, s, d)
  BY DEF Arranged
<1>3. /\ \A i \in N : t[i] = s[w[i]] /\ w[i] \in N
      /\ \A i, j \in N : i < j /\ d[t[i]] = d[t[j]] => w[i] < w[j]
      /\ \A k \in N : \E i \in N : w[i] = k
  BY <1>2 DEF Arranges
<1>4. \A i \in N : PlaceOf(s, t[i]) = w[i]
  BY <1>1, <1>3, PlaceOfIs
<1> HIDE DEF N
<1>5. ToSet(t) = ToSet(s)
  <2>1. ToSet(t) = {t[i] : i \in N} /\ ToSet(s) = {s[i] : i \in N}
    BY <1>1 DEF ToSet
  <2> QED
    BY <1>3, <2>1
<1>6. \A i, j \in N : i < j /\ d[t[i]] = d[t[j]] => PlaceOf(s, t[i]) < PlaceOf(s, t[j])
  BY <1>3, <1>4
<1> QED
  BY <1>1, <1>5, <1>6 DEF N

\* The part of OrderingRight that is about list_sort.
SortRight(l) ==
    LET s == Walk(links, l)
        t == Walk(list_sort(links, value, l), l)
    IN  /\ Len(t) = Len(s) /\ ToSet(t) = ToSet(s) /\ Sorted(t, value)
        /\ \A i, j \in DOMAIN t : i < j /\ value[t[i]] = value[t[j]] =>
               SelectInSeq(s, LAMBDA x : x = t[i]) < SelectInSeq(s, LAMBDA x : x = t[j])

\* It follows from the invariant.
LEMMA InvSorts ==
    ASSUME ListInv, NEW l \in Used
    PROVE  SortRight(l)
<1> DEFINE s == Walk(links, l)
           t == Walk(list_sort(links, value, l), l)
<1>1. /\ l \in DOMAIN Seqs /\ Holds(links, Seqs) /\ s = Seqs[l] /\ value \in [Elems -> Data]
  BY InvIs
<1>2. value \in [Elems -> Int]
  BY <1>1, ListConstants
<1>3. PICK T : Holds(list_sort(links, value, l), T) /\ SortedTo(T, Seqs, l, value)
  BY <1>1, <1>2, SortHolds
<1>4. t = T[l] /\ l \in DOMAIN T
  BY <1>1, <1>3, WalkHolds DEF SortedTo, ElseSame
<1> HIDE DEF s, t
<1>5. s \in Seq(Elems) /\ OneEach(s)
  BY <1>1, SeqOnce
<1>6. t \in Seq(Elems) /\ DOMAIN t = 1 .. Len(t)
  BY <1>3, <1>4, SeqOnce
<1>7. Arranged(t, s, value) /\ Rising(t, value, 1, Len(t))
  BY <1>1, <1>3, <1>4 DEF SortedTo
<1>8. /\ Len(t) = Len(s) /\ ToSet(t) = ToSet(s)
      /\ \A i, j \in 1 .. Len(t) : i < j /\ value[t[i]] = value[t[j]] => PlaceOf(s, t[i]) < PlaceOf(s, t[j])
  BY <1>5, <1>6, <1>7, ArrangedMeans
<1>9. Sorted(t, value)
  BY <1>6, <1>7 DEF Sorted, Rising
<1>10. \A i, j \in DOMAIN t : i < j /\ value[t[i]] = value[t[j]] =>
          SelectInSeq(s, LAMBDA x : x = t[i]) < SelectInSeq(s, LAMBDA x : x = t[j])
  <2>1. \A i, j \in DOMAIN t : i < j /\ value[t[i]] = value[t[j]] => PlaceOf(s, t[i]) < PlaceOf(s, t[j])
    BY <1>6, <1>8
  <2> QED
    BY <2>1 DEF PlaceOf, SelectInSeq
<1>11. Len(t) = Len(s) /\ ToSet(t) = ToSet(s) /\ Sorted(t, value)
  BY <1>8, <1>9
<1> QED
  BY Zenon, <1>10, <1>11 DEF SortRight, s, t

\* u is s with e put in at place p + 1.
PlacedBy(u, s, e, p) ==
    /\ u \in Seq(Elems) /\ Len(u) = Len(s) + 1 /\ PlaceOf(u, e) = p + 1 /\ RemoveAt(u, p + 1) = s
    /\ \A i \in 1 .. p : u[i] = s[i]
    /\ u[p + 1] = e
    /\ \A i \in p + 1 .. Len(s) : u[i + 1] = s[i]

\* A new element pasted into s is so placed.
LEMMA PutMeans ==
    ASSUME NEW s \in Seq(Elems), NEW e \in Elems, NEW p \in 0 .. Len(s), \A i \in 1 .. Len(s) : s[i] # e,
           OneEach(s)
    PROVE  PlacedBy(Paste(s, p, <<e>>), s, e, p)
<1> DEFINE u == Paste(s, p, <<e>>)
           n == Len(s)
<1>1. n \in Nat /\ <<e>> \in Seq(Elems) /\ Len(<<e>>) = 1 /\ <<e>>[1] = e /\ 1 \in 1 .. Len(<<e>>)
  OBVIOUS
<1>2. /\ u \in Seq(Elems) /\ Len(u) = n + Len(<<e>>)
      /\ \A i \in 1 .. p : u[i] = s[i]
      /\ \A i \in 1 .. Len(<<e>>) : u[p + i] = <<e>>[i]
      /\ \A i \in p + 1 .. n : u[i + Len(<<e>>)] = s[i]
  <2>1. s \in Seq(Elems) /\ <<e>> \in Seq(Elems) /\ p \in 0 .. Len(s)
    BY <1>1
  <2> DEFINE c == <<e>>
  <2> HIDE DEF c
  <2>2. /\ Paste(s, p, c) \in Seq(Elems) /\ Len(Paste(s, p, c)) = Len(s) + Len(c)
        /\ \A k \in 1 .. p : Paste(s, p, c)[k] = s[k]
        /\ \A k \in 1 .. Len(c) : Paste(s, p, c)[p + k] = c[k]
        /\ \A k \in p + 1 .. Len(s) : Paste(s, p, c)[k + Len(c)] = s[k]
    BY <2>1, PasteIs DEF c
  <2> QED
    BY <2>2 DEF c
<1> HIDE DEF u
<1>3. /\ Len(u) = n + 1 /\ u[p + 1] = e
      /\ \A i \in p + 1 .. n : u[i + 1] = s[i]
  BY <1>1, <1>2
<1>4. PlaceOf(u, e) = p + 1
  <2>1. \A i \in 1 .. n + 1 : i # p + 1 => u[i] # e
    <3> SUFFICES ASSUME NEW i \in 1 .. n + 1, i # p + 1 PROVE u[i] # e
      OBVIOUS
    <3> HIDE DEF n
    <3>1. CASE i < p + 1
      <4>1. i \in 1 .. p /\ i \in 1 .. n
        BY <1>1, <3>1 DEF n
      <4> QED
        BY <1>2, <4>1 DEF n
    <3>2. CASE i > p + 1
      <4>1. i - 1 \in p + 1 .. n /\ (i - 1) + 1 = i /\ i - 1 \in 1 .. n
        BY <1>1, <3>2 DEF n
      <4> QED
        BY <1>3, <4>1 DEF n
    <3> QED
      BY <1>1, <3>1, <3>2
  <2>2. p + 1 \in 1 .. n + 1
    BY <1>1
  <2> DEFINE I == {i \in 1 .. Len(u) : u[i] = e}
  <2>3. PlaceOf(u, e) = IF I # {} THEN Min(I) ELSE 0
    BY DEF PlaceOf, SelectInSeq
  <2>4. I = {p + 1} /\ p + 1 \in Int
    BY <1>3, <2>1, <2>2
  <2> HIDE DEF I
  <2>5. I \in SUBSET Int /\ I # {} /\ IsFiniteSet(I)
    BY <2>4, FS_Singleton
  <2>6. Min(I) \in I
    BY <2>5, MinOf
  <2> QED
    BY <2>3, <2>4, <2>5, <2>6
<1>5. RemoveAt(u, p + 1) = s
  <2> DEFINE j == p + 1
             c == Cut(u, p, j)
  <2>1. RemoveAt(u, j) = c
    <3>1. j - 1 = p
      OBVIOUS
    <3> QED
      BY <3>1 DEF RemoveAt, Cut
  <2>2. j \in 0 .. Len(u) /\ p \in 0 .. j /\ j - p = 1 /\ n + 1 - 1 = n
    BY <1>1, <1>3
  <2> HIDE DEF j
  <2>3. /\ c \in Seq(Elems) /\ Len(c) = Len(u) - (j - p)
        /\ \A k \in 1 .. p : c[k] = u[k]
        /\ \A k \in p + 1 .. Len(u) - (j - p) : c[k] = u[k + (j - p)]
    <3>1. u \in Seq(Elems) /\ j \in 0 .. Len(u) /\ p \in 0 .. j
      BY <1>2, <2>2
    <3>2. /\ Cut(u, p, j) \in Seq(Elems) /\ Len(Cut(u, p, j)) = Len(u) - (j - p)
          /\ \A k \in 1 .. p : Cut(u, p, j)[k] = u[k]
          /\ \A k \in p + 1 .. Len(u) - (j - p) : Cut(u, p, j)[k] = u[k + (j - p)]
      BY ONLY <3>1, CutIs
    <3> QED
      BY ONLY <3>2 DEF c
  <2> HIDE DEF c
  <2>4. Len(c) = Len(s)
    BY <1>3, <2>2, <2>3
  <2>5. ASSUME NEW k \in 1 .. Len(c) PROVE c[k] = s[k]
    <3>1. CASE k <= p
      <4>1. k \in 1 .. p
        BY <1>1, <3>1
      <4> QED
        BY <1>2, <2>3, <4>1
    <3>2. CASE ~(k <= p)
      <4>1. k \in p + 1 .. n /\ k + (j - p) = k + 1 /\ Len(u) - (j - p) = n
        BY <1>1, <1>3, <2>2, <2>4, <3>2
      <4> QED
        BY <1>3, <2>3, <4>1
    <3> QED
      BY <3>1, <3>2
  <2>6. c = s
    BY <2>3, <2>4, <2>5, SeqEqual
  <2> QED
    BY <2>1, <2>6 DEF j
<1> QED
  BY <1>2, <1>3, <1>4, <1>5 DEF PlacedBy, u

\* The part of OrderingRight that is about list_insert_ordered.
PutRight(l, e, x) ==
    LET s == Walk(links, l)
        d == [value EXCEPT ![e] = x]
        u == Walk(list_insert_ordered(links, d, l, e), l)
        k == SelectInSeq(u, LAMBDA y : y = e)
    IN  Sorted(s, value) =>
            /\ Sorted(u, d) /\ RemoveAt(u, k) = s
            /\ k < Len(u) => x < d[u[k + 1]]

\* It follows from the invariant: the loop stops at the first element that is
\* greater.
LEMMA InvPuts ==
    ASSUME ListInv, NEW l \in Used, NEW e \in Elems \ live, NEW x \in Data
    PROVE  PutRight(l, e, x)
<1> DEFINE s == Walk(links, l)
           d == [value EXCEPT ![e] = x]
           r == list_insert_ordered(links, d, l, e)
           u == Walk(r, l)
           n == Len(s)
<1>1. /\ l \in DOMAIN Seqs /\ Holds(links, Seqs) /\ s = Seqs[l] /\ value \in [Elems -> Data]
      /\ \A m \in DOMAIN Seqs : \A k \in 1 .. Len(Seqs[m]) : Seqs[m][k] # e
  BY InvIs
<1>2. d \in [Elems -> Int] /\ d[e] = x /\ \A c \in Elems : c # e => d[c] = value[c]
  BY <1>1, ListConstants
<1> HIDE DEF d
<1> HIDE DEF s
<1>3. s \in Seq(Elems) /\ n \in Nat /\ DOMAIN s = 1 .. n /\ OneEach(s) /\ \A i \in 1 .. n : s[i] # e
  BY <1>1, SeqOnce
<1>4. PICK p \in 0 .. n :
        /\ r = list_insert(links, Cell(s, l, p + 1), e)
        /\ \A k \in 1 .. p : ~less(d, e, s[k])
        /\ p < n => less(d, e, s[p + 1])
  BY <1>1, OrderedPlace
<1> DEFINE w == Paste(s, p, <<e>>)
<1>5. u = w
  <2> DEFINE T == PutIn(Seqs, l, p, <<e>>)
  <2>1. Holds(r, T)
    <3> HIDE DEF r
    <3>1. p \in 0 .. Len(Seqs[l]) /\ e \in Elems
      BY <1>1
    <3>2. Holds(list_insert(links, Cell(Seqs[l], l, p + 1), e), PutIn(Seqs, l, p, <<e>>))
      BY <1>1, <3>1, InsertHolds
    <3> QED
      BY <1>1, <1>4, <3>2
  <2>2. l \in DOMAIN T /\ T[l] = w
    BY <1>1 DEF PutIn
  <2> HIDE DEF T, r, w
  <2> QED
    BY <2>1, <2>2, WalkHolds
<1> HIDE DEF u, w
<1>6. /\ u \in Seq(Elems) /\ Len(u) = n + 1 /\ PlaceOf(u, e) = p + 1 /\ RemoveAt(u, p + 1) = s
      /\ \A i \in 1 .. p : u[i] = s[i]
      /\ u[p + 1] = e
      /\ \A i \in p + 1 .. n : u[i + 1] = s[i]
  <2>1. s \in Seq(Elems) /\ e \in Elems /\ p \in 0 .. Len(s) /\ (\A i \in 1 .. Len(s) : s[i] # e) /\ OneEach(s)
    BY <1>3
  <2>2. PlacedBy(Paste(s, p, <<e>>), s, e, p)
    BY ONLY <2>1, PutMeans
  <2> QED
    BY <1>5, <2>2 DEF PlacedBy, w
<1> SUFFICES ASSUME Sorted(s, value)
             PROVE  /\ Sorted(u, d) /\ RemoveAt(u, PlaceOf(u, e)) = s
                    /\ PlaceOf(u, e) < Len(u) => d[e] < d[u[PlaceOf(u, e) + 1]]
  BY <1>2 DEF PutRight, PlaceOf, SelectInSeq, s, u, d
<1>7. \A i, j \in 1 .. n : i < j => d[s[i]] <= d[s[j]]
  <2>1. \A i \in 1 .. n : d[s[i]] = value[s[i]]
    BY <1>2, <1>3, ElementOfSeq
  <2> QED
    BY <1>3, <2>1 DEF Sorted
<1>8. d[e] \in Int /\ \A i \in 1 .. n : d[s[i]] \in Int
  BY <1>2, <1>3, ElementOfSeq
<1> HIDE DEF n
<1>9. \A i \in 1 .. p : d[s[i]] <= d[e]
  <2> SUFFICES ASSUME NEW i \in 1 .. p PROVE d[s[i]] <= d[e]
    OBVIOUS
  <2>1. i \in 1 .. n /\ ~(d[e] < d[s[i]])
    BY <1>3, <1>4 DEF less
  <2> QED
    BY <1>8, <2>1
<1>10. p < n => d[e] < d[s[p + 1]]
  BY <1>4 DEF less
<1>11. \A i \in p + 1 .. n : d[e] < d[s[i]]
  <2> SUFFICES ASSUME NEW i \in p + 1 .. n PROVE d[e] < d[s[i]]
    OBVIOUS
  <2>1. p < n /\ p + 1 \in 1 .. n /\ i \in 1 .. n
    BY <1>3
  <2>2. i = p + 1 \/ p + 1 < i
    OBVIOUS
  <2>3. d[e] < d[s[p + 1]] /\ (i = p + 1 \/ d[s[p + 1]] <= d[s[i]])
    BY <1>7, <1>10, <2>1, <2>2
  <2> QED
    BY <1>8, <2>1, <2>3
<1>12. Sorted(u, d)
  <2>1. DOMAIN u = 1 .. n + 1
    BY <1>6
  <2> SUFFICES ASSUME NEW i \in 1 .. n + 1, NEW j \in 1 .. n + 1, i < j PROVE d[u[i]] <= d[u[j]]
    BY <2>1 DEF Sorted
  <2>2. \A k \in 1 .. n + 1 : k < p + 1 => k \in 1 .. p /\ k \in 1 .. n
    BY <1>3
  <2>3. \A k \in 1 .. n + 1 : k > p + 1 => k - 1 \in p + 1 .. n /\ k - 1 \in 1 .. n /\ (k - 1) + 1 = k
    BY <1>3
  <2>4. CASE j < p + 1
    <3>1. i \in 1 .. p /\ i \in 1 .. n /\ j \in 1 .. p /\ j \in 1 .. n
      BY <2>2, <2>4
    <3> QED
      BY <1>6, <1>7, <3>1
  <2>5. CASE j = p + 1
    <3>1. i \in 1 .. p
      BY <2>2, <2>5
    <3> QED
      BY <1>6, <1>9, <2>5, <3>1
  <2>6. CASE j > p + 1
    <3>1. u[j] = s[j - 1] /\ j - 1 \in 1 .. n /\ j - 1 \in p + 1 .. n
      BY <1>6, <2>3, <2>6
    <3>2. CASE i < p + 1
      <4>1. u[i] = s[i] /\ i \in 1 .. n
        BY <1>6, <2>2, <3>2
      <4>2. i < j - 1
        BY <3>2, <2>6
      <4> QED
        BY <1>7, <3>1, <4>1, <4>2
    <3>3. CASE i = p + 1
      <4>1. d[u[i]] < d[u[j]] /\ d[u[i]] \in Int /\ d[u[j]] \in Int
        BY <1>6, <1>8, <1>11, <3>1, <3>3
      <4> QED
        BY <4>1
    <3>4. CASE i > p + 1
      <4>1. u[i] = s[i - 1] /\ i - 1 \in 1 .. n
        BY <1>6, <2>3, <3>4
      <4>2. i - 1 < j - 1
        OBVIOUS
      <4> QED
        BY <1>7, <3>1, <4>1, <4>2
    <3> QED
      BY <3>2, <3>3, <3>4
  <2> QED
    BY <2>4, <2>5, <2>6
<1>13. PlaceOf(u, e) < Len(u) => d[e] < d[u[PlaceOf(u, e) + 1]]
  <2> SUFFICES ASSUME p + 1 < n + 1 PROVE d[e] < d[u[(p + 1) + 1]]
    BY <1>6
  <2>1. p + 1 \in p + 1 .. n
    BY <1>3
  <2> QED
    BY <1>6, <1>11, <2>1
<1> QED
  BY <1>6, <1>12, <1>13

\* The part of OrderingRight that is about list_unique.
WeedRight(l, dup) ==
    LET s == Walk(links, l)
        m == list_unique(links, value, l, dup)
        first == FirstOfRun(s)
    IN  /\ Walk(m, l) = Picked(s, first)
        /\ dup # NoList =>
               Walk(m, dup) = Walk(links, dup) \o Picked(s, [k \in DOMAIN s |-> ~first[k]])

\* It follows from the invariant.
LEMMA InvWeeds ==
    ASSUME ListInv, NEW l \in Used, NEW dup \in (Used \cup {NoList}) \ {l}
    PROVE  WeedRight(l, dup)
<1> DEFINE s == Walk(links, l)
           m == list_unique(links, value, l, dup)
           first == FirstOfRun(s)
           rest == [k \in DOMAIN s |-> ~first[k]]
<1>1. /\ l \in DOMAIN Seqs /\ Holds(links, Seqs) /\ s = Seqs[l] /\ value \in [Elems -> Data]
      /\ DOMAIN Seqs = Used /\ \A x \in Used : Walk(links, x) = Seqs[x]
  BY InvIs
<1>2. value \in [Elems -> Int]
  BY <1>1, ListConstants
<1> HIDE DEF s
<1>3. DOMAIN s = 1 .. Len(s)
  BY <1>1, SeqOnce
<1>4. Telling(first, rest, s, value)
  BY <1>3 DEF Telling, FirstOfRun
<1> HIDE DEF first, rest
<1>5. dup # l /\ (dup = NoList \/ dup \in DOMAIN Seqs)
  BY <1>1
<1>6. PICK T : UniqueDone(m, T, Seqs, l, dup, first, rest)
  <2> DEFINE S == Seqs
             d == value
             v == links
  <2>1. Holds(v, S) /\ l \in DOMAIN S /\ d \in [Elems -> Int] /\ dup # l /\ (dup = NoList \/ dup \in DOMAIN S)
        /\ Telling(first, rest, S[l], d)
    BY <1>1, <1>2, <1>4, <1>5
  <2> HIDE DEF S, d, v, m
  <2>2. \E T : UniqueDone(list_unique(v, d, l, dup), T, S, l, dup, first, rest)
    BY <2>1, UniqueHolds
  <2> QED
    BY <2>2 DEF S, d, v, m
<1>7. /\ Holds(m, T) /\ DOMAIN T = DOMAIN Seqs /\ T[l] = Picked(s, first)
      /\ dup # NoList => T[dup] = Seqs[dup] \o Picked(s, rest)
  BY <1>1, <1>6 DEF UniqueDone
<1> HIDE DEF m
<1>8. Walk(m, l) = Picked(s, first)
  BY <1>1, <1>7, WalkHolds
<1>9. dup # NoList => Walk(m, dup) = Walk(links, dup) \o Picked(s, rest)
  BY <1>1, <1>5, <1>7, WalkHolds
<1> QED
  BY Zenon, <1>8, <1>9 DEF WeedRight, s, m, first, rest

\* The loop of list_max (up), or of list_min, is at c, the first of the best of
\* the first k elements.
MostAt(c, s, d, up, k) ==
    \E j \in 1 .. Len(s) :
        /\ c = s[j] /\ (j <= k \/ j = 1)
        /\ \A i \in 1 .. k : IF up THEN d[s[i]] <= d[c] /\ (i < j => d[s[i]] < d[c])
                             ELSE d[s[i]] >= d[c] /\ (i < j => d[s[i]] > d[c])

\* What a round of the loop takes next.
MostRound(c, s, d, up, k) ==
    IF up THEN IF less(d, c, s[k]) THEN s[k] ELSE c ELSE IF less(d, s[k], c) THEN s[k] ELSE c

\* So it is at the first of the best of one more element.
LEMMA MostOn ==
    ASSUME NEW s \in Seq(Elems), NEW d \in [Elems -> Int], NEW up \in BOOLEAN, NEW k \in 1 .. Len(s), NEW c,
           MostAt(c, s, d, up, k - 1)
    PROVE  MostAt(MostRound(c, s, d, up, k), s, d, up, k)
<1>1. PICK j \in 1 .. Len(s) :
        /\ c = s[j] /\ (j <= k - 1 \/ j = 1)
        /\ \A i \in 1 .. k - 1 : IF up THEN d[s[i]] <= d[c] /\ (i < j => d[s[i]] < d[c])
                                 ELSE d[s[i]] >= d[c] /\ (i < j => d[s[i]] > d[c])
  BY DEF MostAt
<1> DEFINE n == Len(s)
           v == [i \in 1 .. n |-> d[s[i]]]
           r == MostRound(c, s, d, up, k)
           Best(j0) == \A i \in 1 .. k : IF up THEN v[i] <= v[j0] /\ (i < j0 => v[i] < v[j0])
                                         ELSE v[i] >= v[j0] /\ (i < j0 => v[i] > v[j0])
<1>2. n \in Nat /\ \A i \in 1 .. n : v[i] = d[s[i]] /\ v[i] \in Int
  BY ElementOfSeq
<1>3. k \in 1 .. n /\ j \in 1 .. n
  OBVIOUS
<1> HIDE DEF n, v
<1>4. \A i \in 1 .. k : i \in 1 .. n /\ (i = k \/ i \in 1 .. k - 1)
  BY <1>2, <1>3
<1>5. v[k] \in Int /\ v[j] \in Int /\ k \in Nat /\ j \in Nat /\ j <= k
  BY <1>1, <1>2, <1>3
<1>6. \A i \in 1 .. k - 1 : IF up THEN v[i] <= v[j] /\ (i < j => v[i] < v[j])
                            ELSE v[i] >= v[j] /\ (i < j => v[i] > v[j])
  BY <1>1, <1>2, <1>3, <1>4
<1>7. r = IF up THEN IF v[j] < v[k] THEN s[k] ELSE s[j] ELSE IF v[k] < v[j] THEN s[k] ELSE s[j]
  BY <1>1, <1>2, <1>3 DEF MostRound, less
<1> HIDE DEF r
<1>8. ASSUME NEW j0 \in 1 .. n, r = s[j0], j0 <= k, Best(j0) PROVE MostAt(r, s, d, up, k)
  <2>1. \A i \in 1 .. k : IF up THEN d[s[i]] <= d[r] /\ (i < j0 => d[s[i]] < d[r])
                          ELSE d[s[i]] >= d[r] /\ (i < j0 => d[s[i]] > d[r])
    BY <1>2, <1>4, <1>8
  <2> QED
    BY <1>8, <2>1 DEF MostAt, n
<1>9. CASE IF up THEN v[j] < v[k] ELSE v[k] < v[j]
  <2>1. r = s[k]
    BY <1>7, <1>9
  <2>2. Best(k)
    <3> SUFFICES ASSUME NEW i \in 1 .. k
                 PROVE  IF up THEN v[i] <= v[k] /\ (i < k => v[i] < v[k])
                        ELSE v[i] >= v[k] /\ (i < k => v[i] > v[k])
      OBVIOUS
    <3>1. v[i] \in Int
      BY <1>2, <1>4
    <3>2. CASE i = k
      BY <1>5, <3>2
    <3>3. CASE i # k
      <4>1. IF up THEN v[i] <= v[j] ELSE v[i] >= v[j]
        BY <1>4, <1>6, <3>3
      <4>2. v[i] \in Int /\ v[j] \in Int /\ v[k] \in Int
        BY <1>5, <3>1
      <4>3. CASE up
        BY ONLY <1>9, <4>1, <4>2, <4>3
      <4>4. CASE ~up
        BY ONLY <1>9, <4>1, <4>2, <4>4
      <4> QED
        BY ONLY <4>3, <4>4
    <3> QED
      BY <3>2, <3>3
  <2>3. k <= k
    BY <1>5
  <2> HIDE DEF Best
  <2> QED
    BY <1>3, <1>8, <2>1, <2>2, <2>3 DEF r
<1>10. CASE ~(IF up THEN v[j] < v[k] ELSE v[k] < v[j])
  <2>1. r = s[j]
    BY <1>7, <1>10
  <2>2. Best(j)
    <3> SUFFICES ASSUME NEW i \in 1 .. k
                 PROVE  IF up THEN v[i] <= v[j] /\ (i < j => v[i] < v[j])
                        ELSE v[i] >= v[j] /\ (i < j => v[i] > v[j])
      OBVIOUS
    <3>1. CASE i = k
      BY <1>5, <1>10, <3>1
    <3>2. CASE i # k
      BY <1>4, <1>6, <3>2
    <3> QED
      BY <3>1, <3>2
  <2> HIDE DEF Best
  <2> QED
    BY <1>3, <1>5, <1>8, <2>1, <2>2 DEF r
<1> QED
  BY <1>9, <1>10

\* list_max finds the first of the greatest.
LEMMA MaxHolds ==
    ASSUME NEW m, NEW S, Holds(m, S), NEW l \in DOMAIN S, NEW d \in [Elems -> Int], Len(S[l]) # 0
    PROVE  MostAt(list_max(m, d, l), S[l], d, TRUE, Len(S[l]))
<1> DEFINE s == Walk(m, l)
           x0 == list_begin(m, l)
           n == Len(s)
           I == [k \in 0 .. n |-> {c \in Elems : MostAt(c, s, d, TRUE, k)}]
           Round(c, k) == IF less(d, c, s[k]) THEN s[k] ELSE c
           g == [k \in 1 .. n |-> [c \in I[k - 1] |-> Round(c, k)]]
           after == CHOOSE h : h = [k \in 0 .. n |-> IF k = 0 THEN x0 ELSE Round(h[k - 1], k)]
<1>1. list_max(m, d, l) = after[n]
  BY Zenon DEF list_max, Loop
<1>2. s = S[l] /\ s \in Seq(Elems) /\ n \in Nat /\ n # 0
  BY WalkHolds, SeqOnce
<1>3. x0 = s[1] /\ 1 \in 1 .. n
  <2>1. Apart(S) /\ x0 = Cell(S[l], l, 1) /\ 1 \in 1 .. Len(S[l])
    BY <1>2, HoldsIs, HoldsPlaces
  <2> HIDE DEF x0, s
  <2> QED
    BY <1>2, <2>1, CellIs
<1> HIDE DEF s, n, x0
<1>4. \A c, k : MostAt(c, s, d, TRUE, k) => c \in Elems
  <2> SUFFICES ASSUME NEW c, NEW k, MostAt(c, s, d, TRUE, k) PROVE c \in Elems
    OBVIOUS
  <2>1. PICK j \in 1 .. Len(s) : c = s[j]
    BY DEF MostAt
  <2> QED
    BY <1>2, <2>1, ElementOfSeq
<1>5. x0 \in I[0]
  <2>1. 0 \in 0 .. n
    BY <1>2
  <2>2. MostAt(x0, s, d, TRUE, 0)
    BY <1>3 DEF MostAt, n
  <2> QED
    BY <1>4, <2>1, <2>2
<1>6. ASSUME NEW k \in 1 .. n, NEW c \in I[k - 1] PROVE Round(c, k) \in I[k]
  <2>1. k - 1 \in 0 .. n /\ k \in 0 .. n /\ k \in 1 .. Len(s)
    BY <1>2 DEF n
  <2>2. MostAt(c, s, d, TRUE, k - 1)
    BY <2>1
  <2>3. Round(c, k) = MostRound(c, s, d, TRUE, k)
    BY DEF MostRound
  <2> HIDE DEF I, Round
  <2>4. MostAt(Round(c, k), s, d, TRUE, k)
    BY <1>2, <2>1, <2>2, <2>3, MostOn
  <2> QED
    BY <1>4, <2>1, <2>4 DEF I
<1>7. \A k \in 1 .. n : k - 1 \in 0 .. n /\ \A c0 \in I[k - 1] : g[k][c0] = Round(c0, k) /\ g[k][c0] \in I[k]
  <2>1. \A k \in 1 .. n : k - 1 \in 0 .. n
    BY <1>2
  <2> HIDE DEF Round, n, I
  <2>2. \A k \in 1 .. n : \A c0 \in I[k - 1] : g[k][c0] = Round(c0, k)
    OBVIOUS
  <2> HIDE DEF g
  <2> QED
    BY <2>1, <2>2, <1>6
<1> HIDE DEF g, I, Round, n
<1>8. \E f : f = [k \in 0 .. n |-> IF k = 0 THEN x0 ELSE Round(f[k - 1], k)]
  <2>1. PICK f : Turns(f, n, x0, g, I)
    BY <1>2, <1>5, <1>7, LoopRuns
  <2>2. /\ f = [k \in 0 .. n |-> IF k = 0 THEN x0 ELSE g[k][f[k - 1]]]
        /\ \A k \in 0 .. n : f[k] \in I[k]
    BY <2>1 DEF Turns
  <2>3. \A k \in 1 .. n : g[k][f[k - 1]] = Round(f[k - 1], k)
    BY <1>7, <2>2
  <2>4. \A k \in 0 .. n : k = 0 \/ k \in 1 .. n
    BY <1>2
  <2>5. \A k \in 0 .. n : (IF k = 0 THEN x0 ELSE g[k][f[k - 1]]) = IF k = 0 THEN x0 ELSE Round(f[k - 1], k)
    BY <2>3, <2>4
  <2>6. f = [k \in 0 .. n |-> IF k = 0 THEN x0 ELSE Round(f[k - 1], k)]
    BY <2>2, <2>5
  <2> QED
    BY <2>6
<1>9. after = [k \in 0 .. n |-> IF k = 0 THEN x0 ELSE Round(after[k - 1], k)]
  BY <1>8
<1> HIDE DEF after
<1>10. \A k \in 0 .. n : after[k] \in I[k]
  <2>1. after[0] \in I[0]
    BY <1>2, <1>5, <1>9
  <2>2. \A k \in 1 .. n : after[k - 1] \in I[k - 1] => after[k] \in I[k]
    <3> SUFFICES ASSUME NEW k \in 1 .. n, after[k - 1] \in I[k - 1] PROVE after[k] \in I[k]
      OBVIOUS
    <3>1. k \in 0 .. n /\ k # 0
      BY <1>2
    <3>2. after[k] = Round(after[k - 1], k)
      BY <1>9, <3>1
    <3> QED
      BY <1>7, <3>2
  <2> QED
    BY <1>2, <2>1, <2>2, LoopStays
<1>11. after[n] \in I[n] /\ n \in 0 .. n
  BY <1>2, <1>10
<1>12. MostAt(after[n], s, d, TRUE, n)
  BY <1>11 DEF I
<1> QED
  BY <1>1, <1>2, <1>12 DEF n

\* list_min finds the first of the least.
LEMMA MinHolds ==
    ASSUME NEW m, NEW S, Holds(m, S), NEW l \in DOMAIN S, NEW d \in [Elems -> Int], Len(S[l]) # 0
    PROVE  MostAt(list_min(m, d, l), S[l], d, FALSE, Len(S[l]))
<1> DEFINE s == Walk(m, l)
           x0 == list_begin(m, l)
           n == Len(s)
           I == [k \in 0 .. n |-> {c \in Elems : MostAt(c, s, d, FALSE, k)}]
           Round(c, k) == IF less(d, s[k], c) THEN s[k] ELSE c
           g == [k \in 1 .. n |-> [c \in I[k - 1] |-> Round(c, k)]]
           after == CHOOSE h : h = [k \in 0 .. n |-> IF k = 0 THEN x0 ELSE Round(h[k - 1], k)]
<1>1. list_min(m, d, l) = after[n]
  BY Zenon DEF list_min, Loop
<1>2. s = S[l] /\ s \in Seq(Elems) /\ n \in Nat /\ n # 0
  BY WalkHolds, SeqOnce
<1>3. x0 = s[1] /\ 1 \in 1 .. n
  <2>1. Apart(S) /\ x0 = Cell(S[l], l, 1) /\ 1 \in 1 .. Len(S[l])
    BY <1>2, HoldsIs, HoldsPlaces
  <2> HIDE DEF x0, s
  <2> QED
    BY <1>2, <2>1, CellIs
<1> HIDE DEF s, n, x0
<1>4. \A c, k : MostAt(c, s, d, FALSE, k) => c \in Elems
  <2> SUFFICES ASSUME NEW c, NEW k, MostAt(c, s, d, FALSE, k) PROVE c \in Elems
    OBVIOUS
  <2>1. PICK j \in 1 .. Len(s) : c = s[j]
    BY DEF MostAt
  <2> QED
    BY <1>2, <2>1, ElementOfSeq
<1>5. x0 \in I[0]
  <2>1. 0 \in 0 .. n
    BY <1>2
  <2>2. MostAt(x0, s, d, FALSE, 0)
    BY <1>3 DEF MostAt, n
  <2> QED
    BY <1>4, <2>1, <2>2
<1>6. ASSUME NEW k \in 1 .. n, NEW c \in I[k - 1] PROVE Round(c, k) \in I[k]
  <2>1. k - 1 \in 0 .. n /\ k \in 0 .. n /\ k \in 1 .. Len(s)
    BY <1>2 DEF n
  <2>2. MostAt(c, s, d, FALSE, k - 1)
    BY <2>1
  <2>3. Round(c, k) = MostRound(c, s, d, FALSE, k)
    BY DEF MostRound
  <2> HIDE DEF I, Round
  <2>4. MostAt(Round(c, k), s, d, FALSE, k)
    BY <1>2, <2>1, <2>2, <2>3, MostOn
  <2> QED
    BY <1>4, <2>1, <2>4 DEF I
<1>7. \A k \in 1 .. n : k - 1 \in 0 .. n /\ \A c0 \in I[k - 1] : g[k][c0] = Round(c0, k) /\ g[k][c0] \in I[k]
  <2>1. \A k \in 1 .. n : k - 1 \in 0 .. n
    BY <1>2
  <2> HIDE DEF Round, n, I
  <2>2. \A k \in 1 .. n : \A c0 \in I[k - 1] : g[k][c0] = Round(c0, k)
    OBVIOUS
  <2> HIDE DEF g
  <2> QED
    BY <2>1, <2>2, <1>6
<1> HIDE DEF g, I, Round, n
<1>8. \E f : f = [k \in 0 .. n |-> IF k = 0 THEN x0 ELSE Round(f[k - 1], k)]
  <2>1. PICK f : Turns(f, n, x0, g, I)
    BY <1>2, <1>5, <1>7, LoopRuns
  <2>2. /\ f = [k \in 0 .. n |-> IF k = 0 THEN x0 ELSE g[k][f[k - 1]]]
        /\ \A k \in 0 .. n : f[k] \in I[k]
    BY <2>1 DEF Turns
  <2>3. \A k \in 1 .. n : g[k][f[k - 1]] = Round(f[k - 1], k)
    BY <1>7, <2>2
  <2>4. \A k \in 0 .. n : k = 0 \/ k \in 1 .. n
    BY <1>2
  <2>5. \A k \in 0 .. n : (IF k = 0 THEN x0 ELSE g[k][f[k - 1]]) = IF k = 0 THEN x0 ELSE Round(f[k - 1], k)
    BY <2>3, <2>4
  <2>6. f = [k \in 0 .. n |-> IF k = 0 THEN x0 ELSE Round(f[k - 1], k)]
    BY <2>2, <2>5
  <2> QED
    BY <2>6
<1>9. after = [k \in 0 .. n |-> IF k = 0 THEN x0 ELSE Round(after[k - 1], k)]
  BY <1>8
<1> HIDE DEF after
<1>10. \A k \in 0 .. n : after[k] \in I[k]
  <2>1. after[0] \in I[0]
    BY <1>2, <1>5, <1>9
  <2>2. \A k \in 1 .. n : after[k - 1] \in I[k - 1] => after[k] \in I[k]
    <3> SUFFICES ASSUME NEW k \in 1 .. n, after[k - 1] \in I[k - 1] PROVE after[k] \in I[k]
      OBVIOUS
    <3>1. k \in 0 .. n /\ k # 0
      BY <1>2
    <3>2. after[k] = Round(after[k - 1], k)
      BY <1>9, <3>1
    <3> QED
      BY <1>7, <3>2
  <2> QED
    BY <1>2, <2>1, <2>2, LoopStays
<1>11. after[n] \in I[n] /\ n \in 0 .. n
  BY <1>2, <1>10
<1>12. MostAt(after[n], s, d, FALSE, n)
  BY <1>11 DEF I
<1> QED
  BY <1>1, <1>2, <1>12 DEF n

\* The part of OrderingRight that is about list_max and list_min.
MostRight(l, k) ==
    LET s == Walk(links, l)
        max == SelectInSeq(s, LAMBDA x : x = list_max(links, value, l))
        min == SelectInSeq(s, LAMBDA x : x = list_min(links, value, l))
    IN  /\ value[s[k]] <= value[s[max]] /\ (k < max => value[s[k]] < value[s[max]])
        /\ value[s[k]] >= value[s[min]] /\ (k < min => value[s[k]] > value[s[min]])

\* It follows from the invariant.
LEMMA InvMosts ==
    ASSUME ListInv, NEW l \in Used, NEW k \in DOMAIN Walk(links, l)
    PROVE  MostRight(l, k)
<1> DEFINE s == Walk(links, l)
           a == list_max(links, value, l)
           b == list_min(links, value, l)
<1>1. /\ l \in DOMAIN Seqs /\ Holds(links, Seqs) /\ s = Seqs[l] /\ value \in [Elems -> Data]
  BY InvIs
<1>2. value \in [Elems -> Int]
  BY <1>1, ListConstants
<1>3. k \in DOMAIN s
  OBVIOUS
<1> HIDE DEF s
<1>4. Len(s) \in Nat /\ DOMAIN s = 1 .. Len(s) /\ OneEach(s)
  BY <1>1, SeqOnce
<1>5. Len(s) # 0 /\ k \in 1 .. Len(s)
  BY <1>3, <1>4
<1>6. MostAt(a, s, value, TRUE, Len(s)) /\ MostAt(b, s, value, FALSE, Len(s))
  BY <1>1, <1>2, <1>5, MaxHolds, MinHolds
<1> HIDE DEF a, b
<1>7. PICK i \in 1 .. Len(s) : a = s[i] /\ value[s[k]] <= value[a] /\ (k < i => value[s[k]] < value[a])
  BY <1>5, <1>6 DEF MostAt
<1>8. PICK j \in 1 .. Len(s) : b = s[j] /\ value[s[k]] >= value[b] /\ (k < j => value[s[k]] > value[b])
  BY <1>5, <1>6 DEF MostAt
<1>9. PlaceOf(s, a) = i /\ PlaceOf(s, b) = j
  BY <1>4, <1>7, <1>8, PlaceOfIs
<1>10. /\ value[s[k]] <= value[s[PlaceOf(s, a)]] /\ (k < PlaceOf(s, a) => value[s[k]] < value[s[PlaceOf(s, a)]])
       /\ value[s[k]] >= value[s[PlaceOf(s, b)]] /\ (k < PlaceOf(s, b) => value[s[k]] > value[s[PlaceOf(s, b)]])
  BY <1>7, <1>8, <1>9
<1> QED
  BY <1>10 DEF MostRight, PlaceOf, SelectInSeq, s, a, b

\* And so all of OrderingRight.
LEMMA InvOrders ==
    ASSUME ListInv
    PROVE  OrderingRight
<1>1. \A l \in Used : SortRight(l)
  BY InvSorts
<1>2. \A l \in Used : \A e \in Elems \ live, x \in Data : PutRight(l, e, x)
  BY InvPuts
<1>3. \A l \in Used : \A dup \in (Used \cup {NoList}) \ {l} : WeedRight(l, dup)
  BY InvWeeds
<1>4. \A l \in Used : \A k \in DOMAIN Walk(links, l) : MostRight(l, k)
  BY InvMosts
<1> QED
  BY Zenon, <1>1, <1>2, <1>3, <1>4 DEF OrderingRight, SortRight, PutRight, WeedRight, MostRight

\* list_sort always sorts and keeps the order of equals, list_insert_ordered
\* puts an element of any data after its equals, list_unique keeps the first
\* of each run and hands the others over, and list_max and list_min find the
\* first of the greatest and of the least.
THEOREM ListOrderingRight == ListSpec => []OrderingRight
<1>1. ListInv => OrderingRight
  BY InvOrders
<1> QED
  BY <1>1, ListInvariant, PTL

-----------------------------------------------------------------------------
(* A bitmap, for words of every size.                                      *)

(* DIV_ROUND_UP rounds up: the words of n bits have room for n bits.       *)
LEMMA RoomForBits ==
    ASSUME NEW n \in Nat
    PROVE  elem_cnt(n) \in Nat /\ 0 .. n - 1 \subseteq Stored(n)
<1>1. ElemBits \in Nat /\ ElemBits > 0
    BY SizesOK
<1>2. n + ElemBits - 1 \in Nat
    BY <1>1
<1>3. elem_cnt(n) \in Nat
    BY <1>1, <1>2, SMT DEF elem_cnt
<1>4. n <= ElemBits * elem_cnt(n)
    BY <1>1, <1>2, SMT DEF elem_cnt
<1> QED
    BY <1>1, <1>3, <1>4 DEF Stored

(* A group that bitmap_scan finds lies within the bitmap.                  *)
LEMMA GroupsInside ==
    ASSUME BitmapTypeOK, NEW start \in Nat, NEW cnt \in Nat, NEW v \in BOOLEAN,
           NEW idx \in Groups(start, cnt, v)
    PROVE  idx \in Nat /\ idx + cnt <= bit_cnt
BY DEF BitmapTypeOK, Groups

(* The inductive invariant.                                                *)
BitmapInv == BitmapTypeOK /\ LowBitsExact

(* Setting a range keeps every reached bit as asked for, inside the range  *)
(* and outside.                                                            *)
LEMMA MultipleExact ==
    ASSUME BitmapInv, NEW start \in Nat, NEW cnt \in Nat, NEW v \in BOOLEAN,
           Change(bitmap_set_multiple(bits, start, cnt, v), AskMultiple(start, cnt, v))
    PROVE  BitmapInv'
<1>1. bit_cnt \in Nat /\ bit_cnt' = bit_cnt /\ bit_cnt \in 0 .. MaxBits
    BY SizesOK DEF Change, BitmapInv, BitmapTypeOK
<1>2. 0 .. bit_cnt - 1 \subseteq Stored(bit_cnt)
    BY <1>1, RoomForBits
<1>3. BitmapTypeOK'
    BY <1>1 DEF Change, BitmapInv, BitmapTypeOK, bitmap_set_multiple, AskMultiple
<1>4. LowBitsExact'
    BY <1>1, <1>2 DEF Change, BitmapInv, BitmapTypeOK, LowBitsExact, bitmap_set_multiple,
       AskMultiple
<1> QED
    BY <1>3, <1>4 DEF BitmapInv

(* The words of a new bitmap: of the right length, the reached bits off.   *)
LEMMA CreatedClear ==
    ASSUME NEW n \in Nat, NEW b \in bitmap_create(n)
    PROVE  /\ b \in [Stored(n) -> BOOLEAN]
           /\ \A i \in 0 .. n - 1 : Reached(i) => b[i] = FALSE
<1>1. PICK garbage \in [Stored(n) -> BOOLEAN] : b = bitmap_set_multiple(garbage, 0, n, FALSE)
    BY DEF bitmap_create
<1>2. 0 .. n - 1 \subseteq Stored(n)
    BY RoomForBits
<1>3. b = [i \in Stored(n) |-> IF i \in 0 .. n - 1 /\ Reached(i) THEN FALSE ELSE garbage[i]]
    <2>1. DOMAIN garbage = Stored(n) /\ 0 + n - 1 = n - 1
        BY <1>1
    <2> QED
        BY <1>1, <2>1 DEF bitmap_set_multiple
<1>4. b \in [Stored(n) -> BOOLEAN]
    BY <1>1, <1>3
<1>5. ASSUME NEW i \in 0 .. n - 1, Reached(i)
      PROVE  b[i] = FALSE
    BY <1>2, <1>3, <1>5
<1> QED
    BY <1>4, <1>5

(* Every call keeps the invariant: the creation of a bitmap, a change of   *)
(* bits, and the growth that copies the words.                             *)
LEMMA BitmapStep ==
    ASSUME BitmapInv, [BitmapNext]_bitmapVars
    PROVE  BitmapInv'
<1> USE SizesOK
<1>0. /\ bit_cnt \in Nat /\ bit_cnt \in 0 .. MaxBits
      /\ 0 .. bit_cnt - 1 \subseteq Stored(bit_cnt)
    BY RoomForBits DEF BitmapInv, BitmapTypeOK
<1>1. ASSUME NEW n \in 0 .. MaxBits, CreateBitmap(n)
      PROVE  BitmapInv'
    <2>1. bits' \in [Stored(n) -> BOOLEAN] /\ \A i \in 0 .. n - 1 : Reached(i) => bits'[i] = FALSE
        <3>1. n \in Nat /\ bits' \in bitmap_create(n)
            BY <1>1 DEF CreateBitmap
        <3> QED
            BY <3>1, CreatedClear
    <2> QED
        BY <1>1, <2>1 DEF CreateBitmap, BitmapInv, BitmapTypeOK, LowBitsExact
<1>2. ASSUME NEW i \in 0 .. MaxBits, BitmapFlip(i)
      PROVE  BitmapInv'
    <2>1. BitmapTypeOK'
        BY <1>0, <1>2 DEF BitmapFlip, Change, bitmap_flip, BitmapInv, BitmapTypeOK
    <2>2. LowBitsExact'
        BY <1>0, <1>2 DEF BitmapFlip, Change, bitmap_flip, BitmapInv, BitmapTypeOK, LowBitsExact
    <2> QED
        BY <2>1, <2>2 DEF BitmapInv
<1>3. ASSUME NEW i \in 0 .. MaxBits, NEW v \in BOOLEAN, BitmapSet(i, v)
      PROVE  BitmapInv'
    <2>1. BitmapTypeOK'
        BY <1>0, <1>3 DEF BitmapSet, Change, bitmap_set, BitmapInv, BitmapTypeOK
    <2>2. LowBitsExact'
        BY <1>0, <1>3 DEF BitmapSet, Change, bitmap_set, BitmapInv, BitmapTypeOK, LowBitsExact
    <2> QED
        BY <2>1, <2>2 DEF BitmapInv
<1>4. ASSUME NEW start \in 0 .. MaxBits, NEW cnt \in 0 .. MaxBits, NEW v \in BOOLEAN,
             BitmapSetMultiple(start, cnt, v)
      PROVE  BitmapInv'
    BY <1>4, MultipleExact DEF BitmapSetMultiple
<1>5. ASSUME NEW start \in 0 .. MaxBits, NEW cnt \in 0 .. MaxBits, NEW v \in BOOLEAN,
             BitmapScanAndFlip(start, cnt, v)
      PROVE  BitmapInv'
    <2>1. PICK idx \in Groups(start, cnt, v) :
              Change(bitmap_set_multiple(bits, idx, cnt, ~v), AskMultiple(idx, cnt, ~v))
        BY <1>5 DEF BitmapScanAndFlip
    <2>2. idx \in Nat
        BY <2>1, GroupsInside DEF BitmapInv
    <2>3. cnt \in Nat /\ (~v) \in BOOLEAN
        BY <1>5
    <2> QED
        BY <2>1, <2>2, <2>3, MultipleExact
<1>6. ASSUME NEW n \in 0 .. MaxBits - bit_cnt, BitmapExpand(n)
      PROVE  BitmapInv'
    <2>1. bit_cnt' \in Nat /\ bit_cnt' \in 0 .. MaxBits /\ bit_cnt' = bit_cnt + n
        BY <1>0, <1>6 DEF BitmapExpand
    <2>2. PICK new \in bitmap_create(bit_cnt') :
              bits' = [i \in DOMAIN new |->
                          IF i < bit_cnt /\ Reached(i) THEN bits[i] ELSE new[i]]
        BY <1>6 DEF BitmapExpand
    <2>3. /\ new \in [Stored(bit_cnt') -> BOOLEAN]
          /\ \A i \in 0 .. bit_cnt' - 1 : Reached(i) => new[i] = FALSE
        BY <2>1, <2>2, CreatedClear
    <2>4. 0 .. bit_cnt' - 1 \subseteq Stored(bit_cnt')
        BY <2>1, RoomForBits
    <2>5. \A i \in Stored(bit_cnt') : i \in Int /\ i >= 0
        BY DEF Stored
    <2>6. ASSUME NEW i \in Stored(bit_cnt'), i < bit_cnt
          PROVE  i \in 0 .. bit_cnt - 1 /\ bits[i] \in BOOLEAN
        BY <1>0, <2>5, <2>6 DEF BitmapInv, BitmapTypeOK
    <2>7. bits' \in [Stored(bit_cnt') -> BOOLEAN]
        BY <2>2, <2>3, <2>6
    <2>8. asked' \in [0 .. bit_cnt' - 1 -> BOOLEAN]
        <3>1. asked' = [i \in 0 .. bit_cnt' - 1 |-> IF i < bit_cnt THEN asked[i] ELSE FALSE]
            BY <1>6 DEF BitmapExpand
        <3>2. ASSUME NEW i \in 0 .. bit_cnt' - 1, i < bit_cnt
              PROVE  asked[i] \in BOOLEAN
            BY <1>0, <2>1, <3>2 DEF BitmapInv, BitmapTypeOK
        <3> QED
            BY <3>1, <3>2
    <2>9. ASSUME NEW i \in 0 .. bit_cnt' - 1, Reached(i)
          PROVE  bits'[i] = asked'[i]
        <3>1. i \in Stored(bit_cnt') /\ i \in DOMAIN new
            BY <2>3, <2>4
        <3>2. asked'[i] = IF i < bit_cnt THEN asked[i] ELSE FALSE
            BY <1>6 DEF BitmapExpand
        <3>3. bits'[i] = IF i < bit_cnt THEN bits[i] ELSE FALSE
            BY <2>2, <2>3, <2>9, <3>1
        <3>4. i < bit_cnt => bits[i] = asked[i]
            BY <2>6, <2>9, <3>1 DEF BitmapInv, LowBitsExact
        <3> QED
            BY <3>2, <3>3, <3>4
    <2>10. bitmapInUse' \in BOOLEAN
        BY <1>6 DEF BitmapExpand, BitmapInv, BitmapTypeOK
    <2> QED
        BY <2>1, <2>7, <2>8, <2>9, <2>10 DEF BitmapInv, BitmapTypeOK, LowBitsExact
<1>7. CASE UNCHANGED bitmapVars
    BY <1>7 DEF bitmapVars, BitmapInv, BitmapTypeOK, LowBitsExact
<1> QED
    BY <1>1, <1>2, <1>3, <1>4, <1>5, <1>6, <1>7 DEF BitmapNext

(* Before a bitmap is created there is one of no bits.                     *)
LEMMA BitmapInitInv ==
    ASSUME BitmapInit
    PROVE  BitmapInv
<1>1. bit_cnt = 0 /\ bit_cnt \in 0 .. MaxBits /\ bit_cnt - 1 = -1
    BY SizesOK DEF BitmapInit
<1>2. BitmapTypeOK
    BY <1>1 DEF BitmapInit, BitmapTypeOK
<1>3. LowBitsExact
    BY <1>1 DEF LowBitsExact
<1> QED
    BY <1>2, <1>3 DEF BitmapInv

(* So it always holds.                                                     *)
LEMMA BitmapInvHolds == BitmapSpec => []BitmapInv
<1>1. BitmapInit => BitmapInv
    BY BitmapInitInv
<1>2. BitmapInv /\ [BitmapNext]_bitmapVars => BitmapInv'
    BY BitmapStep
<1> QED
    BY <1>1, <1>2, PTL DEF BitmapSpec

(* Type correctness: bit_cnt bits are asked for, in as many words as they  *)
(* need, whatever bitmaps are created and expanded.                        *)
THEOREM BitmapTyped == BitmapSpec => []BitmapTypeOK
BY BitmapInvHolds, PTL DEF BitmapInv

(* For every width of word and every reach of the instructions, a bit that *)
(* they reach is what the calls of bitmap.c have made of it.               *)
THEOREM LowBitsRight == BitmapSpec => []LowBitsExact
BY BitmapInvHolds, PTL DEF BitmapInv

-----------------------------------------------------------------------------
(* A table whose memory has all been given to free(), as at the end of the *)
(* program.                                                                *)

\* A walk from a head that leads nowhere is empty.
LEMMA WalkNull ==
    ASSUME NEW m, NEW l, m.next[ListHead(l)] = Null, Cardinality(DOMAIN m.next) \in Nat
    PROVE  Walk(m, l) = << >>
<1> DEFINE most == Cardinality(DOMAIN m.next)
           Over(e) == e \in {Null, list_end(l)}
           Onward(e) == IF Over(e) THEN e ELSE m.next[e]
           pos == CHOOSE p : p = [k \in 0 .. most |->
                                     IF k = 0 THEN list_begin(m, l) ELSE Onward(p[k - 1])]
           Stops(k) == /\ Over(pos[k]) \/ k = most
                       /\ k = 0 \/ ~Over(pos[k - 1])
           len == CHOOSE k \in 0 .. most : Stops(k)
           f == [k \in 0 .. most |-> Null]
<1>1. Walk(m, l) = [k \in 1 .. len |-> pos[k - 1]]
  BY Zenon DEF Walk
<1>2. most \in Nat /\ list_begin(m, l) = Null /\ Over(Null)
  BY DEF list_begin
<1> HIDE DEF most
<1>3. \A k \in 0 .. most : k # 0 => k - 1 \in 0 .. most
  BY <1>2
<1>4. f = [k \in 0 .. most |-> IF k = 0 THEN list_begin(m, l) ELSE Onward(f[k - 1])]
  BY <1>2, <1>3
<1>5. pos = [k \in 0 .. most |-> IF k = 0 THEN list_begin(m, l) ELSE Onward(pos[k - 1])]
  <2> HIDE DEF f, Onward
  <2> QED
    BY <1>4
<1> HIDE DEF pos, f
<1> DEFINE T == {k \in 0 .. most : pos[k] = Null}
<1>6. 0 \in T
  <2>1. 0 \in 0 .. most
    BY <1>2
  <2> QED
    BY <2>1, <1>2, <1>5
<1>7. ASSUME NEW k \in 0 .. most - 1, k \in T PROVE k + 1 \in T
  <2>1. k + 1 \in 0 .. most /\ k + 1 # 0 /\ (k + 1) - 1 = k
    BY <1>2
  <2> QED
    BY <2>1, <1>2, <1>5, <1>7
<1> HIDE DEF T
<1>8. \A k \in 0 .. most : k \in T
  BY <1>2, <1>6, <1>7, Induct
<1>9. Stops(0) /\ 0 \in 0 .. most /\ \A k \in 0 .. most : Stops(k) => k = 0
  <2>1. \A k \in 0 .. most : Over(pos[k])
    BY <1>2, <1>8 DEF T
  <2> HIDE DEF Over
  <2> QED
    BY <2>1, <1>2, <1>3
<1> HIDE DEF Stops
<1>10. len = 0
  BY <1>9
<1> HIDE DEF len
<1>11. 1 .. len = {}
  BY <1>10
<1> QED
  BY <1>1, <1>11

\* Such a table is as the end of the program leaves it.
HashEnded == HashTypeOK /\ table.links = Unlinked(HashCells)

\* Its loops meet no element.
LEMMA EndedEmpty ==
    ASSUME HashEnded
    PROVE  /\ \A b \in Buckets(table.gen, table.bucket_cnt) : Walk(table.links, b) = << >>
           /\ InTable(table) = {}
<1> DEFINE cnt == table.bucket_cnt
           ls == Buckets(table.gen, cnt)
           ws == [b \in 1 .. cnt |-> Walk(table.links, <<table.gen, b - 1>>)]
           flatten == CHOOSE f : f = [i \in 1 .. Len(ws) |->
                                         IF i = 1 THEN ws[i] ELSE f[i - 1] \o ws[i]]
           h == [i \in 1 .. cnt |-> << >>]
<1>1. cnt \in Nat /\ 1 <= cnt /\ cnt <= MaxBuckets /\ MaxBuckets \in Nat /\ table.gen \in {0, 1}
  BY Finite DEF HashEnded, HashTypeOK
<1>2. Len(ws) = cnt
  BY <1>1
<1>3. Chain(table) = flatten[cnt]
  <2>1. Chain(table) = FlattenSeq(ws)
    BY DEF Chain
  <2> HIDE DEF ws
  <2>2. FlattenSeq(ws) = IF Len(ws) = 0 THEN ws ELSE flatten[Len(ws)]
    BY Zenon DEF FlattenSeq
  <2>3. Len(ws) # 0
    BY <1>1, <1>2
  <2> HIDE DEF flatten
  <2> QED
    BY <1>2, <2>1, <2>2, <2>3
<1>4. ASSUME NEW b \in ls PROVE Walk(table.links, b) = << >>
  <2>1. b \in AllBuckets
    BY <1>1 DEF AllBuckets, Buckets
  <2>2. ListHead(b) \in HashCells
    BY <2>1 DEF HashCells
  <2>3. DOMAIN table.links.next = HashCells /\ table.links.next[ListHead(b)] = Null
    BY <2>2 DEF HashEnded, Unlinked
  <2>4. Cardinality(HashCells) \in Nat
    BY Finite, FS_CardinalityType
  <2> QED
    BY <2>3, <2>4, WalkNull
<1>5. \A i \in 1 .. cnt : ws[i] = << >>
  <2> SUFFICES ASSUME NEW i \in 1 .. cnt PROVE Walk(table.links, <<table.gen, i - 1>>) = << >>
    OBVIOUS
  <2>1. i - 1 \in 0 .. cnt - 1
    BY <1>1
  <2>2. <<table.gen, i - 1>> \in ls
    BY <2>1 DEF Buckets
  <2> QED
    BY <2>2, <1>4
<1> HIDE DEF ws, cnt
<1>6. << >> \o << >> = << >>
  OBVIOUS
<1>7. h = [i \in 1 .. Len(ws) |-> IF i = 1 THEN ws[i] ELSE h[i - 1] \o ws[i]]
  <2>1. \A i \in 1 .. cnt : i # 1 => i - 1 \in 1 .. cnt
    BY <1>1
  <2>2. \A i \in 1 .. cnt : i # 1 => h[i - 1] = << >>
    BY <2>1
  <2>3. \A i \in 1 .. cnt : << >> = IF i = 1 THEN ws[i] ELSE h[i - 1] \o ws[i]
    BY <2>2, <1>5, <1>6
  <2> QED
    BY <1>2, <2>3
<1> HIDE DEF h
<1>8. flatten = [i \in 1 .. Len(ws) |-> IF i = 1 THEN ws[i] ELSE flatten[i - 1] \o ws[i]]
  BY <1>7, Zenon
<1> HIDE DEF flatten
<1> DEFINE T == {k \in 0 .. cnt : k = 0 \/ flatten[k] = << >>}
<1>9. 0 \in T
  BY <1>1
<1>10. ASSUME NEW k \in 0 .. cnt - 1, k \in T PROVE k + 1 \in T
  <2>1. k + 1 \in 0 .. cnt /\ k + 1 \in 1 .. cnt /\ (k + 1) - 1 = k /\ (k = 0 <=> k + 1 = 1)
    BY <1>1
  <2>2. flatten[k + 1] = IF k + 1 = 1 THEN ws[k + 1] ELSE flatten[k] \o ws[k + 1]
    BY <2>1, <1>2, <1>8
  <2> QED
    BY <2>1, <2>2, <1>5, <1>6, <1>10
<1> HIDE DEF T
<1>11. cnt \in T
  <2>1. \A k \in 0 .. cnt : k \in T
    BY <1>1, <1>9, <1>10, Induct
  <2> QED
    BY <1>1, <2>1
<1>12. Chain(table) = << >>
  BY <1>1, <1>3, <1>11 DEF T
<1> QED
  BY <1>4, <1>12 DEF InTable, ToSet, cnt

\* What a run checks holds then too: there is nothing to find.
LEMMA EndedSound ==
    ASSUME HashEnded
    PROVE  TableSound /\ FindsWhatIsThere /\ \A x : Equals(x) = 0
<1>1. TableSound
  BY DEF HashEnded, TableSound
<1>2. ASSUME NEW x \in Ints PROVE find_elem(table, item, x) = NoElem
  <2> DEFINE bucket == Walk(table.links, find_bucket(table, x))
             equals == {k \in DOMAIN bucket : Equal(item[bucket[k]], x)}
  <2>1. /\ table.bucket_cnt \in 1 .. MaxBuckets /\ MaxBuckets \in Nat
        /\ HashOf[x] \in Nat
    BY HashConstants, Finite DEF HashEnded, HashTypeOK
  <2>2. HashOf[x] % table.bucket_cnt \in 0 .. table.bucket_cnt - 1
    BY <2>1
  <2>3. find_bucket(table, x) \in Buckets(table.gen, table.bucket_cnt)
    BY <2>2 DEF find_bucket, Buckets
  <2>4. bucket = << >>
    BY <2>3, EndedEmpty
  <2> HIDE DEF bucket
  <2>5. equals = {}
    BY <2>4
  <2>6. find_elem(table, item, x) = IF equals = {} THEN NoElem ELSE bucket[Min(equals)]
    BY Zenon DEF find_elem, bucket
  <2> QED
    BY <2>5, <2>6
<1>3. InTable(table) = {}
  BY EndedEmpty
<1>4. FindsWhatIsThere
  BY <1>2, <1>3 DEF FindsWhatIsThere
<1>5. ASSUME NEW x PROVE Equals(x) = 0
  <2>1. {e \in InTable(table) : Equal(item[e], x)} = {}
    BY <1>3
  <2> QED
    BY <2>1, FS_EmptySet DEF Equals
<1> QED
  BY <1>1, <1>4, <1>5

-----------------------------------------------------------------------------
(* The session: lists, tables and bitmaps under one loop, until quit.      *)

(* The inductive invariant of a session.  After quit the table is no       *)
(* longer a table: its memory has been freed.                              *)
SessionInv ==
    /\ ListInv /\ BitmapInv
    /\ IF status = "ended" THEN HashEnded ELSE HashInv

\* A session starts with no list, an empty table and no bitmap.
LEMMA SessionInit ==
    ASSUME Init
    PROVE  SessionInv
<1>1. ListInv /\ HashInv
  BY InvInit, HashInvInit DEF Init
<1>2. BitmapInv
  BY BitmapInitInv DEF Init
<1>3. status # "ended"
  BY DEF Init
<1> QED
  BY <1>1, <1>2, <1>3 DEF SessionInv

\* The commands on one kind of structure leave the others as they are.
LEMMA CommandsInv ==
    ASSUME SessionInv, status # "ended", status' # "ended",
           [ListNext]_listVars, [HashNext]_hashVars, [BitmapNext]_bitmapVars
    PROVE  SessionInv' /\ Stays
<1>1. ListInv' /\ BitmapInv'
  BY ListNextInv, BitmapStep DEF SessionInv
<1>2. HashInv' /\ Stays
  BY HashInvNext DEF SessionInv
<1> QED
  BY <1>1, <1>2 DEF SessionInv

\* The end of the program frees the bitmap and the table.
LEMMA BitmapQuitInv ==
    ASSUME BitmapInv, BitmapQuit
    PROVE  BitmapInv'
<1>1. 0 \in 0 .. MaxBits /\ bit_cnt' - 1 = -1 /\ 0 .. bit_cnt' - 1 = {}
  BY SizesOK DEF BitmapQuit
<1>2. BitmapTypeOK'
  BY <1>1 DEF BitmapQuit, BitmapInv, BitmapTypeOK
<1>3. LowBitsExact'
  BY <1>1 DEF LowBitsExact
<1> QED
  BY <1>2, <1>3 DEF BitmapInv

\* And the table has no links after hash_destroy.
LEMMA HashQuitEnds ==
    ASSUME HashInv, HashQuit
    PROVE  HashEnded'
<1>1. HashTypeOK
  BY HashInvSound DEF TableSound
<1>2. /\ table' = [table EXCEPT !.links = Unlinked(HashCells)]
      /\ item' = [e \in HashElems |-> 0] /\ hashInUse' = hashInUse /\ applied' = applied
  BY DEF HashQuit
<1>3. Unlinked(HashCells) \in Memory
  BY DEF Unlinked, Memory
<1>4. table \in Tables
  BY <1>1 DEF HashTypeOK, Tables, Memory
<1>5. table' \in Tables /\ table'.links = Unlinked(HashCells)
  <2> HIDE DEF Memory
  <2> QED
    BY <1>2, <1>3, <1>4 DEF Tables
<1>6. item' \in [HashElems -> Ints]
  <2>1. 0 \in Ints
    BY HashConstants DEF Ints
  <2> QED
    BY <1>2, <2>1
<1>7. HashTypeOK'
  BY <1>1, <1>2, <1>5, <1>6 DEF HashTypeOK, Tables, Memory
<1> QED
  BY <1>5, <1>7 DEF HashEnded

\* Every step of the session keeps the invariant, and the table a set.
LEMMA SessionNext ==
    ASSUME SessionInv, [Next]_vars
    PROVE  SessionInv' /\ (Stays \/ HashEnded' \/ UNCHANGED hashVars)
<1>1. CASE ListCommand
  BY <1>1, CommandsInv DEF ListCommand, Going
<1>2. CASE HashCommand
  BY <1>2, CommandsInv DEF HashCommand, Going
<1>3. CASE BitmapCommand
  BY <1>3, CommandsInv DEF BitmapCommand, Going
<1>4. CASE Abort
  <2>1. UNCHANGED listVars /\ UNCHANGED hashVars /\ UNCHANGED bitmapVars
        /\ status # "ended" /\ status' # "ended"
    BY <1>4 DEF Abort, ListAbort, BitmapAbort
  <2> QED
    BY <2>1, CommandsInv
<1>5. CASE Quit
  <2>1. status = "running" /\ status' = "ended" /\ ListQuit /\ HashQuit /\ BitmapQuit
    BY <1>5 DEF Quit
  <2>2. ListInv' /\ BitmapInv'
    BY <2>1, QuitInv, BitmapQuitInv DEF SessionInv
  <2>3. HashEnded'
    BY <2>1, HashQuitEnds DEF SessionInv
  <2> QED
    BY <2>1, <2>2, <2>3 DEF SessionInv
<1>6. CASE UNCHANGED vars
  <2>1. UNCHANGED listVars /\ UNCHANGED hashVars /\ UNCHANGED bitmapVars /\ status' = status
    BY <1>6 DEF vars
  <2>2. CASE status # "ended"
    BY <2>1, <2>2, CommandsInv
  <2>3. CASE status = "ended"
    <3>1. ListInv' /\ BitmapInv'
      BY <2>1, ListNextInv, BitmapStep DEF SessionInv
    <3>2. HashEnded'
      BY <2>1, <2>3 DEF SessionInv, HashEnded, HashTypeOK, hashVars
    <3> QED
      BY <2>1, <2>3, <3>1, <3>2 DEF SessionInv
  <2> QED
    BY <2>2, <2>3
<1> QED
  BY <1>1, <1>2, <1>3, <1>4, <1>5, <1>6 DEF Next

\* After quit the table has nothing equal to anything.
LEMMA EndedNothing == HashEnded => \A x : Equals(x) = 0
BY EndedSound

\* An element is never put beside an equal one, by no step of a session.
LEMMA SessionStays ==
    ASSUME SessionInv, [Next]_vars
    PROVE  [Stays]_hashVars
<1>1. CASE Stays \/ UNCHANGED hashVars
  BY <1>1
<1>2. CASE HashEnded' /\ ~UNCHANGED hashVars
  <2>1. CASE status # "ended"
    <3>1. PICK own, rank : Whole(table, own, rank)
      BY <2>1 DEF SessionInv, HashInv, Sits
    <3>2. (\A x : Equals(x) = 0)'
      BY <1>2, EndedNothing, PTL
    <3>3. ASSUME NEW x \in Ints PROVE ~(Equals(x)' > Equals(x))
      <4>1. Equals(x) \in Nat
        BY <3>1, EqualsAre, SameCount
      <4>2. Equals(x)' = 0
        BY <3>2
      <4> QED
        BY <4>1, <4>2
    <3> QED
      BY <3>3 DEF Stays
  <2>2. CASE status = "ended"
    <3>1. UNCHANGED vars
      BY <2>2 DEF Next, ListCommand, HashCommand, BitmapCommand, Going, Abort, Quit
    <3> QED
      BY <3>1, <1>2 DEF vars
  <2> QED
    BY <2>1, <2>2
<1> QED
  BY <1>1, <1>2, SessionNext

-----------------------------------------------------------------------------
(* What the run InterpreterSafety checks, of every session.                *)

\* The invariants of lists, table and bitmap hold together in every session,
\* whatever commands are interleaved and however it ends.
THEOREM SessionInvariant == Spec => []SessionInv
<1>1. Init => SessionInv
  BY SessionInit
<1>2. SessionInv /\ [Next]_vars => SessionInv'
  BY SessionNext
<1> QED
  BY <1>1, <1>2, PTL DEF Spec

\* The lists in use are always linked both ways and share no element, and they
\* have every item that a command got from malloc and neither freed nor leaked,
\* after quit too: no command drops an item.
THEOREM SessionListsSound == Spec => []ListsSound
<1>1. SessionInv => ListsSound
  BY InvSound DEF SessionInv
<1> QED
  BY <1>1, SessionInvariant, PTL

\* The functions that order do so from every state of a session: list_sort is
\* a stable sort, list_insert_ordered inserts an element of any data after its
\* equals, list_unique keeps the first of each run, list_max and list_min find
\* the first.
THEOREM SessionOrderingRight == Spec => []OrderingRight
<1>1. SessionInv => OrderingRight
  BY InvOrders DEF SessionInv
<1> QED
  BY <1>1, SessionInvariant, PTL

\* The functions that move elements do to the sequences what their names
\* say, from every state of a session.
THEOREM SessionMovesRight == Spec => []MovesRight
<1>1. SessionInv => MovesRight
  BY InvMoves DEF SessionInv
<1> QED
  BY <1>1, SessionInvariant, PTL

\* The table is sound, and counted, until quit frees it.
THEOREM SessionTableSound == Spec => []TableSound
<1>1. SessionInv => TableSound
  BY HashInvSound, EndedSound DEF SessionInv
<1> QED
  BY <1>1, SessionInvariant, PTL

\* hash_find finds an element if and only if there is an equal one, up to
\* quit and after it.
THEOREM SessionFindsAll == Spec => []FindsWhatIsThere
<1>1. SessionInv => FindsWhatIsThere
  BY HashInvSound, EndedSound DEF SessionInv
<1> QED
  BY <1>1, SessionInvariant, PTL

\* The bits that the instructions reach are what the calls have made of them.
THEOREM SessionLowBits == Spec => []LowBitsExact
<1>1. SessionInv => LowBitsExact
  BY DEF SessionInv, BitmapInv
<1> QED
  BY <1>1, SessionInvariant, PTL

\* No step of a session puts an element beside an equal one.
THEOREM SessionStaysASet == Spec => StaysASet
<1>1. SessionInv /\ [Next]_vars =>
        [~applied /\ ~applied' =>
            \A x \in Ints : Equals(x)' > Equals(x) => Equals(x) = 0]_hashVars
  BY SessionStays DEF Stays
<1> QED
  BY <1>1, SessionInvariant, PTL DEF Spec, StaysASet
=============================================================================
