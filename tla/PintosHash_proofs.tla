-------------------------- MODULE PintosHash_proofs --------------------------
(***************************************************************************)
(* Proofs about the lists of list.c and the hash table of hash.c that is   *)
(* made of them.  TableSound and FindsWhatIsThere speak of walks; Linked,  *)
(* below, says of the links alone what makes every walk right: which list  *)
(* a cell is in, that next and prev undo one another, and a rank that      *)
(* falls along next, so that no list has a cycle.                          *)
(***************************************************************************)
EXTENDS PintosHash, FiniteSetTheorems, WellFoundedInduction, TLAPS

\* A set of naturals that has 0 and the successors of its members has all.
LEMMA Induct ==
    ASSUME NEW T, NEW n \in Nat, 0 \in T, \A k \in 0 .. n - 1 : k \in T => k + 1 \in T
    PROVE  0 .. n \subseteq T
<1> DEFINE B == (0 .. n) \ T
<1> SUFFICES ASSUME B # {} PROVE FALSE
  OBVIOUS
<1>1. /\ B \subseteq Nat /\ \A k \in B : k \in 0 .. n /\ k \notin T
      /\ \A k \in 0 .. n : k \notin T => k \in B
  OBVIOUS
<1> HIDE DEF B
<1>2. PICK k \in B : \A j \in B : <<j, k>> \notin OpToRel(<, Nat)
  BY <1>1, WFMin, NatLessThanWellFounded
<1>3. \A j \in B : ~(j < k)
  BY <1>2, <1>1 DEF OpToRel
<1>4. k \in 0 .. n /\ k \notin T /\ k # 0
  BY <1>1, <1>2
<1>5. k - 1 \in 0 .. n - 1 /\ k - 1 < k /\ k - 1 \in 0 .. n /\ (k - 1) + 1 = k
  BY <1>4
<1>6. k - 1 \in T
  BY <1>1, <1>3, <1>5
<1> QED
  BY <1>4, <1>5, <1>6

\* A set of naturals that is not empty has a least member.
LEMMA Least ==
    ASSUME NEW T \in SUBSET Nat, T # {}
    PROVE  \E n \in T : \A m \in T : n <= m
<1>1. PICK n \in T : \A m \in T : <<m, n>> \notin OpToRel(<, Nat)
  BY WFMin, NatLessThanWellFounded
<1>2. \A m \in T : ~(m < n)
  BY <1>1 DEF OpToRel
<1>3. n \in Nat /\ \A m \in T : m \in Nat
  BY <1>1
<1>4. \A m \in T : n <= m
  BY <1>2, <1>3
<1> QED
  BY <1>1, <1>4

\* A loop of n rounds that begins with x; g[k] is what its round k does.
Rounds(X, x, n, g, f) ==
    /\ f \in [0 .. n -> X]
    /\ f[0] = x /\ \A k \in 1 .. n : f[k] = g[k][f[k - 1]]

\* Such a loop runs.
LEMMA Iterates ==
    ASSUME NEW X, NEW x \in X, NEW n \in Nat, NEW g \in [1 .. n -> [X -> X]]
    PROVE  \E f : Rounds(X, x, n, g, f)
<1> DEFINE Runs(f, k) == f[0] = x /\ \A j \in 1 .. k : f[j] = g[j][f[j - 1]]
           T == {k \in 0 .. n : \E f \in [0 .. k -> X] : Runs(f, k)}
<1>1. 0 \in T
  <2>1. [j \in 0 .. 0 |-> x] \in [0 .. 0 -> X] /\ Runs([j \in 0 .. 0 |-> x], 0)
    OBVIOUS
  <2>2. 0 \in 0 .. n
    OBVIOUS
  <2> HIDE DEF Runs
  <2> QED
    BY <2>1, <2>2
<1>2. ASSUME NEW k \in 0 .. n - 1, k \in T PROVE k + 1 \in T
  <2>1. PICK f \in [0 .. k -> X] : Runs(f, k)
    BY <1>2
  <2> DEFINE h == [j \in 0 .. k + 1 |-> IF j = k + 1 THEN g[k + 1][f[k]] ELSE f[j]]
  <2>2. g[k + 1][f[k]] \in X
    BY <2>1
  <2>3. h \in [0 .. k + 1 -> X]
    BY <2>1, <2>2
  <2>4. Runs(h, k + 1)
    BY <2>1
  <2>5. k + 1 \in 0 .. n
    OBVIOUS
  <2> HIDE DEF Runs, h
  <2> QED
    BY <2>3, <2>4, <2>5
<1> HIDE DEF T
<1>3. 0 .. n \subseteq T
  BY <1>1, <1>2, Induct
<1>4. n \in T
  BY <1>3
<1> QED
  BY <1>4 DEF T, Rounds

(* A loop whose rounds all do s.                                           *)
Repeated(X, x, n, s, f) ==
    f \in [0 .. n -> X] /\ f[0] = x /\ \A k \in 1 .. n : f[k] = s[f[k - 1]]

\* It runs too.
LEMMA Repeats ==
    ASSUME NEW X, NEW x \in X, NEW n \in Nat, NEW s \in [X -> X]
    PROVE  \E f : Repeated(X, x, n, s, f)
<1> DEFINE g == [k \in 1 .. n |-> s]
<1>1. g \in [1 .. n -> [X -> X]] /\ \A k \in 1 .. n : g[k] = s
  OBVIOUS
<1> HIDE DEF g
<1>2. g \in [1 .. n -> [X -> X]]
  BY <1>1
<1>3. \E f : Rounds(X, x, n, g, f)
  BY <1>2, Iterates
<1> QED
  BY <1>1, <1>3 DEF Rounds, Repeated

-----------------------------------------------------------------------------
(* The cells.                                                              *)

\* Heads, tails, elements and NULL are different things.
LEMMA CellKinds ==
    /\ \A k, l : ListHead(k) = ListHead(l) => k = l
    /\ \A k, l : ListTail(k) = ListTail(l) => k = l
    /\ \A k, l : ListHead(k) # ListTail(l)
    /\ \A l : ListHead(l) # Null /\ ListTail(l) # Null
    /\ \A l : ListHead(l)[2] = l /\ ListTail(l)[2] = l
    /\ \A e \in HashElems : e # Null /\ \A l : e # ListHead(l) /\ e # ListTail(l)
BY DEF ListHead, ListTail, Null, HashElems, Elem

\* What can be a cell.
LEMMA IsCell ==
    /\ HashElems \subseteq HashCells /\ Ends(AllBuckets) \subseteq HashCells
    /\ \A l \in AllBuckets : ListHead(l) \in HashCells /\ ListTail(l) \in HashCells
    /\ \A c \in HashCells : c # Null
    /\ \A ls \in SUBSET AllBuckets : Ends(ls) \subseteq HashCells
BY CellKinds DEF HashCells, Ends

Memory == [next : [HashCells -> HashCells \cup {Null}],
           prev : [HashCells -> HashCells \cup {Null}]]

(* In memory m there are the lists ls; own says which list a cell is in.   *)
Linked(m, ls, own, rank) ==
    /\ m \in Memory /\ ls \subseteq AllBuckets /\ rank \in [HashCells -> Nat]
    /\ DOMAIN own \subseteq HashElems \cup Ends(ls) /\ own \in [DOMAIN own -> ls]
    /\ \A l \in ls : /\ ListHead(l) \in DOMAIN own /\ own[ListHead(l)] = l
                     /\ ListTail(l) \in DOMAIN own /\ own[ListTail(l)] = l
    /\ \A c \in DOMAIN own :
          IF c = ListTail(own[c]) THEN m.next[c] = Null
          ELSE /\ m.next[c] \in DOMAIN own /\ own[m.next[c]] = own[c]
               /\ m.prev[m.next[c]] = c /\ rank[m.next[c]] < rank[c]
    /\ \A c \in DOMAIN own :
          IF c = ListHead(own[c]) THEN m.prev[c] = Null
          ELSE /\ m.prev[c] \in DOMAIN own /\ own[m.prev[c]] = own[c]
               /\ m.next[m.prev[c]] = c

\* Nothing refers to these cells.
Blank(m, cells) == \A c \in cells : m.next[c] = Null /\ m.prev[c] = Null

\* The elements in lists, and those in list l.
Members(own) == DOMAIN own \cap HashElems
In(own, l) == {e \in Members(own) : own[e] = l}

(* own with e in list l, without e, with the new lists, without the old ones. *)
Put(own, e, l) == [c \in DOMAIN own \cup {e} |-> IF c = e THEN l ELSE own[c]]
Taken(own, e) == [c \in DOMAIN own \ {e} |-> own[c]]
Added(own, new) == [c \in DOMAIN own \cup Ends(new) |-> IF c \in Ends(new) THEN c[2] ELSE own[c]]
Dropped(own, old) == [c \in DOMAIN own \ Ends(old) |-> own[c]]

\* Memory is two functions.
LEMMA TwoLinks ==
    ASSUME NEW m \in Memory
    PROVE  /\ m = [next |-> m.next, prev |-> m.prev]
           /\ m.next \in [HashCells -> HashCells \cup {Null}]
           /\ m.prev \in [HashCells -> HashCells \cup {Null}]
BY DEF Memory

\* The assignments of list_insert.
LEMMA InsertWrites ==
    ASSUME NEW m \in Memory, NEW before \in HashCells, NEW e \in HashCells, e # before,
           m.prev[before] \in HashCells, m.prev[before] # e
    PROVE  LET r == list_insert(m, before, e)
           IN  /\ r \in Memory
               /\ \A c \in HashCells : r.next[c] = IF c = m.prev[before] THEN e
                                                   ELSE IF c = e THEN before ELSE m.next[c]
               /\ \A c \in HashCells : r.prev[c] = IF c = before THEN e
                                                   ELSE IF c = e THEN m.prev[before] ELSE m.prev[c]
<1> DEFINE f == m.next  g == m.prev
           g1 == [g EXCEPT ![e] = g[before]]
           f2 == [f EXCEPT ![e] = before]
           f3 == [f2 EXCEPT ![g[before]] = e]
           g4 == [g1 EXCEPT ![before] = e]
<1>1. /\ f \in [HashCells -> HashCells \cup {Null}] /\ g \in [HashCells -> HashCells \cup {Null}]
      /\ m = [next |-> f, prev |-> g]
  BY TwoLinks
<1>2. g1[before] = g[before]
  BY <1>1
<1>3. list_insert(m, before, e) = [next |-> f3, prev |-> g4]
  <2>1. SetPrev([next |-> f, prev |-> g], e, g[before]) = [next |-> f, prev |-> g1]
    BY DEF SetPrev
  <2>2. SetNext([next |-> f, prev |-> g1], e, before) = [next |-> f2, prev |-> g1]
    BY DEF SetNext
  <2>3. SetNext([next |-> f2, prev |-> g1], g[before], e) = [next |-> f3, prev |-> g1]
    BY DEF SetNext
  <2>4. SetPrev([next |-> f3, prev |-> g1], before, e) = [next |-> f3, prev |-> g4]
    BY DEF SetPrev
  <2> HIDE DEF f, g, g1, f2, f3, g4
  <2> QED
    BY <1>1, <1>2, <2>1, <2>2, <2>3, <2>4 DEF list_insert
<1>4. f3 \in [HashCells -> HashCells \cup {Null}] /\ g4 \in [HashCells -> HashCells \cup {Null}]
  BY <1>1
<1>5. /\ \A c \in HashCells : f3[c] = IF c = g[before] THEN e ELSE IF c = e THEN before ELSE f[c]
      /\ \A c \in HashCells : g4[c] = IF c = before THEN e ELSE IF c = e THEN g[before] ELSE g[c]
  BY <1>1
<1> HIDE DEF f3, g4
<1> QED
  BY <1>3, <1>4, <1>5 DEF Memory

\* The assignments of list_remove.
LEMMA RemoveWrites ==
    ASSUME NEW m \in Memory, NEW e \in HashCells, m.prev[e] \in HashCells, m.next[e] \in HashCells,
           m.prev[e] # e, m.next[e] # e
    PROVE  LET r == list_remove(m, e)
           IN  /\ r \in Memory
               /\ \A c \in HashCells : r.next[c] = IF c = m.prev[e] THEN m.next[e] ELSE m.next[c]
               /\ \A c \in HashCells : r.prev[c] = IF c = m.next[e] THEN m.prev[e] ELSE m.prev[c]
<1> DEFINE f == m.next  g == m.prev
           f1 == [f EXCEPT ![g[e]] = f[e]]
           g2 == [g EXCEPT ![f[e]] = g[e]]
<1>1. /\ f \in [HashCells -> HashCells \cup {Null}] /\ g \in [HashCells -> HashCells \cup {Null}]
      /\ m = [next |-> f, prev |-> g]
  BY TwoLinks
<1>2. f1[e] = f[e]
  BY <1>1
<1>3. list_remove(m, e) = [next |-> f1, prev |-> g2]
  <2>1. SetNext([next |-> f, prev |-> g], g[e], f[e]) = [next |-> f1, prev |-> g]
    BY DEF SetNext
  <2>2. SetPrev([next |-> f1, prev |-> g], f[e], g[e]) = [next |-> f1, prev |-> g2]
    BY DEF SetPrev
  <2> HIDE DEF f, g, f1, g2
  <2> QED
    BY <1>1, <1>2, <2>1, <2>2 DEF list_remove
<1>4. f1 \in [HashCells -> HashCells \cup {Null}] /\ g2 \in [HashCells -> HashCells \cup {Null}]
  BY <1>1
<1>5. /\ \A c \in HashCells : f1[c] = IF c = g[e] THEN f[e] ELSE f[c]
      /\ \A c \in HashCells : g2[c] = IF c = f[e] THEN g[e] ELSE g[c]
  BY <1>1
<1> HIDE DEF f1, g2
<1> QED
  BY <1>3, <1>4, <1>5 DEF Memory

\* Cells in lists are cells, and a list has two ends.
LEMMA InLists ==
    ASSUME NEW m, NEW ls, NEW own, NEW rank, Linked(m, ls, own, rank), NEW c \in DOMAIN own
    PROVE  /\ c \in HashCells /\ own[c] \in ls /\ own[c] \in AllBuckets /\ rank[c] \in Nat
           /\ c \in HashElems => c # ListHead(own[c]) /\ c # ListTail(own[c])
           /\ \A l : c = ListHead(l) \/ c = ListTail(l) => l \in ls /\ own[c] = l
<1>1. c \in HashElems \cup Ends(ls) /\ ls \subseteq AllBuckets /\ own[c] \in ls /\ rank \in [HashCells -> Nat]
  BY DEF Linked
<1>2. c \in HashCells
  BY <1>1, IsCell
<1>3. \A l : c = ListHead(l) \/ c = ListTail(l) => l \in ls
  BY <1>1, CellKinds DEF Ends
<1>4. \A l \in ls : own[ListHead(l)] = l /\ own[ListTail(l)] = l
  BY DEF Linked
<1> QED
  BY <1>1, <1>2, <1>3, <1>4, CellKinds

\* The cell before one that is no head.
LEMMA Before ==
    ASSUME NEW m, NEW ls, NEW own, NEW rank, Linked(m, ls, own, rank), NEW c \in DOMAIN own,
           c # ListHead(own[c])
    PROVE  /\ m.prev[c] \in DOMAIN own /\ own[m.prev[c]] = own[c] /\ m.prev[c] \in HashCells
           /\ m.prev[c] # c /\ m.prev[c] # ListTail(own[c]) /\ m.next[m.prev[c]] = c
           /\ rank[c] < rank[m.prev[c]]
<1> DEFINE p == m.prev[c]
<1>1. p \in DOMAIN own /\ own[p] = own[c] /\ m.next[p] = c
  BY DEF Linked
<1>2. c # Null /\ c \in HashCells /\ p \in HashCells /\ rank[c] \in Nat /\ rank[p] \in Nat
  BY <1>1, InLists, IsCell
<1>3. p # ListTail(own[p])
  BY <1>1, <1>2 DEF Linked
<1>4. rank[m.next[p]] < rank[p]
  BY <1>1, <1>3 DEF Linked
<1>5. rank[c] < rank[p]
  BY <1>1, <1>4
<1> QED
  BY <1>1, <1>2, <1>3, <1>5

\* The cell after one that is no tail.
LEMMA After ==
    ASSUME NEW m, NEW ls, NEW own, NEW rank, Linked(m, ls, own, rank), NEW c \in DOMAIN own,
           c # ListTail(own[c])
    PROVE  /\ m.next[c] \in DOMAIN own /\ own[m.next[c]] = own[c] /\ m.next[c] \in HashCells
           /\ m.next[c] # c /\ m.next[c] # ListHead(own[c]) /\ m.prev[m.next[c]] = c
           /\ rank[m.next[c]] < rank[c]
<1> DEFINE n == m.next[c]
<1>1. n \in DOMAIN own /\ own[n] = own[c] /\ m.prev[n] = c /\ rank[n] < rank[c]
  BY DEF Linked
<1>2. c # Null /\ c \in HashCells /\ n \in HashCells /\ rank[c] \in Nat /\ rank[n] \in Nat
  BY <1>1, InLists, IsCell
<1>3. n # ListHead(own[n])
  BY <1>1, <1>2 DEF Linked
<1> QED
  BY <1>1, <1>2, <1>3

\* list_insert puts e into the list of the cell it is put before.
LEMMA InsertLinked ==
    ASSUME NEW m, NEW ls, NEW own, NEW rank, Linked(m, ls, own, rank),
           NEW before \in DOMAIN own, before # ListHead(own[before]),
           NEW e \in HashElems, e \notin DOMAIN own
    PROVE  LET r == list_insert(m, before, e)
           IN  \E rk : Linked(r, ls, Put(own, e, own[before]), rk)
<1> DEFINE r == list_insert(m, before, e)
           q == m.prev[before]
           l == own[before]
           dom == DOMAIN own \cup {e}
           ow == [c \in dom |-> IF c = e THEN l ELSE own[c]]
           rk == [c \in HashCells |-> IF c = e THEN 2 * rank[before] + 1 ELSE 2 * rank[c]]
<1>1. /\ q \in DOMAIN own /\ own[q] = l /\ q \in HashCells /\ q # before /\ q # ListTail(l)
      /\ m.next[q] = before /\ rank[before] < rank[q] /\ q # e /\ before # e
  BY Before
<1>2. /\ m \in Memory /\ before \in HashCells /\ e \in HashCells /\ l \in ls /\ ls \subseteq AllBuckets
      /\ rank \in [HashCells -> Nat]
  BY InLists, IsCell DEF Linked
<1>3. /\ r \in Memory
      /\ \A c \in HashCells : r.next[c] = IF c = q THEN e ELSE IF c = e THEN before ELSE m.next[c]
      /\ \A c \in HashCells : r.prev[c] = IF c = before THEN e ELSE IF c = e THEN q ELSE m.prev[c]
  BY <1>1, <1>2, InsertWrites
<1>4. /\ DOMAIN ow = dom /\ dom \subseteq HashElems \cup Ends(ls) /\ ow \in [dom -> ls]
      /\ \A c \in DOMAIN own : ow[c] = own[c] /\ c # e /\ c \in dom
      /\ ow[e] = l /\ e \in dom
  BY <1>2 DEF Linked
<1>5. rk \in [HashCells -> Nat] /\ rk[e] = 2 * rank[before] + 1
  BY <1>2
<1>6. \A c \in HashCells : c # e => rk[c] = 2 * rank[c]
  BY <1>2
<1> HIDE DEF r, rk, ow, dom, q, l
<1>7. \A k \in ls : /\ ListHead(k) \in dom /\ ow[ListHead(k)] = k
                    /\ ListTail(k) \in dom /\ ow[ListTail(k)] = k
  BY <1>4 DEF Linked
<1>8. ASSUME NEW c \in dom
      PROVE  IF c = ListTail(ow[c]) THEN r.next[c] = Null
             ELSE /\ r.next[c] \in dom /\ ow[r.next[c]] = ow[c]
                  /\ r.prev[r.next[c]] = c /\ rk[r.next[c]] < rk[c]
  <2>1. CASE c = e
    <3>1. e # ListTail(l) /\ r.next[e] = before /\ r.prev[before] = e /\ rk[before] = 2 * rank[before]
      BY <1>1, <1>2, <1>3, <1>6, CellKinds
    <3>2. rank[before] \in Nat
      BY <1>2
    <3>3. rk[before] < rk[e]
      BY <3>1, <3>2, <1>5
    <3> QED
      BY <2>1, <3>1, <3>3, <1>4 DEF l
  <2>2. CASE c = q
    <3>1. q # ListTail(l) /\ r.next[q] = e /\ r.prev[e] = q /\ rk[q] = 2 * rank[q]
      BY <1>1, <1>2, <1>3, <1>6
    <3>2. rank[before] \in Nat /\ rank[q] \in Nat
      BY <1>1, <1>2
    <3>3. rk[e] < rk[q]
      BY <3>1, <3>2, <1>5, <1>1
    <3> QED
      BY <2>2, <3>1, <3>3, <1>4, <1>1
  <2>3. CASE c # e /\ c # q
    <3>1. c \in DOMAIN own /\ c \in HashCells /\ ow[c] = own[c] /\ r.next[c] = m.next[c]
      BY <2>3, <1>4, <1>3, InLists DEF dom
    <3>2. CASE c = ListTail(own[c])
      BY <3>1, <3>2 DEF Linked
    <3>3. CASE c # ListTail(own[c])
      <4>1. /\ m.next[c] \in DOMAIN own /\ own[m.next[c]] = own[c] /\ m.next[c] \in HashCells
            /\ m.prev[m.next[c]] = c /\ rank[m.next[c]] < rank[c]
        BY <3>1, <3>3, After
      <4>2. m.next[c] # before /\ m.next[c] # e
        BY <4>1, <2>3, <1>4 DEF q
      <4>3. rk[m.next[c]] = 2 * rank[m.next[c]] /\ rk[c] = 2 * rank[c] /\ rank[c] \in Nat
            /\ rank[m.next[c]] \in Nat
        BY <4>1, <4>2, <3>1, <2>3, <1>6, <1>2
      <4>4. rk[m.next[c]] < rk[c]
        BY <4>1, <4>3
      <4> QED
        BY <3>1, <3>3, <4>1, <4>2, <4>4, <1>3, <1>4
    <3> QED
      BY <3>2, <3>3
  <2> QED
    BY <2>1, <2>2, <2>3
<1>9. ASSUME NEW c \in dom
      PROVE  IF c = ListHead(ow[c]) THEN r.prev[c] = Null
             ELSE /\ r.prev[c] \in dom /\ ow[r.prev[c]] = ow[c] /\ r.next[r.prev[c]] = c
  <2>1. CASE c = e
    <3>1. e # ListHead(l) /\ r.prev[e] = q /\ r.next[q] = e
      BY <1>1, <1>2, <1>3, CellKinds
    <3> QED
      BY <2>1, <3>1, <1>1, <1>4 DEF l
  <2>2. CASE c = before
    <3>1. r.prev[before] = e /\ r.next[e] = before
      BY <1>1, <1>2, <1>3
    <3> QED
      BY <2>2, <3>1, <1>4 DEF l
  <2>3. CASE c # e /\ c # before
    <3>1. c \in DOMAIN own /\ c \in HashCells /\ ow[c] = own[c] /\ r.prev[c] = m.prev[c]
      BY <2>3, <1>4, <1>3, InLists DEF dom
    <3>2. CASE c = ListHead(own[c])
      BY <3>1, <3>2 DEF Linked
    <3>3. CASE c # ListHead(own[c])
      <4>1. /\ m.prev[c] \in DOMAIN own /\ own[m.prev[c]] = own[c] /\ m.prev[c] \in HashCells
            /\ m.next[m.prev[c]] = c
        BY <3>1, <3>3, Before
      <4>2. m.prev[c] # q /\ m.prev[c] # e
        BY <4>1, <2>3, <1>1, <1>4
      <4> QED
        BY <3>1, <3>3, <4>1, <4>2, <1>3, <1>4
    <3> QED
      BY <3>2, <3>3
  <2> QED
    BY <2>1, <2>2, <2>3
<1>10. Linked(r, ls, ow, rk)
  BY <1>2, <1>3, <1>4, <1>5, <1>7, <1>8, <1>9 DEF Linked
<1> QED
  BY <1>10 DEF r, ow, dom, l, Put

\* list_remove takes e out of its list.
LEMMA RemoveLinked ==
    ASSUME NEW m, NEW ls, NEW own, NEW rank, Linked(m, ls, own, rank), NEW e \in Members(own)
    PROVE  Linked(list_remove(m, e), ls, Taken(own, e), rank)
<1> DEFINE r == list_remove(m, e)
           p == m.prev[e]
           n == m.next[e]
           dom == DOMAIN own \ {e}
           ow == [c \in dom |-> own[c]]
<1>0. e \in DOMAIN own /\ e \in HashElems /\ e # ListHead(own[e]) /\ e # ListTail(own[e]) /\ e \in HashCells
  BY InLists DEF Members
<1>1. /\ p \in DOMAIN own /\ own[p] = own[e] /\ p \in HashCells /\ p # e /\ p # ListTail(own[e])
      /\ m.next[p] = e /\ rank[e] < rank[p]
  BY <1>0, Before
<1>2. /\ n \in DOMAIN own /\ own[n] = own[e] /\ n \in HashCells /\ n # e /\ n # ListHead(own[e])
      /\ m.prev[n] = e /\ rank[n] < rank[e]
  BY <1>0, After
<1>3. m \in Memory /\ ls \subseteq AllBuckets /\ rank \in [HashCells -> Nat]
  BY DEF Linked
<1>4. /\ r \in Memory
      /\ \A c \in HashCells : r.next[c] = IF c = p THEN n ELSE m.next[c]
      /\ \A c \in HashCells : r.prev[c] = IF c = n THEN p ELSE m.prev[c]
  BY <1>0, <1>1, <1>2, <1>3, RemoveWrites
<1>5. /\ DOMAIN ow = dom /\ dom \subseteq HashElems \cup Ends(ls) /\ ow \in [dom -> ls]
      /\ \A c \in dom : ow[c] = own[c] /\ c # e /\ c \in DOMAIN own /\ c \in HashCells
  BY InLists DEF Linked
<1>6. \A k \in ls : /\ ListHead(k) \in dom /\ ow[ListHead(k)] = k
                    /\ ListTail(k) \in dom /\ ow[ListTail(k)] = k
  BY <1>0, CellKinds DEF Linked
<1>7. \A c \in DOMAIN own : c # e => c \in dom
  OBVIOUS
<1> HIDE DEF r, p, n, dom, ow
<1>8. ASSUME NEW c \in dom
      PROVE  IF c = ListTail(ow[c]) THEN r.next[c] = Null
             ELSE /\ r.next[c] \in dom /\ ow[r.next[c]] = ow[c]
                  /\ r.prev[r.next[c]] = c /\ rank[r.next[c]] < rank[c]
  <2>1. CASE c = p
    <3>1. r.next[p] = n /\ r.prev[n] = p /\ rank[n] < rank[p]
      <4>1. rank[n] \in Nat /\ rank[p] \in Nat /\ rank[e] \in Nat
        BY <1>0, <1>1, <1>2, <1>3
      <4> QED
        BY <4>1, <1>1, <1>2, <1>4
    <3> QED
      BY <2>1, <3>1, <1>1, <1>2, <1>5, <1>7
  <2>2. CASE c # p /\ c = ListTail(own[c])
    BY <2>2, <1>4, <1>5 DEF Linked
  <2>3. CASE c # p /\ c # ListTail(own[c])
    <3>1. /\ m.next[c] \in DOMAIN own /\ own[m.next[c]] = own[c] /\ m.next[c] \in HashCells
          /\ m.prev[m.next[c]] = c /\ rank[m.next[c]] < rank[c]
      BY <1>5, <2>3, After
    <3>2. m.next[c] # e /\ m.next[c] # n
      BY <3>1, <1>1, <1>2, <2>3, <1>5 DEF p
    <3> QED
      BY <2>3, <3>1, <3>2, <1>4, <1>5, <1>7
  <2> QED
    BY <2>1, <2>2, <2>3
<1>9. ASSUME NEW c \in dom
      PROVE  IF c = ListHead(ow[c]) THEN r.prev[c] = Null
             ELSE /\ r.prev[c] \in dom /\ ow[r.prev[c]] = ow[c] /\ r.next[r.prev[c]] = c
  <2>1. CASE c = n
    BY <2>1, <1>1, <1>2, <1>4, <1>5, <1>7
  <2>2. CASE c # n /\ c = ListHead(own[c])
    BY <2>2, <1>4, <1>5 DEF Linked
  <2>3. CASE c # n /\ c # ListHead(own[c])
    <3>1. /\ m.prev[c] \in DOMAIN own /\ own[m.prev[c]] = own[c] /\ m.prev[c] \in HashCells
          /\ m.next[m.prev[c]] = c
      BY <1>5, <2>3, Before
    <3>2. m.prev[c] # e /\ m.prev[c] # p
      BY <3>1, <1>1, <1>2, <2>3, <1>5 DEF n
    <3> QED
      BY <2>3, <3>1, <3>2, <1>4, <1>5, <1>7
  <2> QED
    BY <2>1, <2>2, <2>3
<1>10. Linked(r, ls, ow, rank)
  BY <1>3, <1>4, <1>5, <1>6, <1>8, <1>9 DEF Linked
<1> QED
  BY <1>10 DEF r, ow, dom, Taken

\* The assignments of list_init.
LEMMA InitWrites ==
    ASSUME NEW m \in Memory, NEW l \in AllBuckets
    PROVE  LET r == list_init(m, l)
           IN  /\ r.next[ListHead(l)] = ListTail(l) /\ r.prev[ListHead(l)] = Null
               /\ r.prev[ListTail(l)] = ListHead(l) /\ r.next[ListTail(l)] = Null
<1> DEFINE f == m.next  g == m.prev  h == ListHead(l)  t == ListTail(l)
           f1 == [f EXCEPT ![h] = t]
           g1 == [g EXCEPT ![h] = Null]
           g2 == [g1 EXCEPT ![t] = h]
           f2 == [f1 EXCEPT ![t] = Null]
<1>1. /\ f \in [HashCells -> HashCells \cup {Null}] /\ g \in [HashCells -> HashCells \cup {Null}]
      /\ m = [next |-> f, prev |-> g]
  BY TwoLinks
<1>2. h \in HashCells /\ t \in HashCells /\ h # t
  BY IsCell, CellKinds
<1>3. list_init(m, l) = [next |-> f2, prev |-> g2]
  <2>1. SetNext([next |-> f, prev |-> g], h, t) = [next |-> f1, prev |-> g]
    BY DEF SetNext
  <2>2. SetPrev([next |-> f1, prev |-> g], h, Null) = [next |-> f1, prev |-> g1]
    BY DEF SetPrev
  <2>3. SetPrev([next |-> f1, prev |-> g1], t, h) = [next |-> f1, prev |-> g2]
    BY DEF SetPrev
  <2>4. SetNext([next |-> f1, prev |-> g2], t, Null) = [next |-> f2, prev |-> g2]
    BY DEF SetNext
  <2> HIDE DEF f, g, f1, g1, f2, g2
  <2> QED
    BY <1>1, <2>1, <2>2, <2>3, <2>4 DEF list_init
<1>4. f2[h] = t /\ f2[t] = Null /\ g2[h] = Null /\ g2[t] = h
  BY <1>1, <1>2
<1> HIDE DEF f2, g2
<1> QED
  BY <1>3, <1>4

\* The loop of list_init, list by list.
LEMMA MadeWrites ==
    ASSUME NEW m \in Memory, NEW new \in SUBSET AllBuckets
    PROVE  LET r == ListsMade(m, new)
           IN  /\ r \in Memory
               /\ \A l \in new : /\ r.next[ListHead(l)] = ListTail(l) /\ r.prev[ListHead(l)] = Null
                                 /\ r.prev[ListTail(l)] = ListHead(l) /\ r.next[ListTail(l)] = Null
               /\ \A c \in HashCells \ Ends(new) : r.next[c] = m.next[c] /\ r.prev[c] = m.prev[c]
<1> DEFINE r == ListsMade(m, new)
           f == [c \in HashCells |-> IF c \in Ends(new) THEN list_init(m, c[2]).next[c] ELSE m.next[c]]
           g == [c \in HashCells |-> IF c \in Ends(new) THEN list_init(m, c[2]).prev[c] ELSE m.prev[c]]
<1>1. /\ m.next \in [HashCells -> HashCells \cup {Null}] /\ m.prev \in [HashCells -> HashCells \cup {Null}]
  BY TwoLinks
<1>2. r = [next |-> f, prev |-> g]
  <2>1. DOMAIN m.next = HashCells /\ DOMAIN m.prev = HashCells
    BY <1>1
  <2> QED
    BY <2>1 DEF ListsMade
<1>3. ASSUME NEW l \in new
      PROVE  /\ ListHead(l) \in Ends(new) /\ ListTail(l) \in Ends(new)
             /\ ListHead(l) \in HashCells /\ ListTail(l) \in HashCells
             /\ f[ListHead(l)] = ListTail(l) /\ g[ListHead(l)] = Null
             /\ g[ListTail(l)] = ListHead(l) /\ f[ListTail(l)] = Null
  <2>1. ListHead(l) \in Ends(new) /\ ListTail(l) \in Ends(new)
    BY DEF Ends
  <2>2. ListHead(l) \in HashCells /\ ListTail(l) \in HashCells /\ l \in AllBuckets
    BY IsCell
  <2>3. ListHead(l)[2] = l /\ ListTail(l)[2] = l
    BY CellKinds
  <2> QED
    BY <2>1, <2>2, <2>3, InitWrites
<1>4. ASSUME NEW c \in HashCells
      PROVE  f[c] \in HashCells \cup {Null} /\ g[c] \in HashCells \cup {Null}
  <2>1. CASE c \in Ends(new)
    <3>1. PICK l \in new : c = ListHead(l) \/ c = ListTail(l)
      BY <2>1 DEF Ends
    <3> HIDE DEF f, g
    <3> QED
      BY <1>3, <3>1
  <2>2. CASE c \notin Ends(new)
    BY <2>2, <1>1
  <2> QED
    BY <2>1, <2>2
<1>5. f \in [HashCells -> HashCells \cup {Null}] /\ g \in [HashCells -> HashCells \cup {Null}]
  BY <1>4
<1>6. \A c \in HashCells \ Ends(new) : f[c] = m.next[c] /\ g[c] = m.prev[c]
  OBVIOUS
<1> HIDE DEF f, g, r
<1>7. r \in Memory /\ r.next = f /\ r.prev = g
  BY <1>2, <1>5 DEF Memory
<1> QED
  BY <1>3, <1>6, <1>7 DEF r

\* Empty lists beside those there are.
LEMMA MadeLinked ==
    ASSUME NEW m, NEW ls, NEW own, NEW rank, Linked(m, ls, own, rank),
           NEW new \in SUBSET AllBuckets, new \cap ls = {}
    PROVE  \E rk : Linked(ListsMade(m, new), ls \cup new, Added(own, new), rk)
<1> DEFINE r == ListsMade(m, new)
           dom == DOMAIN own \cup Ends(new)
           ow == [c \in dom |-> IF c \in Ends(new) THEN c[2] ELSE own[c]]
           rk == [c \in HashCells |-> IF c \in {ListHead(l) : l \in new} THEN 1
                                      ELSE IF c \in Ends(new) THEN 0 ELSE rank[c]]
<1>1. /\ m \in Memory /\ ls \subseteq AllBuckets /\ rank \in [HashCells -> Nat]
      /\ DOMAIN own \subseteq HashElems \cup Ends(ls)
  BY DEF Linked
<1>2. /\ r \in Memory
      /\ \A l \in new : /\ r.next[ListHead(l)] = ListTail(l) /\ r.prev[ListHead(l)] = Null
                        /\ r.prev[ListTail(l)] = ListHead(l) /\ r.next[ListTail(l)] = Null
      /\ \A c \in HashCells \ Ends(new) : r.next[c] = m.next[c] /\ r.prev[c] = m.prev[c]
  BY <1>1, MadeWrites
<1>3. \A c \in DOMAIN own : c \notin Ends(new) /\ c \in HashCells
  <2> SUFFICES ASSUME NEW c \in DOMAIN own PROVE c \notin Ends(new) /\ c \in HashCells
    OBVIOUS
  <2>1. c \in HashCells /\ \A l : c = ListHead(l) \/ c = ListTail(l) => l \in ls
    BY InLists
  <2> QED
    BY <2>1 DEF Ends
<1>4. \A l \in new : /\ ListHead(l) \in dom /\ ListTail(l) \in dom
                     /\ ow[ListHead(l)] = l /\ ow[ListTail(l)] = l
                     /\ ListHead(l) \in HashCells /\ ListTail(l) \in HashCells
                     /\ rk[ListHead(l)] = 1 /\ rk[ListTail(l)] = 0
  <2> SUFFICES ASSUME NEW l \in new
               PROVE  /\ ListHead(l) \in dom /\ ListTail(l) \in dom
                      /\ ow[ListHead(l)] = l /\ ow[ListTail(l)] = l
                      /\ ListHead(l) \in HashCells /\ ListTail(l) \in HashCells
                      /\ rk[ListHead(l)] = 1 /\ rk[ListTail(l)] = 0
    OBVIOUS
  <2>1. ListHead(l) \in Ends(new) /\ ListTail(l) \in Ends(new)
    BY DEF Ends
  <2>2. ListHead(l) \in HashCells /\ ListTail(l) \in HashCells
    BY IsCell
  <2>3. ListTail(l) \notin {ListHead(k) : k \in new}
    BY CellKinds
  <2> QED
    BY <2>1, <2>2, <2>3, CellKinds
<1>5. \A c \in DOMAIN own : c \in dom /\ ow[c] = own[c] /\ rk[c] = rank[c]
  <2>1. \A c \in Ends(new) : TRUE
    OBVIOUS
  <2>2. {ListHead(l) : l \in new} \subseteq Ends(new)
    BY DEF Ends
  <2> QED
    BY <1>3, <2>2
<1>6. rk \in [HashCells -> Nat]
  BY <1>1
<1>7. \A c \in dom : c \in DOMAIN own \/ \E l \in new : c = ListHead(l) \/ c = ListTail(l)
  BY DEF Ends
<1>8. DOMAIN ow = dom
  OBVIOUS
<1> HIDE DEF r, dom, ow, rk
<1>9. dom \subseteq HashElems \cup Ends(ls \cup new)
  BY <1>1 DEF Ends, dom
<1>10. \A c \in dom : ow[c] \in ls \cup new
  BY <1>4, <1>5, <1>7, InLists
<1>11. \A l \in ls \cup new : /\ ListHead(l) \in dom /\ ow[ListHead(l)] = l
                              /\ ListTail(l) \in dom /\ ow[ListTail(l)] = l
  BY <1>4, <1>5 DEF Linked
<1>12. ASSUME NEW c \in dom
       PROVE  IF c = ListTail(ow[c]) THEN r.next[c] = Null
              ELSE /\ r.next[c] \in dom /\ ow[r.next[c]] = ow[c]
                   /\ r.prev[r.next[c]] = c /\ rk[r.next[c]] < rk[c]
  <2>1. ASSUME NEW l \in new, c = ListHead(l) \/ c = ListTail(l)
        PROVE  IF c = ListTail(ow[c]) THEN r.next[c] = Null
               ELSE /\ r.next[c] \in dom /\ ow[r.next[c]] = ow[c]
                    /\ r.prev[r.next[c]] = c /\ rk[r.next[c]] < rk[c]
    BY <2>1, <1>2, <1>4, CellKinds
  <2>2. CASE c \in DOMAIN own
    <3>1. ow[c] = own[c] /\ r.next[c] = m.next[c] /\ rk[c] = rank[c]
      BY <2>2, <1>2, <1>3, <1>5
    <3>2. CASE c = ListTail(own[c])
      BY <2>2, <3>1, <3>2 DEF Linked
    <3>3. CASE c # ListTail(own[c])
      <4>1. /\ m.next[c] \in DOMAIN own /\ own[m.next[c]] = own[c] /\ m.next[c] \in HashCells
            /\ m.prev[m.next[c]] = c /\ rank[m.next[c]] < rank[c]
        BY <2>2, <3>3, After
      <4> QED
        BY <4>1, <3>1, <3>3, <1>2, <1>3, <1>5
    <3> QED
      BY <3>2, <3>3
  <2> QED
    BY <2>1, <2>2, <1>7
<1>13. ASSUME NEW c \in dom
       PROVE  IF c = ListHead(ow[c]) THEN r.prev[c] = Null
              ELSE /\ r.prev[c] \in dom /\ ow[r.prev[c]] = ow[c] /\ r.next[r.prev[c]] = c
  <2>1. ASSUME NEW l \in new, c = ListHead(l) \/ c = ListTail(l)
        PROVE  IF c = ListHead(ow[c]) THEN r.prev[c] = Null
               ELSE /\ r.prev[c] \in dom /\ ow[r.prev[c]] = ow[c] /\ r.next[r.prev[c]] = c
    BY <2>1, <1>2, <1>4, CellKinds
  <2>2. CASE c \in DOMAIN own
    <3>1. ow[c] = own[c] /\ r.prev[c] = m.prev[c]
      BY <2>2, <1>2, <1>3, <1>5
    <3>2. CASE c = ListHead(own[c])
      BY <2>2, <3>1, <3>2 DEF Linked
    <3>3. CASE c # ListHead(own[c])
      <4>1. /\ m.prev[c] \in DOMAIN own /\ own[m.prev[c]] = own[c] /\ m.prev[c] \in HashCells
            /\ m.next[m.prev[c]] = c
        BY <2>2, <3>3, Before
      <4> QED
        BY <4>1, <3>1, <3>3, <1>2, <1>3, <1>5
    <3> QED
      BY <3>2, <3>3
  <2> QED
    BY <2>1, <2>2, <1>7
<1>14. ow \in [dom -> ls \cup new]
  BY <1>8, <1>10 DEF ow
<1>15. Linked(r, ls \cup new, ow, rk)
  BY <1>1, <1>2, <1>6, <1>8, <1>9, <1>11, <1>12, <1>13, <1>14 DEF Linked
<1> QED
  BY <1>15 DEF r, ow, dom, Added

\* Only the ends of the lists given to free() change.
LEMMA FreedWrites ==
    ASSUME NEW m \in Memory, NEW ls
    PROVE  LET r == ListsFreed(m, ls)
           IN  /\ r \in Memory
               /\ \A c \in HashCells : /\ r.next[c] = IF c \in Ends(ls) THEN Null ELSE m.next[c]
                                       /\ r.prev[c] = IF c \in Ends(ls) THEN Null ELSE m.prev[c]
<1> DEFINE r == ListsFreed(m, ls)
           f == [c \in HashCells |-> IF c \in Ends(ls) THEN Null ELSE m.next[c]]
           g == [c \in HashCells |-> IF c \in Ends(ls) THEN Null ELSE m.prev[c]]
<1>1. /\ m.next \in [HashCells -> HashCells \cup {Null}] /\ m.prev \in [HashCells -> HashCells \cup {Null}]
  BY TwoLinks
<1>2. r = [next |-> f, prev |-> g]
  <2>1. DOMAIN m.next = HashCells /\ DOMAIN m.prev = HashCells
    BY <1>1
  <2> QED
    BY <2>1 DEF ListsFreed
<1>3. f \in [HashCells -> HashCells \cup {Null}] /\ g \in [HashCells -> HashCells \cup {Null}]
  BY <1>1
<1>4. \A c \in HashCells : /\ f[c] = IF c \in Ends(ls) THEN Null ELSE m.next[c]
                           /\ g[c] = IF c \in Ends(ls) THEN Null ELSE m.prev[c]
  OBVIOUS
<1> HIDE DEF f, g, r
<1>5. r \in Memory /\ r.next = f /\ r.prev = g
  BY <1>2, <1>3 DEF Memory
<1> QED
  BY <1>4, <1>5 DEF r

\* Empty lists may go: the others stay as they are.
LEMMA FreedLinked ==
    ASSUME NEW m, NEW ls, NEW own, NEW rank, Linked(m, ls, own, rank), NEW old,
           \A e \in Members(own) : own[e] \notin old
    PROVE  Linked(ListsFreed(m, old), ls \ old, Dropped(own, old), rank)
<1> DEFINE r == ListsFreed(m, old)
           dom == DOMAIN own \ Ends(old)
           ow == [c \in dom |-> own[c]]
<1>1. /\ m \in Memory /\ ls \subseteq AllBuckets /\ rank \in [HashCells -> Nat]
      /\ DOMAIN own \subseteq HashElems \cup Ends(ls)
  BY DEF Linked
<1>2. /\ r \in Memory
      /\ \A c \in HashCells : /\ r.next[c] = IF c \in Ends(old) THEN Null ELSE m.next[c]
                              /\ r.prev[c] = IF c \in Ends(old) THEN Null ELSE m.prev[c]
  BY <1>1, FreedWrites
<1>3. ASSUME NEW c \in DOMAIN own
      PROVE  c \in HashCells /\ own[c] \in ls /\ (c \in Ends(old) <=> own[c] \in old)
  <2>1. c \in HashCells /\ own[c] \in ls /\ \A l : c = ListHead(l) \/ c = ListTail(l) => own[c] = l
    BY InLists
  <2>2. c \in Ends(old) => own[c] \in old
    BY <2>1 DEF Ends
  <2>3. c \in HashElems => own[c] \notin old
    BY DEF Members
  <2>4. c \in Ends(ls) /\ own[c] \in old => c \in Ends(old)
    BY <2>1 DEF Ends
  <2> QED
    BY <1>1, <2>1, <2>2, <2>3, <2>4
<1>4. /\ DOMAIN ow = dom /\ ow \in [dom -> ls \ old]
      /\ \A c \in dom : c \in DOMAIN own /\ ow[c] = own[c] /\ c \notin Ends(old) /\ c \in HashCells
      /\ \A c \in DOMAIN own : own[c] \notin old => c \in dom
  BY <1>3
<1>5. dom \subseteq HashElems \cup Ends(ls \ old)
  <2> SUFFICES ASSUME NEW c \in dom, c \in Ends(ls) PROVE c \in Ends(ls \ old)
    BY <1>1
  <2> QED
    BY <1>4 DEF Ends
<1> HIDE DEF r, dom, ow
<1>6. \A l \in ls \ old : /\ ListHead(l) \in dom /\ ow[ListHead(l)] = l
                          /\ ListTail(l) \in dom /\ ow[ListTail(l)] = l
  BY <1>4 DEF Linked
<1>7. ASSUME NEW c \in dom
      PROVE  IF c = ListTail(ow[c]) THEN r.next[c] = Null
             ELSE /\ r.next[c] \in dom /\ ow[r.next[c]] = ow[c]
                  /\ r.prev[r.next[c]] = c /\ rank[r.next[c]] < rank[c]
  <2>1. c \in DOMAIN own /\ ow[c] = own[c] /\ r.next[c] = m.next[c] /\ own[c] \notin old
    BY <1>2, <1>3, <1>4
  <2>2. CASE c = ListTail(own[c])
    BY <2>1, <2>2 DEF Linked
  <2>3. CASE c # ListTail(own[c])
    <3>1. /\ m.next[c] \in DOMAIN own /\ own[m.next[c]] = own[c] /\ m.next[c] \in HashCells
          /\ m.prev[m.next[c]] = c /\ rank[m.next[c]] < rank[c]
      BY <2>1, <2>3, After
    <3> QED
      BY <2>1, <2>3, <3>1, <1>2, <1>4
  <2> QED
    BY <2>2, <2>3
<1>8. ASSUME NEW c \in dom
      PROVE  IF c = ListHead(ow[c]) THEN r.prev[c] = Null
             ELSE /\ r.prev[c] \in dom /\ ow[r.prev[c]] = ow[c] /\ r.next[r.prev[c]] = c
  <2>1. c \in DOMAIN own /\ ow[c] = own[c] /\ r.prev[c] = m.prev[c] /\ own[c] \notin old
    BY <1>2, <1>3, <1>4
  <2>2. CASE c = ListHead(own[c])
    BY <2>1, <2>2 DEF Linked
  <2>3. CASE c # ListHead(own[c])
    <3>1. /\ m.prev[c] \in DOMAIN own /\ own[m.prev[c]] = own[c] /\ m.prev[c] \in HashCells
          /\ m.next[m.prev[c]] = c
      BY <2>1, <2>3, Before
    <3> QED
      BY <2>1, <2>3, <3>1, <1>2, <1>4
  <2> QED
    BY <2>2, <2>3
<1>9. Linked(r, ls \ old, ow, rank)
  BY <1>1, <1>2, <1>4, <1>5, <1>6, <1>7, <1>8 DEF Linked
<1> QED
  BY <1>9 DEF r, ow, dom, Dropped

-----------------------------------------------------------------------------
(* Sizes.                                                                  *)

\* A set of naturals up to n that is not empty has a greatest member.
LEMMA MaxOf ==
    ASSUME NEW n \in Nat, NEW S \in SUBSET (1 .. n), S # {}
    PROVE  Max(S) \in S /\ \A s \in S : s <= Max(S)
<1> DEFINE T == {n - s : s \in S}
<1>1. T \in SUBSET Nat /\ T # {}
  OBVIOUS
<1>2. \A s \in S : n - s \in T
  OBVIOUS
<1>3. \A x \in T : \E s \in S : x = n - s
  OBVIOUS
<1> HIDE DEF T
<1>4. PICK x \in T : \A y \in T : x <= y
  BY <1>1, Least
<1>5. PICK s \in S : x = n - s
  BY <1>3
<1>6. \A r \in S : r <= s
  <2> SUFFICES ASSUME NEW r \in S PROVE r <= s
    OBVIOUS
  <2>1. n - s <= n - r /\ r \in Int /\ s \in Int
    BY <1>2, <1>4, <1>5
  <2> QED
    BY <2>1
<1>7. \A r \in S : s >= r
  BY <1>6
<1>8. \E r \in S : \A y \in S : r >= y
  BY <1>7
<1>9. Max(S) \in S /\ \A y \in S : Max(S) >= y
  BY <1>8 DEF Max
<1> QED
  BY <1>9

\* Division by a positive number is monotonic.
LEMMA Quotients ==
    ASSUME NEW d \in Nat \ {0}, NEW n \in Nat, NEW m \in Nat, n <= m
    PROVE  n \div d \in Nat /\ n \div d <= m \div d
<1>1. /\ n \div d \in Int /\ m \div d \in Int
      /\ d * (n \div d) <= n /\ n < d * (n \div d) + d
      /\ d * (m \div d) <= m /\ m < d * (m \div d) + d
  OBVIOUS
<1> DEFINE q == n \div d  r == m \div d
<1> HIDE DEF q, r
<1>2. q \in Int /\ r \in Int /\ d * q <= n /\ n < d * q + d /\ d * r <= m /\ m < d * r + d
  BY <1>1 DEF q, r
<1>3. q >= 0
  <2> SUFFICES ASSUME q + 1 <= 0 PROVE FALSE
    BY <1>2
  <2>1. d * (q + 1) <= 0
    BY <1>2
  <2>2. d * (q + 1) = d * q + d
    BY <1>2
  <2> QED
    BY <1>2, <2>1, <2>2
<1>4. q <= r
  <2> SUFFICES ASSUME r + 1 <= q PROVE FALSE
    BY <1>2
  <2>1. d * (r + 1) <= d * q
    BY <1>2
  <2>2. d * (r + 1) = d * r + d
    BY <1>2
  <2> QED
    BY <1>2, <2>1, <2>2
<1> QED
  BY <1>2, <1>3, <1>4 DEF q, r

\* The number of buckets: a power of 2, no less than the least one, and no
\* more for fewer elements.
LEMMA BucketCounts ==
    /\ \A n \in Nat : /\ BucketsFor(n) \in Nat /\ 1 <= BucketsFor(n) /\ MinBuckets <= BucketsFor(n)
                      /\ is_power_of_2(BucketsFor(n))
    /\ \A n, m \in Nat : n <= m => BucketsFor(n) <= BucketsFor(m)
<1> DEFINE S(n) == {p \in 1 .. Ideal(n) : is_power_of_2(p)}
<1>1. MinBuckets \in Nat /\ MinBuckets # 0 /\ is_power_of_2(MinBuckets) /\ BestPerBucket \in Nat \ {0}
  BY HashConstants DEF is_power_of_2
<1>2. ASSUME NEW n \in Nat
      PROVE  Ideal(n) \in Nat /\ MinBuckets <= Ideal(n)
  <2>1. n \div BestPerBucket \in Nat
    BY <1>1, Quotients
  <2> QED
    BY <1>1, <2>1 DEF Ideal
<1>3. ASSUME NEW n \in Nat
      PROVE  /\ BucketsFor(n) \in Nat /\ 1 <= BucketsFor(n) /\ MinBuckets <= BucketsFor(n)
             /\ is_power_of_2(BucketsFor(n)) /\ BucketsFor(n) <= Ideal(n)
             /\ \A p \in S(n) : p <= BucketsFor(n)
  <2>1. MinBuckets \in S(n) /\ S(n) \in SUBSET (1 .. Ideal(n))
    BY <1>1, <1>2
  <2>2. Max(S(n)) \in S(n) /\ \A p \in S(n) : p <= Max(S(n))
    BY <1>2, <2>1, MaxOf
  <2>3. BucketsFor(n) = Max(S(n))
    BY DEF BucketsFor
  <2>4. BucketsFor(n) \in S(n)
    BY <2>2, <2>3
  <2>5. BucketsFor(n) \in 1 .. Ideal(n) /\ is_power_of_2(BucketsFor(n))
    BY <2>4
  <2> QED
    BY <1>2, <2>1, <2>2, <2>3, <2>5
<1>4. ASSUME NEW n \in Nat, NEW m \in Nat, n <= m PROVE BucketsFor(n) <= BucketsFor(m)
  <2>1. Ideal(n) <= Ideal(m)
    <3>1. n \div BestPerBucket <= m \div BestPerBucket /\ n \div BestPerBucket \in Nat
          /\ m \div BestPerBucket \in Nat
      BY <1>1, <1>4, Quotients
    <3> QED
      BY <1>1, <3>1 DEF Ideal
  <2>2. BucketsFor(n) \in 1 .. Ideal(m)
    BY <1>2, <1>3, <2>1
  <2> QED
    BY <1>3, <2>2
<1> QED
  BY <1>3, <1>4

\* Elements and cells are finitely many.
LEMMA Finite ==
    /\ IsFiniteSet(HashElems) /\ IsFiniteSet(HashCells)
    /\ Cardinality(HashElems) \in Nat /\ Cardinality(HashCells) \in Nat
    /\ MaxBuckets \in Nat /\ 1 <= MaxBuckets
    /\ Cardinality(HashElems) <= Cardinality(HashItems)
<1>1. IsFiniteSet(HashItems) /\ Cardinality(HashItems) \in Nat
  BY HashConstants, FS_CardinalityType
<1>2. MaxBuckets \in Nat /\ 1 <= MaxBuckets
  BY <1>1, BucketCounts DEF MaxBuckets
<1>3. IsFiniteSet(HashElems) /\ Cardinality(HashElems) <= Cardinality(HashItems)
  <2> DEFINE f == [i \in HashItems |-> Elem(i)]
  <2>1. f \in Surjection(HashItems, HashElems)
    BY DEF Surjection, HashElems
  <2> QED
    BY <1>1, <2>1, FS_Surjection
<1>4. ASSUME NEW gen
      PROVE  /\ IsFiniteSet({ListHead(b) : b \in Buckets(gen, MaxBuckets)})
             /\ IsFiniteSet({ListTail(b) : b \in Buckets(gen, MaxBuckets)})
  <2> DEFINE I == 0 .. MaxBuckets - 1
             f == [b \in I |-> ListHead(<<gen, b>>)]
             g == [b \in I |-> ListTail(<<gen, b>>)]
  <2>1. IsFiniteSet(I)
    <3>1. 0 \in Int /\ MaxBuckets - 1 \in Int
      BY <1>2
    <3> QED
      BY <3>1, FS_Interval
  <2>2. f \in Surjection(I, {ListHead(b) : b \in Buckets(gen, MaxBuckets)})
    BY DEF Surjection, Buckets
  <2>3. g \in Surjection(I, {ListTail(b) : b \in Buckets(gen, MaxBuckets)})
    BY DEF Surjection, Buckets
  <2> HIDE DEF I, f, g
  <2> QED
    BY <2>1, <2>2, <2>3, FS_Surjection
<1>5. HashCells = HashElems \cup ({ListHead(b) : b \in Buckets(0, MaxBuckets)}
                                    \cup {ListHead(b) : b \in Buckets(1, MaxBuckets)})
                            \cup ({ListTail(b) : b \in Buckets(0, MaxBuckets)}
                                    \cup {ListTail(b) : b \in Buckets(1, MaxBuckets)})
  BY DEF HashCells, AllBuckets
<1>6. IsFiniteSet(HashCells)
  <2>1. IsFiniteSet({ListHead(b) : b \in Buckets(0, MaxBuckets)}
                      \cup {ListHead(b) : b \in Buckets(1, MaxBuckets)})
    BY <1>4, FS_Union
  <2>2. IsFiniteSet({ListTail(b) : b \in Buckets(0, MaxBuckets)}
                      \cup {ListTail(b) : b \in Buckets(1, MaxBuckets)})
    BY <1>4, FS_Union
  <2> QED
    BY <1>3, <1>5, <2>1, <2>2, FS_Union
<1> QED
  BY <1>2, <1>3, <1>6, FS_CardinalityType

\* The arrays of buckets that fit.
LEMMA Arrays ==
    ASSUME NEW gen \in {0, 1}, NEW cnt \in 1 .. MaxBuckets
    PROVE  /\ Buckets(gen, cnt) \subseteq AllBuckets
           /\ \A n \in Nat : <<gen, n % cnt>> \in Buckets(gen, cnt)
           /\ \A b \in 0 .. cnt - 1 : <<gen, b>> \in Buckets(gen, cnt)
           /\ \A l \in Buckets(gen, cnt) : \E b \in 0 .. cnt - 1 : l = <<gen, b>>
           /\ 1 - gen \in {0, 1}
           /\ \A k \in Nat : Buckets(gen, cnt) \cap Buckets(1 - gen, k) = {}
<1>1. MaxBuckets \in Nat
  BY Finite
<1>2. \A n \in Nat : n % cnt \in 0 .. cnt - 1
  BY <1>1
<1>3. 0 .. cnt - 1 \subseteq 0 .. MaxBuckets - 1
  BY <1>1
<1>4. Buckets(gen, cnt) \subseteq AllBuckets
  BY <1>3 DEF Buckets, AllBuckets
<1>5. \A k \in Nat : Buckets(gen, cnt) \cap Buckets(1 - gen, k) = {}
  <2>1. gen # 1 - gen
    OBVIOUS
  <2> QED
    BY <2>1 DEF Buckets
<1>6. \A b \in 0 .. cnt - 1 : <<gen, b>> \in Buckets(gen, cnt)
  BY DEF Buckets
<1>7. \A l \in Buckets(gen, cnt) : \E b \in 0 .. cnt - 1 : l = <<gen, b>>
  BY DEF Buckets
<1>8. \A n \in Nat : <<gen, n % cnt>> \in Buckets(gen, cnt)
  BY <1>2, <1>6
<1>9. 1 - gen \in {0, 1}
  OBVIOUS
<1> QED
  BY <1>4, <1>5, <1>6, <1>7, <1>8, <1>9

-----------------------------------------------------------------------------
(* Walks.                                                                  *)

\* Along next the ranks fall.
LEMMA Falling ==
    ASSUME NEW n \in Nat, NEW r \in [0 .. n -> Nat], \A k \in 0 .. n - 1 : r[k + 1] < r[k]
    PROVE  \A j, k \in 0 .. n : j < k => r[k] < r[j]
<1> DEFINE T == {k \in 0 .. n : \A j \in 0 .. k - 1 : r[k] < r[j]}
<1>1. 0 \in T
  OBVIOUS
<1>2. ASSUME NEW k \in 0 .. n - 1, k \in T PROVE k + 1 \in T
  <2>1. k + 1 \in 0 .. n /\ k \in 0 .. n /\ r[k + 1] < r[k]
    OBVIOUS
  <2>2. ASSUME NEW j \in 0 .. (k + 1) - 1 PROVE r[k + 1] < r[j]
    <3>1. j \in 0 .. n /\ r[j] \in Nat /\ r[k] \in Nat /\ r[k + 1] \in Nat
      BY <2>1
    <3>2. j = k \/ r[k] < r[j]
      BY <1>2
    <3> QED
      BY <2>1, <3>1, <3>2
  <2> QED
    BY <2>1, <2>2
<1> HIDE DEF T
<1>3. 0 .. n \subseteq T
  BY <1>1, <1>2, Induct
<1> QED
  BY <1>3 DEF T

\* f is the cells after list_begin(l), in the order of next; n is how many are
\* before list_end(l).
Visits(m, l, C, n, f) ==
    /\ n \in Nat /\ f \in [0 .. n -> C]
    /\ f[0] = m.next[ListHead(l)] /\ f[n] = ListTail(l)
    /\ \A k \in 0 .. n - 1 : f[k] # ListTail(l) /\ f[k + 1] = m.next[f[k]]
    /\ Walk(m, l) = [k \in 1 .. n |-> f[k - 1]]

\* The loop from list_begin to list_end ends, and has followed next.
LEMMA WalkDefined ==
    ASSUME NEW m, NEW ls, NEW own, NEW rank, Linked(m, ls, own, rank), NEW l \in ls
    PROVE  \E n, f : Visits(m, l, {c \in DOMAIN own : own[c] = l}, n, f)
<1> DEFINE C == {c \in DOMAIN own : own[c] = l}
           most == Cardinality(DOMAIN m.next)
           Over(e) == e \in {Null, list_end(l)}
           Onward(e) == IF Over(e) THEN e ELSE m.next[e]
           pos == CHOOSE p : p = [k \in 0 .. most |->
                                     IF k = 0 THEN list_begin(m, l) ELSE Onward(p[k - 1])]
           Stops(k) == /\ Over(pos[k]) \/ k = most
                       /\ k = 0 \/ ~Over(pos[k - 1])
           len == CHOOSE k \in 0 .. most : Stops(k)
<1>1. Walk(m, l) = [k \in 1 .. len |-> pos[k - 1]]
  BY Zenon DEF Walk
<1>2. DOMAIN m.next = HashCells /\ most \in Nat
  <2>1. DOMAIN m.next = HashCells
    BY TwoLinks DEF Linked
  <2> QED
    BY <2>1, Finite
<1>3. \A c \in C : /\ c \in DOMAIN own /\ own[c] = l /\ c \in HashCells /\ c # Null
                   /\ rank[c] \in Nat
  BY InLists, IsCell
<1>4. ListTail(l) \in C /\ m.next[ListHead(l)] \in C
  <2>1. ListHead(l) \in C /\ ListTail(l) \in C /\ ListHead(l) # ListTail(l)
    BY CellKinds DEF Linked
  <2> QED
    BY <2>1, <1>3, After
<1>5. \A c \in C : c # ListTail(l) => m.next[c] \in C /\ rank[m.next[c]] < rank[c]
  BY <1>3, After
<1>6. \A c \in C : Over(c) <=> c = ListTail(l)
  BY <1>3 DEF list_end
<1> DEFINE step == [c \in C |-> IF c = ListTail(l) THEN c ELSE m.next[c]]
           b == m.next[ListHead(l)]
<1>7. step \in [C -> C]
  BY <1>4, <1>5
<1> HIDE DEF most, C
<1>8. \A c \in C : step[c] = Onward(c)
  BY <1>6
<1> HIDE DEF step
<1>9. b \in C
  BY <1>4
<1>10. PICK f \in [0 .. most -> C] : f[0] = b /\ \A k \in 1 .. most : f[k] = step[f[k - 1]]
  <2> HIDE DEF b
  <2>1. \E f : Repeated(C, b, most, step, f)
    BY <1>2, <1>7, <1>9, Repeats
  <2> QED
    BY <2>1 DEF Repeated
<1>11. \A k \in 1 .. most : k - 1 \in 0 .. most /\ f[k] = step[f[k - 1]] /\ f[k] = Onward(f[k - 1])
  <2> SUFFICES ASSUME NEW k \in 1 .. most
               PROVE  k - 1 \in 0 .. most /\ f[k] = step[f[k - 1]] /\ f[k] = Onward(f[k - 1])
    OBVIOUS
  <2>1. k - 1 \in 0 .. most /\ f[k - 1] \in C
    BY <1>2, <1>10
  <2>2. f[k] = step[f[k - 1]]
    BY <1>10
  <2> QED
    BY <2>1, <2>2, <1>8
<1> HIDE DEF Onward
<1>12. f = [k \in 0 .. most |-> IF k = 0 THEN list_begin(m, l) ELSE Onward(f[k - 1])]
  <2>1. f = [k \in 0 .. most |-> f[k]]
    BY <1>10
  <2>2. \A k \in 0 .. most : f[k] = IF k = 0 THEN list_begin(m, l) ELSE Onward(f[k - 1])
    BY <1>2, <1>10, <1>11 DEF list_begin
  <2> QED
    BY <2>1, <2>2
<1>13. pos = [k \in 0 .. most |-> IF k = 0 THEN list_begin(m, l) ELSE Onward(pos[k - 1])]
  BY <1>12, Zenon
<1> HIDE DEF pos
<1>14. pos[0] = b /\ \A k \in 1 .. most : pos[k] = Onward(pos[k - 1])
  <2>1. 0 \in 0 .. most /\ \A k \in 1 .. most : k \in 0 .. most /\ k # 0
    BY <1>2
  <2> QED
    BY <1>13, <2>1 DEF list_begin
<1>15. \A k \in 0 .. most : pos[k] \in C
  <2> DEFINE T == {k \in 0 .. most : pos[k] \in C}
  <2>1. 0 \in T
    BY <1>2, <1>4, <1>14
  <2>2. ASSUME NEW k \in 0 .. most - 1, k \in T PROVE k + 1 \in T
    <3>1. k + 1 \in 1 .. most /\ (k + 1) - 1 = k /\ k + 1 \in 0 .. most
      BY <1>2
    <3>2. pos[k + 1] = Onward(pos[k])
      BY <3>1, <1>14
    <3>3. pos[k] \in C
      BY <2>2
    <3> QED
      BY <3>1, <3>2, <3>3, <1>7, <1>8
  <2> HIDE DEF T
  <2>3. 0 .. most \subseteq T
    BY <2>1, <2>2, <1>2, Induct
  <2> QED
    BY <2>3 DEF T
<1>16. \A k \in 0 .. most - 1 :
          /\ pos[k] = ListTail(l) => pos[k + 1] = ListTail(l)
          /\ pos[k] # ListTail(l) => pos[k + 1] = m.next[pos[k]] /\ rank[pos[k + 1]] < rank[pos[k]]
  <2> SUFFICES ASSUME NEW k \in 0 .. most - 1
               PROVE  /\ pos[k] = ListTail(l) => pos[k + 1] = ListTail(l)
                      /\ pos[k] # ListTail(l) => pos[k + 1] = m.next[pos[k]] /\ rank[pos[k + 1]] < rank[pos[k]]
    OBVIOUS
  <2>1. k + 1 \in 1 .. most /\ (k + 1) - 1 = k /\ k \in 0 .. most
    BY <1>2
  <2>2. pos[k + 1] = Onward(pos[k]) /\ pos[k] \in C
    BY <2>1, <1>14, <1>15
  <2> QED
    BY <2>2, <1>5, <1>6 DEF Onward
<1>17. \E k \in 0 .. most : pos[k] = ListTail(l)
  <2> SUFFICES ASSUME \A k \in 0 .. most : pos[k] # ListTail(l) PROVE FALSE
    OBVIOUS
  <2> DEFINE r == [k \in 0 .. most |-> rank[pos[k]]]
             p == [k \in 0 .. most |-> pos[k]]
  <2>1. r \in [0 .. most -> Nat]
    BY <1>3, <1>15
  <2>2. \A k \in 0 .. most - 1 : r[k + 1] < r[k]
    <3>1. \A k \in 0 .. most - 1 : k \in 0 .. most /\ k + 1 \in 0 .. most
      BY <1>2
    <3> QED
      BY <3>1, <1>16
  <2> HIDE DEF r
  <2>3. \A j, k \in 0 .. most : j < k => r[k] < r[j]
    BY <2>1, <2>2, <1>2, Falling
  <2>4. \A j, k \in 0 .. most : pos[j] = pos[k] => j = k
    <3> SUFFICES ASSUME NEW j \in 0 .. most, NEW k \in 0 .. most, pos[j] = pos[k] PROVE j = k
      OBVIOUS
    <3>1. r[j] = r[k] /\ r[j] \in Nat
      BY <2>1 DEF r
    <3>2. ~(j < k) /\ ~(k < j)
      BY <2>3, <3>1
    <3> QED
      BY <1>2, <3>2
  <2>5. p \in Injection(0 .. most, HashCells)
    BY <2>4, <1>3, <1>15 DEF Injection, IsInjective
  <2>6. Cardinality(0 .. most) <= Cardinality(HashCells)
    BY <2>5, Finite, FS_Injection
  <2>7. Cardinality(0 .. most) = most + 1
    <3>1. 0 \in Int /\ most \in Int /\ ~(0 > most)
      BY <1>2
    <3> QED
      BY <3>1, FS_Interval
  <2> QED
    BY <1>2, <2>6, <2>7 DEF most
<1> DEFINE K == {k \in 0 .. most : pos[k] = ListTail(l)}
<1>18. PICK n \in K : \A k \in K : n <= k
  <2>1. K \in SUBSET Nat /\ K # {}
    BY <1>2, <1>17
  <2> HIDE DEF K
  <2> QED
    BY <2>1, Least
<1>19. n \in 0 .. most /\ pos[n] = ListTail(l) /\ \A k \in 0 .. n - 1 : pos[k] # ListTail(l) /\ k \in 0 .. most
  <2>1. n \in 0 .. most /\ pos[n] = ListTail(l)
    BY <1>18
  <2>2. \A k \in 0 .. n - 1 : k \in 0 .. most /\ ~(n <= k)
    BY <2>1, <1>2
  <2> QED
    BY <1>18, <2>1, <2>2
<1>20. \A k \in 0 .. most : n <= k => pos[k] = ListTail(l)
  <2> DEFINE T == {k \in 0 .. most : n <= k => pos[k] = ListTail(l)}
  <2>1. 0 \in T
    BY <1>2, <1>19
  <2>2. ASSUME NEW k \in 0 .. most - 1, k \in T PROVE k + 1 \in T
    <3>1. k + 1 \in 0 .. most /\ (n <= k + 1 => n <= k \/ n = k + 1)
      BY <1>2, <1>19
    <3> QED
      BY <2>2, <3>1, <1>16, <1>19
  <2> HIDE DEF T
  <2>3. 0 .. most \subseteq T
    BY <2>1, <2>2, <1>2, Induct
  <2> QED
    BY <2>3 DEF T
<1>21. Stops(n)
  <2>1. Over(pos[n])
    BY <1>19, <1>4, <1>6
  <2>2. n # 0 => n - 1 \in 0 .. n - 1 /\ n - 1 \in 0 .. most
    BY <1>19, <1>2
  <2>3. n # 0 => ~Over(pos[n - 1])
    BY <2>2, <1>19, <1>6, <1>15
  <2> QED
    BY <2>1, <2>3
<1>22. \A k \in 0 .. most : Stops(k) => k = n
  <2> SUFFICES ASSUME NEW k \in 0 .. most, Stops(k), k # n PROVE FALSE
    OBVIOUS
  <2>1. CASE k < n
    <3>1. k \in 0 .. n - 1 /\ k # most
      BY <2>1, <1>2, <1>19
    <3>2. pos[k] # ListTail(l) /\ pos[k] \in C
      BY <3>1, <1>15, <1>19
    <3> QED
      BY <3>1, <3>2, <1>6
  <2>2. CASE n < k
    <3>1. k # 0 /\ k - 1 \in 0 .. most /\ n <= k - 1
      BY <2>2, <1>2, <1>19
    <3>2. Over(pos[k - 1])
      BY <3>1, <1>20, <1>4, <1>6
    <3> QED
      BY <3>1, <3>2
  <2> QED
    BY <2>1, <2>2, <1>2, <1>19
<1> HIDE DEF Stops
<1>23. len = n
  <2>1. n \in 0 .. most
    BY <1>19
  <2> QED
    BY <1>21, <1>22, <2>1
<1> DEFINE w == [k \in 0 .. n |-> pos[k]]
<1>24. /\ n \in Nat /\ 0 \in 0 .. n /\ n \in 0 .. n
       /\ \A k \in 0 .. n : k \in 0 .. most
       /\ \A k \in 0 .. n - 1 : k \in 0 .. n /\ k + 1 \in 0 .. n /\ k \in 0 .. most - 1
       /\ \A k \in 1 .. n : k - 1 \in 0 .. n
  BY <1>2, <1>19
<1>25. w \in [0 .. n -> C]
  BY <1>15, <1>24
<1>26. w[0] = m.next[ListHead(l)] /\ w[n] = ListTail(l)
  BY <1>14, <1>19, <1>24
<1>27. \A k \in 0 .. n - 1 : w[k] # ListTail(l) /\ w[k + 1] = m.next[w[k]]
  BY <1>16, <1>19, <1>24
<1>28. Walk(m, l) = [k \in 1 .. n |-> w[k - 1]]
  BY <1>1, <1>23, <1>24
<1> HIDE DEF w
<1> QED
  BY <1>24, <1>25, <1>26, <1>27, <1>28 DEF C, Visits

\* A walk meets the elements of its list, each once, along links that undo
\* one another.
LEMMA WalkIs ==
    ASSUME NEW m, NEW ls, NEW own, NEW rank, Linked(m, ls, own, rank), NEW l \in ls
    PROVE  LET w == Walk(m, l)
           IN  /\ \E n \in Nat : w \in [1 .. n -> In(own, l)]
               /\ \A e \in In(own, l) : \E k \in DOMAIN w : w[k] = e
               /\ \A j, k \in DOMAIN w : w[j] = w[k] => j = k
               /\ Sound(m, l)
<1> DEFINE C == {c \in DOMAIN own : own[c] = l}
           w == Walk(m, l)
           h == ListHead(l)
           t == ListTail(l)
<1>0. \E n, f : Visits(m, l, C, n, f)
  BY WalkDefined
<1>1. PICK n \in Nat : \E f : Visits(m, l, C, n, f)
  BY <1>0 DEF Visits
<1>2. PICK f : /\ f \in [0 .. n -> C]
               /\ f[0] = m.next[h] /\ f[n] = t
               /\ \A k \in 0 .. n - 1 : f[k] # t /\ f[k + 1] = m.next[f[k]]
               /\ w = [k \in 1 .. n |-> f[k - 1]]
  BY <1>1 DEF Visits
<1>3. \A c \in C : /\ c \in DOMAIN own /\ own[c] = l /\ c \in HashCells /\ rank[c] \in Nat
                   /\ (c # h /\ c # t => c \in In(own, l))
  <2> SUFFICES ASSUME NEW c \in C
               PROVE  /\ c \in DOMAIN own /\ own[c] = l /\ c \in HashCells /\ rank[c] \in Nat
                      /\ (c # h /\ c # t => c \in In(own, l))
    OBVIOUS
  <2>1. /\ c \in DOMAIN own /\ own[c] = l /\ c \in HashCells /\ rank[c] \in Nat
        /\ \A k : c = ListHead(k) \/ c = ListTail(k) => own[c] = k
    BY InLists
  <2>2. c \in HashElems \cup Ends(ls)
    BY <2>1 DEF Linked
  <2>3. c \in Ends(ls) => c = h \/ c = t
    BY <2>1 DEF Ends
  <2> QED
    BY <2>1, <2>2, <2>3 DEF In, Members
<1>4. h \in C /\ t \in C /\ h # t
  BY CellKinds DEF Linked
<1>5. \A c \in C : c # t => /\ m.next[c] \in C /\ rank[m.next[c]] < rank[c]
                            /\ m.next[c] # h /\ m.prev[m.next[c]] = c
  BY <1>3, After
<1>6. In(own, l) \subseteq C /\ \A e \in In(own, l) : e # h /\ e # t
  BY CellKinds DEF In, Members
<1>7. m.prev[h] = Null /\ m.next[t] = Null
  BY <1>3, <1>4 DEF Linked
<1> HIDE DEF C, w, h, t
<1>8. /\ 0 \in 0 .. n /\ n \in 0 .. n
      /\ \A k \in 0 .. n - 1 : k \in 0 .. n /\ k + 1 \in 0 .. n
      /\ \A k \in 1 .. n : k - 1 \in 0 .. n - 1 /\ k \in 0 .. n /\ (k - 1) + 1 = k
  OBVIOUS
<1>9. \A k \in 0 .. n : f[k] # h
  <2> SUFFICES ASSUME NEW k \in 0 .. n PROVE f[k] # h
    OBVIOUS
  <2>1. CASE k = 0
    BY <2>1, <1>2, <1>4, <1>5
  <2>2. CASE k # 0
    <3>1. k - 1 \in 0 .. n - 1 /\ k - 1 \in 0 .. n /\ (k - 1) + 1 = k
      BY <2>2
    <3>2. f[k - 1] # t /\ f[k] = m.next[f[k - 1]] /\ f[k - 1] \in C
      BY <3>1, <1>2
    <3> QED
      BY <3>2, <1>5
  <2> QED
    BY <2>1, <2>2
<1>10. \A j, k \in 0 .. n : f[j] = f[k] => j = k
  <2> DEFINE r == [k \in 0 .. n |-> rank[f[k]]]
  <2>1. r \in [0 .. n -> Nat]
    BY <1>2, <1>3
  <2>2. \A k \in 0 .. n - 1 : r[k + 1] < r[k]
    BY <1>2, <1>5, <1>8
  <2>3. \A k \in 0 .. n : r[k] = rank[f[k]]
    OBVIOUS
  <2> HIDE DEF r
  <2>4. \A j, k \in 0 .. n : j < k => r[k] < r[j]
    BY <2>1, <2>2, Falling
  <2> SUFFICES ASSUME NEW j \in 0 .. n, NEW k \in 0 .. n, f[j] = f[k] PROVE j = k
    OBVIOUS
  <2>5. r[j] = r[k] /\ r[j] \in Nat
    BY <2>1, <2>3
  <2>6. ~(j < k) /\ ~(k < j)
    BY <2>4, <2>5
  <2> QED
    BY <2>6
<1>11. \A c \in C : c # h => \E k \in 0 .. n : f[k] = c
  <2> DEFINE B == {c \in C : c # h /\ \A k \in 0 .. n : f[k] # c}
             R == {rank[c] : c \in B}
  <2> SUFFICES ASSUME B # {} PROVE FALSE
    OBVIOUS
  <2>1. R \in SUBSET Nat /\ R # {}
    BY <1>3
  <2>2. \A c \in B : rank[c] \in R
    OBVIOUS
  <2>3. \A x \in R : \E c \in B : x = rank[c]
    OBVIOUS
  <2> HIDE DEF R
  <2>4. PICK x \in R : \A y \in R : x <= y
    BY <2>1, Least
  <2>5. PICK c \in B : x = rank[c]
    BY <2>3
  <2>6. c \in C /\ c # h /\ c # t /\ \A k \in 0 .. n : f[k] # c
    BY <1>2, <1>8
  <2>7. m.next[c] \in C /\ rank[m.next[c]] < rank[c] /\ m.next[c] # h /\ m.prev[m.next[c]] = c
    BY <2>6, <1>5
  <2>8. m.next[c] \notin B
    <3>1. ~(rank[c] <= rank[m.next[c]])
      BY <2>6, <2>7, <1>3
    <3> QED
      BY <3>1, <2>2, <2>4, <2>5
  <2>9. PICK k \in 0 .. n : f[k] = m.next[c]
    BY <2>7, <2>8
  <2>10. CASE k = 0
    <3>1. m.prev[m.next[h]] = h
      BY <1>4, <1>5
    <3> QED
      BY <2>10, <3>1, <2>6, <2>7, <2>9, <1>2
  <2>11. CASE k # 0
    <3>1. k - 1 \in 0 .. n - 1 /\ k - 1 \in 0 .. n /\ (k - 1) + 1 = k
      BY <2>11
    <3>2. f[k - 1] # t /\ f[k] = m.next[f[k - 1]] /\ f[k - 1] \in C
      BY <3>1, <1>2
    <3>3. m.prev[f[k]] = f[k - 1]
      BY <3>2, <1>5
    <3> QED
      BY <3>1, <3>3, <2>6, <2>7, <2>9
  <2> QED
    BY <2>10, <2>11
<1>12. DOMAIN w = 1 .. n /\ \A k \in 1 .. n : w[k] = f[k - 1]
  BY <1>2
<1>13. w \in [1 .. n -> In(own, l)]
  <2> SUFFICES ASSUME NEW k \in 1 .. n PROVE f[k - 1] \in In(own, l)
    BY <1>2
  <2>1. k - 1 \in 0 .. n - 1 /\ k - 1 \in 0 .. n
    OBVIOUS
  <2> QED
    BY <2>1, <1>2, <1>3, <1>9
<1>14. ASSUME NEW e \in In(own, l) PROVE \E k \in DOMAIN w : w[k] = e
  <2>1. PICK k \in 0 .. n : f[k] = e
    BY <1>6, <1>11
  <2>2. k # n
    BY <2>1, <1>2, <1>6
  <2>3. k + 1 \in 1 .. n /\ (k + 1) - 1 = k
    BY <2>2
  <2>4. w[k + 1] = e
    BY <2>1, <2>3, <1>12
  <2> QED
    BY <2>3, <2>4, <1>12
<1>15. ASSUME NEW j \in DOMAIN w, NEW k \in DOMAIN w, w[j] = w[k] PROVE j = k
  <2>1. j - 1 \in 0 .. n /\ k - 1 \in 0 .. n /\ f[j - 1] = f[k - 1] /\ j \in Int /\ k \in Int
    BY <1>12, <1>15
  <2>2. j - 1 = k - 1
    BY <2>1, <1>10
  <2> QED
    BY <2>1, <2>2
<1>16. Sound(m, l)
  <2> DEFINE path == <<h>> \o w \o <<t>>
  <2>1. w \in Seq(In(own, l)) /\ Len(w) = n
    BY <1>13
  <2> HIDE DEF path
  <2>2. /\ path \in Seq({h, t} \cup In(own, l)) /\ Len(path) = n + 2 /\ DOMAIN path = 1 .. n + 2
        /\ \A k \in 1 .. n + 2 : path[k] = IF k = 1 THEN h ELSE IF k = n + 2 THEN t ELSE w[k - 1]
    BY <2>1 DEF path
  <2>3. path[1] = h /\ \A k \in 2 .. n + 2 : path[k] = f[k - 2] /\ k - 2 \in 0 .. n
    <3>1. \A k \in 2 .. n + 1 : k - 1 \in 1 .. n /\ (k - 1) - 1 = k - 2
      OBVIOUS
    <3>2. \A k \in 2 .. n + 1 : k \in 1 .. n + 2 /\ k # 1 /\ k # n + 2
      OBVIOUS
    <3>3. \A k \in 2 .. n + 1 : path[k] = f[k - 2]
      BY <3>1, <3>2, <2>2, <1>12
    <3>4. path[n + 2] = t /\ (n + 2) - 2 = n
      BY <2>2
    <3>5. \A k \in 2 .. n + 2 : k = n + 2 \/ k \in 2 .. n + 1
      OBVIOUS
    <3>6. \A k \in 2 .. n + 2 : k - 2 \in 0 .. n
      OBVIOUS
    <3> QED
      BY <3>3, <3>4, <3>5, <3>6, <2>2, <1>2
  <2>4. ASSUME NEW k \in 1 .. n + 1
        PROVE  m.next[path[k]] = path[k + 1] /\ m.prev[path[k + 1]] = path[k]
    <3>1. CASE k = 1
      <4>1. path[2] = f[0]
        BY <2>3
      <4> QED
        BY <3>1, <4>1, <2>3, <1>2, <1>4, <1>5
    <3>2. CASE k # 1
      <4>1. k \in 2 .. n + 2 /\ k + 1 \in 2 .. n + 2 /\ (k + 1) - 2 = (k - 2) + 1 /\ k - 2 \in 0 .. n - 1
        BY <3>2
      <4>2. path[k] = f[k - 2] /\ path[k + 1] = f[(k - 2) + 1]
        BY <4>1, <2>3
      <4>3. f[k - 2] # t /\ f[(k - 2) + 1] = m.next[f[k - 2]] /\ f[k - 2] \in C
        BY <4>1, <1>2, <1>8
      <4> QED
        BY <4>2, <4>3, <1>5
    <3> QED
      BY <3>1, <3>2
  <2>5. ASSUME NEW j \in 1 .. n + 2, NEW k \in 1 .. n + 2, path[j] = path[k] PROVE j = k
    <3>1. \A i \in 1 .. n + 2 : i = 1 \/ i \in 2 .. n + 2
      OBVIOUS
    <3>2. \A i \in 2 .. n + 2 : path[i] # h
      BY <2>3, <1>9
    <3>3. CASE j = 1 \/ k = 1
      BY <3>1, <3>2, <3>3, <2>3, <2>5
    <3>4. CASE j # 1 /\ k # 1
      <4>1. j \in 2 .. n + 2 /\ k \in 2 .. n + 2
        BY <3>1, <3>4
      <4>2. f[j - 2] = f[k - 2] /\ j - 2 \in 0 .. n /\ k - 2 \in 0 .. n
        BY <4>1, <2>3, <2>5
      <4>3. j - 2 = k - 2
        BY <4>2, <1>10
      <4> QED
        BY <4>1, <4>3
    <3> QED
      BY <3>3, <3>4
  <2>6. IsInjective(path)
    BY <2>2, <2>5 DEF IsInjective
  <2>7. Len(path) - 1 = n + 1
    BY <2>2
  <2> QED
    BY <2>4, <2>6, <2>7, <1>7 DEF Sound, path, w, h, t
<1> QED
  BY <1>13, <1>14, <1>15, <1>16 DEF w

\* s is a list of the members of E, each once.
Enumerates(s, E) ==
    /\ s \in Seq(HashElems) /\ \A k \in 1 .. Len(s) : s[k] \in E
    /\ \A e \in E : \E k \in 1 .. Len(s) : s[k] = e
    /\ \A j, k \in 1 .. Len(s) : s[j] = s[k] => j = k

\* Two such lists, one after the other.
LEMMA Joined ==
    ASSUME NEW s, NEW D, NEW u, NEW E, Enumerates(s, D), Enumerates(u, E), D \cap E = {}
    PROVE  Enumerates(s \o u, D \cup E)
<1>1. /\ s \in Seq(HashElems) /\ u \in Seq(HashElems) /\ Len(s) \in Nat /\ Len(u) \in Nat
  BY DEF Enumerates
<1> DEFINE n == Len(s)  p == Len(u)  v == s \o u
<1>2. /\ v \in Seq(HashElems) /\ Len(v) = n + p
      /\ \A k \in 1 .. n + p : v[k] = IF k <= n THEN s[k] ELSE u[k - n]
  BY <1>1
<1> HIDE DEF v, n, p
<1>3. /\ \A k \in 1 .. n + p : k <= n => k \in 1 .. n
      /\ \A k \in 1 .. n + p : ~(k <= n) => k - n \in 1 .. p
      /\ \A k \in 1 .. n : k \in 1 .. n + p /\ k <= n
      /\ \A k \in 1 .. p : n + k \in 1 .. n + p /\ ~(n + k <= n) /\ (n + k) - n = k
  BY <1>1 DEF n, p
<1>4. /\ \A k \in 1 .. n : s[k] \in D
      /\ \A k \in 1 .. p : u[k] \in E
      /\ \A e \in D : \E k \in 1 .. n : s[k] = e
      /\ \A e \in E : \E k \in 1 .. p : u[k] = e
      /\ \A j, k \in 1 .. n : s[j] = s[k] => j = k
      /\ \A j, k \in 1 .. p : u[j] = u[k] => j = k
  BY DEF Enumerates, n, p
<1>5. \A k \in 1 .. n + p : v[k] \in D \cup E
  BY <1>2, <1>3, <1>4
<1>6. ASSUME NEW e \in D \cup E PROVE \E k \in 1 .. n + p : v[k] = e
  <2>1. CASE e \in D
    <3>1. PICK k \in 1 .. n : s[k] = e
      BY <1>4, <2>1
    <3> QED
      BY <3>1, <1>2, <1>3
  <2>2. CASE e \in E
    <3>1. PICK k \in 1 .. p : u[k] = e
      BY <1>4, <2>2
    <3>2. n + k \in 1 .. n + p /\ v[n + k] = e
      BY <3>1, <1>2, <1>3
    <3> QED
      BY <3>2
  <2> QED
    BY <2>1, <2>2
<1>7. ASSUME NEW j \in 1 .. n + p, NEW k \in 1 .. n + p, v[j] = v[k] PROVE j = k
  <2>1. CASE j <= n /\ k <= n
    BY <2>1, <1>2, <1>3, <1>4, <1>7
  <2>2. CASE ~(j <= n) /\ ~(k <= n)
    <3>1. u[j - n] = u[k - n] /\ j - n \in 1 .. p /\ k - n \in 1 .. p
      BY <2>2, <1>2, <1>3, <1>7
    <3>2. j - n = k - n
      BY <3>1, <1>4
    <3> QED
      BY <3>2, <1>1 DEF n
  <2>3. CASE (j <= n) # (k <= n)
    <3>1. (v[j] \in D /\ v[k] \in E) \/ (v[j] \in E /\ v[k] \in D)
      BY <2>3, <1>2, <1>3, <1>4
    <3> QED
      BY <3>1, <1>7
  <2> QED
    BY <2>1, <2>2, <2>3
<1> QED
  BY <1>2, <1>5, <1>6, <1>7 DEF Enumerates, v

\* The length of such a list.
LEMMA Counted ==
    ASSUME NEW s, NEW E, Enumerates(s, E)
    PROVE  ToSet(s) = E /\ Len(s) = Cardinality(E)
<1>1. s \in Seq(HashElems) /\ Len(s) \in Nat /\ DOMAIN s = 1 .. Len(s)
  BY DEF Enumerates
<1>2. ToSet(s) = E
  BY <1>1 DEF Enumerates, ToSet
<1>3. ExistsBijection(1 .. Len(s), E)
  <2>1. s \in [1 .. Len(s) -> E]
    BY <1>1 DEF Enumerates
  <2>2. s \in Bijection(1 .. Len(s), E)
    BY <2>1 DEF Bijection, Injection, IsInjective, Surjection, Enumerates
  <2> QED
    BY <2>2 DEF ExistsBijection
<1> QED
  BY <1>1, <1>2, <1>3, FS_CountingElements

\* The loops over the buckets meet every element, each once.
LEMMA ChainIs ==
    ASSUME NEW t, t.gen \in {0, 1}, t.bucket_cnt \in 1 .. MaxBuckets, NEW own, NEW rank,
           Linked(t.links, Buckets(t.gen, t.bucket_cnt), own, rank)
    PROVE  InTable(t) = Members(own) /\ Len(Chain(t)) = Cardinality(Members(own))
<1> DEFINE cnt == t.bucket_cnt
           ls == Buckets(t.gen, cnt)
           ws == [b \in 1 .. cnt |-> Walk(t.links, <<t.gen, b - 1>>)]
           flatten == CHOOSE f : f = [i \in 1 .. Len(ws) |->
                                         IF i = 1 THEN ws[i] ELSE f[i - 1] \o ws[i]]
           S == Seq(HashElems)
<1>1. cnt \in Nat /\ 1 <= cnt /\ cnt <= MaxBuckets /\ MaxBuckets \in Nat
  BY Finite
<1>2. Len(ws) = cnt
  BY <1>1
<1>3. Chain(t) = flatten[cnt]
  <2>1. Chain(t) = FlattenSeq(ws)
    BY DEF Chain
  <2> HIDE DEF ws
  <2>2. FlattenSeq(ws) = IF Len(ws) = 0 THEN ws ELSE flatten[Len(ws)]
    BY Zenon DEF FlattenSeq
  <2>3. Len(ws) # 0
    BY <1>1, <1>2
  <2> HIDE DEF flatten
  <2> QED
    BY <1>2, <2>1, <2>2, <2>3
<1>4. \A b \in 1 .. cnt : <<t.gen, b - 1>> \in ls /\ Enumerates(ws[b], In(own, <<t.gen, b - 1>>))
  <2> SUFFICES ASSUME NEW b \in 1 .. cnt
               PROVE  <<t.gen, b - 1>> \in ls /\ Enumerates(ws[b], In(own, <<t.gen, b - 1>>))
    OBVIOUS
  <2> DEFINE l == <<t.gen, b - 1>>
  <2>1. b - 1 \in 0 .. cnt - 1
    BY <1>1
  <2>2. l \in ls
    BY <2>1 DEF Buckets
  <2>3. ws[b] = Walk(t.links, l)
    OBVIOUS
  <2> HIDE DEF l, ws, ls
  <2>4. /\ \E n \in Nat : Walk(t.links, l) \in [1 .. n -> In(own, l)]
        /\ \A e \in In(own, l) : \E k \in DOMAIN Walk(t.links, l) : Walk(t.links, l)[k] = e
        /\ \A j, k \in DOMAIN Walk(t.links, l) : Walk(t.links, l)[j] = Walk(t.links, l)[k] => j = k
    BY <2>2, WalkIs DEF ls
  <2> DEFINE w == Walk(t.links, l)
  <2> HIDE DEF w
  <2>5. PICK n \in Nat : w \in [1 .. n -> In(own, l)]
    BY <2>4 DEF w
  <2>6. In(own, l) \subseteq HashElems
    BY DEF In, Members
  <2>7. w \in Seq(HashElems) /\ Len(w) = n /\ DOMAIN w = 1 .. n
    BY <2>5, <2>6
  <2>8. Enumerates(w, In(own, l))
    BY <2>4, <2>5, <2>7 DEF w, Enumerates
  <2> QED
    BY <2>2, <2>3, <2>8 DEF w, l
<1> HIDE DEF ws
<1> DEFINE g == [k \in 1 .. cnt |-> [s \in S |-> IF k = 1 THEN ws[k] ELSE s \o ws[k]]]
<1>5. \A b \in 1 .. cnt : ws[b] \in S
  BY <1>4 DEF Enumerates
<1>6. g \in [1 .. cnt -> [S -> S]] /\ << >> \in S
  BY <1>5
<1>7. \A k \in 1 .. cnt, s \in S : g[k][s] = IF k = 1 THEN ws[k] ELSE s \o ws[k]
  OBVIOUS
<1> HIDE DEF g, S
<1>8. \E f : Rounds(S, << >>, cnt, g, f)
  BY <1>1, <1>6, Iterates
<1>9. PICK f \in [0 .. cnt -> S] : f[0] = << >> /\ \A k \in 1 .. cnt : f[k] = g[k][f[k - 1]]
  BY <1>8 DEF Rounds
<1>10. \A k \in 1 .. cnt : f[k] = IF k = 1 THEN ws[k] ELSE f[k - 1] \o ws[k]
  <2> SUFFICES ASSUME NEW k \in 1 .. cnt
               PROVE  f[k] = IF k = 1 THEN ws[k] ELSE f[k - 1] \o ws[k]
    OBVIOUS
  <2>1. k - 1 \in 0 .. cnt
    BY <1>1
  <2>2. f[k - 1] \in S /\ f[k] = g[k][f[k - 1]]
    BY <2>1, <1>9
  <2> QED
    BY <2>2, <1>7
<1> DEFINE h == [k \in 1 .. cnt |-> f[k]]
<1>11. h = [i \in 1 .. Len(ws) |-> IF i = 1 THEN ws[i] ELSE h[i - 1] \o ws[i]]
  <2>1. \A i \in 1 .. cnt : i # 1 => i - 1 \in 1 .. cnt
    BY <1>1
  <2>2. \A i \in 1 .. cnt : h[i] = IF i = 1 THEN ws[i] ELSE h[i - 1] \o ws[i]
    BY <2>1, <1>10
  <2>3. h = [i \in 1 .. cnt |-> h[i]]
    OBVIOUS
  <2> HIDE DEF h
  <2> QED
    BY <1>2, <2>2, <2>3
<1> HIDE DEF h
<1>12. flatten = [i \in 1 .. Len(ws) |-> IF i = 1 THEN ws[i] ELSE flatten[i - 1] \o ws[i]]
  BY <1>11, Zenon
<1> HIDE DEF flatten
<1>13. \A i \in 1 .. cnt : flatten[i] = IF i = 1 THEN ws[i] ELSE flatten[i - 1] \o ws[i]
  BY <1>2, <1>12
<1> DEFINE E(k) == {e \in Members(own) : own[e] \in Buckets(t.gen, k)}
           T == {k \in 0 .. cnt : k = 0 \/ Enumerates(flatten[k], E(k))}
<1>14. 0 \in T
  BY <1>1
<1>15. \A k \in 1 .. cnt : E(k) = E(k - 1) \cup In(own, <<t.gen, k - 1>>)
                          /\ E(k - 1) \cap In(own, <<t.gen, k - 1>>) = {}
  <2> SUFFICES ASSUME NEW k \in 1 .. cnt
               PROVE  E(k) = E(k - 1) \cup In(own, <<t.gen, k - 1>>)
                      /\ E(k - 1) \cap In(own, <<t.gen, k - 1>>) = {}
    OBVIOUS
  <2>1. k \in Int /\ 1 <= k
    BY <1>1
  <2>2. 0 .. k - 1 = (0 .. (k - 1) - 1) \cup {k - 1} /\ k - 1 \notin 0 .. (k - 1) - 1
    BY <2>1
  <2>3. Buckets(t.gen, k) = Buckets(t.gen, k - 1) \cup {<<t.gen, k - 1>>}
    BY <2>2 DEF Buckets
  <2>4. <<t.gen, k - 1>> \notin Buckets(t.gen, k - 1)
    BY <2>2 DEF Buckets
  <2> QED
    BY <2>3, <2>4 DEF In
<1>16. ASSUME NEW k \in 0 .. cnt - 1, k \in T PROVE k + 1 \in T
  <2>1. k + 1 \in 1 .. cnt /\ (k + 1) - 1 = k /\ k + 1 \in 0 .. cnt
    BY <1>1
  <2>2. Enumerates(ws[k + 1], In(own, <<t.gen, k>>))
    BY <1>4, <2>1
  <2>3. E(k + 1) = E(k) \cup In(own, <<t.gen, k>>) /\ E(k) \cap In(own, <<t.gen, k>>) = {}
    BY <1>15, <2>1
  <2>4. CASE k = 0
    <3>1. flatten[k + 1] = ws[k + 1]
      BY <1>13, <2>1, <2>4
    <3>2. E(0) = {}
      BY DEF Buckets
    <3>3. E(k + 1) = In(own, <<t.gen, k>>)
      BY <2>3, <2>4, <3>2
    <3> HIDE DEF E
    <3> QED
      BY <2>1, <2>2, <3>1, <3>3
  <2>5. CASE k # 0
    <3>1. flatten[k + 1] = flatten[k] \o ws[k + 1]
      <4>1. k + 1 # 1
        BY <2>5
      <4>2. flatten[k + 1] = IF k + 1 = 1 THEN ws[k + 1] ELSE flatten[(k + 1) - 1] \o ws[k + 1]
        BY <1>13, <2>1
      <4> QED
        BY <2>1, <4>1, <4>2
    <3> HIDE DEF E
    <3>2. Enumerates(flatten[k], E(k))
      BY <1>16, <2>5
    <3>3. Enumerates(flatten[k + 1], E(k + 1))
      BY <3>1, <3>2, <2>2, <2>3, Joined
    <3> QED
      BY <2>1, <3>3
  <2> QED
    BY <2>4, <2>5
<1> HIDE DEF T
<1>17. 0 .. cnt \subseteq T
  BY <1>1, <1>14, <1>16, Induct
<1>18. Enumerates(flatten[cnt], E(cnt))
  <2>1. cnt \in T /\ cnt # 0
    BY <1>1, <1>17
  <2> HIDE DEF E, cnt
  <2> QED
    BY <2>1 DEF T
<1>19. E(cnt) = Members(own)
  <2>1. \A e \in Members(own) : own[e] \in ls
    BY DEF Linked, Members
  <2> QED
    BY <2>1
<1> QED
  BY <1>3, <1>18, <1>19, Counted DEF InTable

-----------------------------------------------------------------------------
(* Insertion, removal and rehash.                                          *)

\* list_push_front.
LEMMA PushFront ==
    ASSUME NEW m, NEW ls, NEW own, NEW rank, Linked(m, ls, own, rank), NEW l \in ls,
           NEW e \in HashElems, e \notin DOMAIN own
    PROVE  LET r == list_push_front(m, l, e)
           IN  /\ \E rk : Linked(r, ls, Put(own, e, l), rk)
               /\ \A k \in ls : k # l => r.next[ListHead(k)] = m.next[ListHead(k)]
               /\ \A c \in HashCells \ (DOMAIN own \cup {e}) :
                     r.next[c] = m.next[c] /\ r.prev[c] = m.prev[c]
<1> DEFINE h == ListHead(l)
           b == m.next[h]
           r == list_push_front(m, l, e)
<1>1. h \in DOMAIN own /\ own[h] = l /\ h # ListTail(l) /\ m \in Memory
  BY CellKinds DEF Linked
<1>2. b \in DOMAIN own /\ own[b] = l /\ b \in HashCells /\ b # ListHead(own[b]) /\ m.prev[b] = h
  BY <1>1, After
<1>3. r = list_insert(m, b, e)
  BY DEF list_push_front, list_begin
<1>4. \E rk : Linked(r, ls, Put(own, e, own[b]), rk)
  BY <1>2, <1>3, InsertLinked
<1>5. h \in HashCells /\ e \in HashCells /\ e # b /\ h # e
  BY <1>1, <1>2, InLists, IsCell
<1>6. /\ \A c \in HashCells : r.next[c] = IF c = h THEN e ELSE IF c = e THEN b ELSE m.next[c]
      /\ \A c \in HashCells : r.prev[c] = IF c = b THEN e ELSE IF c = e THEN h ELSE m.prev[c]
  BY <1>1, <1>2, <1>3, <1>5, InsertWrites
<1> HIDE DEF r, b
<1>7. \A k \in ls : k # l => ListHead(k) \in HashCells /\ ListHead(k) # h /\ ListHead(k) # e
  BY CellKinds, IsCell DEF Linked
<1>8. \A k \in ls : k # l => r.next[ListHead(k)] = m.next[ListHead(k)]
  BY <1>6, <1>7
<1>9. \A c \in HashCells \ (DOMAIN own \cup {e}) : r.next[c] = m.next[c] /\ r.prev[c] = m.prev[c]
  BY <1>1, <1>2, <1>6
<1> QED
  BY <1>2, <1>4, <1>8, <1>9 DEF r

\* What list_remove leaves alone.
LEMMA RemoveKeeps ==
    ASSUME NEW m, NEW ls, NEW own, NEW rank, Linked(m, ls, own, rank), NEW e \in Members(own)
    PROVE  LET r == list_remove(m, e)
           IN  /\ r \in Memory
               /\ m.prev[e] = ListHead(own[e]) => r.next[ListHead(own[e])] = m.next[e]
               /\ \A c \in HashCells \ DOMAIN own : r.next[c] = m.next[c] /\ r.prev[c] = m.prev[c]
<1> DEFINE r == list_remove(m, e)
<1>0. e \in DOMAIN own /\ e # ListHead(own[e]) /\ e # ListTail(own[e]) /\ e \in HashCells
  BY InLists DEF Members
<1>1. m.prev[e] \in DOMAIN own /\ m.prev[e] \in HashCells /\ m.prev[e] # e
  BY <1>0, Before
<1>2. m.next[e] \in DOMAIN own /\ m.next[e] \in HashCells /\ m.next[e] # e
  BY <1>0, After
<1>3. m \in Memory
  BY DEF Linked
<1>4. /\ r \in Memory
      /\ \A c \in HashCells : r.next[c] = IF c = m.prev[e] THEN m.next[e] ELSE m.next[c]
      /\ \A c \in HashCells : r.prev[c] = IF c = m.next[e] THEN m.prev[e] ELSE m.prev[c]
  BY <1>0, <1>1, <1>2, <1>3, RemoveWrites
<1> HIDE DEF r
<1> QED
  BY <1>1, <1>2, <1>4 DEF r

\* A list is empty when its head is before its tail.
LEMMA BeginIs ==
    ASSUME NEW m, NEW ls, NEW own, NEW rank, Linked(m, ls, own, rank), NEW l \in ls
    PROVE  /\ m.next[ListHead(l)] = ListTail(l) => In(own, l) = {}
           /\ m.next[ListHead(l)] # ListTail(l) =>
                 /\ m.next[ListHead(l)] \in In(own, l)
                 /\ m.prev[m.next[ListHead(l)]] = ListHead(l)
<1> DEFINE h == ListHead(l)  b == m.next[h]
<1>1. h \in DOMAIN own /\ own[h] = l /\ h # ListTail(l)
  BY CellKinds DEF Linked
<1>2. b \in DOMAIN own /\ own[b] = l /\ b # h /\ m.prev[b] = h
  BY <1>1, After
<1>3. ASSUME b # ListTail(l) PROVE b \in In(own, l)
  <2>1. b \in HashElems \cup Ends(ls) /\ \A k : b = ListHead(k) \/ b = ListTail(k) => k = l
    BY <1>2, InLists DEF Linked
  <2>2. b \notin Ends(ls)
    BY <2>1, <1>2, <1>3 DEF Ends
  <2> QED
    BY <2>1, <2>2, <1>2 DEF In, Members
<1>4. ASSUME b = ListTail(l) PROVE In(own, l) = {}
  <2> SUFFICES ASSUME In(own, l) # {} PROVE FALSE
    OBVIOUS
  <2>1. PICK n, f : Visits(m, l, {c \in DOMAIN own : own[c] = l}, n, f)
    BY WalkDefined
  <2>2. n \in Nat /\ f[0] = ListTail(l) /\ \A k \in 0 .. n - 1 : f[k] # ListTail(l)
    BY <2>1, <1>4 DEF Visits
  <2>3. n = 0
    <3>1. n # 0 => 0 \in 0 .. n - 1
      BY <2>2
    <3> QED
      BY <2>2, <3>1
  <2>4. DOMAIN Walk(m, l) = {}
    BY <2>1, <2>3 DEF Visits
  <2>5. \A e \in In(own, l) : \E k \in DOMAIN Walk(m, l) : Walk(m, l)[k] = e
    BY WalkIs
  <2> QED
    BY <2>4, <2>5
<1> QED
  BY <1>2, <1>3, <1>4

\* The elements still in the old array.
Old(own, old) == {e \in Members(own) : own[e] \in Buckets(old.gen, old.bucket_cnt)}

\* How many rounds the loops of rehash take at most.
MostRounds(old) == Cardinality(HashElems) + old.bucket_cnt

(* After k rounds of the loops that move the elements of own0 from m0: the *)
(* lists of both arrays are whole, an element is in its new bucket or in   *)
(* an old one still to come, and elem is the first of the present one.     *)
Moving(k, s, own0, m0, old, new, v) ==
    \E own, rank :
        /\ Linked(s.links, Buckets(old.gen, old.bucket_cnt) \cup Buckets(new.gen, new.bucket_cnt),
                  own, rank)
        /\ DOMAIN own = DOMAIN own0
        /\ s.bucket \in 0 .. old.bucket_cnt - 1
        /\ s.elem = s.links.next[ListHead(<<old.gen, s.bucket>>)]
        /\ \A e \in Members(own) :
              \/ own[e] = find_bucket(new, v[e])
              \/ \E b \in s.bucket .. old.bucket_cnt - 1 : own[e] = <<old.gen, b>>
        /\ \A c \in HashCells \ DOMAIN own0 :
              s.links.next[c] = m0.next[c] /\ s.links.prev[c] = m0.prev[c]
        /\ Cardinality(Old(own, old)) + (old.bucket_cnt - 1 - s.bucket) <= MostRounds(old) - k

\* Two arrays of buckets, one of them to replace the other.
Replaces(new, old) ==
    /\ old.gen \in {0, 1} /\ old.bucket_cnt \in 1 .. MaxBuckets
    /\ new.gen = 1 - old.gen /\ new.bucket_cnt \in 1 .. MaxBuckets

\* Buckets of items.
LEMMA BucketOf ==
    ASSUME NEW t, t.gen \in {0, 1}, t.bucket_cnt \in 1 .. MaxBuckets, NEW x \in Ints
    PROVE  find_bucket(t, x) \in Buckets(t.gen, t.bucket_cnt) /\ HashOf[x] \in Nat
<1>1. HashOf[x] \in Nat
  BY HashConstants
<1> QED
  BY <1>1, Arrays DEF find_bucket

\* A round that moves an element.
LEMMA MoveOne ==
    ASSUME NEW old, NEW new, Replaces(new, old), NEW v \in [HashElems -> Ints],
           NEW own0, NEW m0, NEW s, NEW k \in Nat, Moving(k, s, own0, m0, old, new, v),
           s.elem # list_end(<<old.gen, s.bucket>>)
    PROVE  /\ Moving(k + 1, MoveNext(s, old, new, v), own0, m0, old, new, v)
           /\ k < MostRounds(old)
<1> DEFINE ob == <<old.gen, s.bucket>>
           ls == Buckets(old.gen, old.bucket_cnt) \cup Buckets(new.gen, new.bucket_cnt)
           e == s.elem
           to == find_bucket(new, v[e])
           m1 == list_remove(s.links, e)
           m2 == list_push_front(m1, to, e)
<1>1. PICK own, rank :
        /\ Linked(s.links, ls, own, rank)
        /\ DOMAIN own = DOMAIN own0
        /\ s.bucket \in 0 .. old.bucket_cnt - 1
        /\ e = s.links.next[ListHead(ob)]
        /\ \A d \in Members(own) :
              \/ own[d] = find_bucket(new, v[d])
              \/ \E b \in s.bucket .. old.bucket_cnt - 1 : own[d] = <<old.gen, b>>
        /\ \A c \in HashCells \ DOMAIN own0 :
              s.links.next[c] = m0.next[c] /\ s.links.prev[c] = m0.prev[c]
        /\ Cardinality(Old(own, old)) + (old.bucket_cnt - 1 - s.bucket) <= MostRounds(old) - k
  BY DEF Moving
<1>2. /\ old.gen \in {0, 1} /\ old.bucket_cnt \in 1 .. MaxBuckets
      /\ new.gen \in {0, 1} /\ new.bucket_cnt \in 1 .. MaxBuckets /\ new.gen # old.gen
      /\ old.bucket_cnt \in Nat /\ new.bucket_cnt \in Nat
  BY Finite DEF Replaces
<1>3. ob \in Buckets(old.gen, old.bucket_cnt) /\ ob \in ls
  BY <1>1 DEF Buckets
<1>4. MoveNext(s, old, new, v) = [links |-> m2, bucket |-> s.bucket, elem |-> s.links.next[e]]
  BY DEF MoveNext
<1> HIDE DEF ls, ob, e, to, m1, m2
<1>5. e \in In(own, ob) /\ s.links.prev[e] = ListHead(ob)
  BY <1>1, <1>3, BeginIs DEF list_end, ob, e
<1>6. e \in Members(own) /\ own[e] = ob /\ e \in HashElems /\ e \in DOMAIN own /\ e \in HashCells
  BY <1>5, IsCell DEF In, Members
<1>7. to \in Buckets(new.gen, new.bucket_cnt) /\ to \in ls /\ to # ob
  <2>1. v[e] \in Ints
    BY <1>6
  <2>2. to \in Buckets(new.gen, new.bucket_cnt)
    BY <1>2, <2>1, BucketOf DEF to
  <2>3. to # ob
    BY <1>2, <2>2 DEF Buckets, ob
  <2> QED
    BY <2>2, <2>3 DEF ls
<1> DEFINE own1 == Taken(own, e)
           own2 == Put(own1, e, to)
<1>8. Linked(m1, ls, own1, rank)
  BY <1>1, <1>6, RemoveLinked DEF m1
<1>9. /\ m1.next[ListHead(ob)] = s.links.next[e]
      /\ \A c \in HashCells \ DOMAIN own : m1.next[c] = s.links.next[c] /\ m1.prev[c] = s.links.prev[c]
  BY <1>1, <1>5, <1>6, RemoveKeeps DEF m1
<1>10. e \notin DOMAIN own1
  BY DEF Taken
<1>11. /\ DOMAIN own1 \cup {e} = DOMAIN own /\ DOMAIN own2 = DOMAIN own
       /\ own2[e] = to /\ \A c \in DOMAIN own : c # e => own2[c] = own[c]
  BY <1>6 DEF Taken, Put
<1> HIDE DEF own1
<1>12. /\ \E rk : Linked(m2, ls, own2, rk)
       /\ m2.next[ListHead(ob)] = m1.next[ListHead(ob)]
       /\ \A c \in HashCells \ (DOMAIN own1 \cup {e}) : m2.next[c] = m1.next[c] /\ m2.prev[c] = m1.prev[c]
  BY <1>3, <1>6, <1>7, <1>8, <1>10, PushFront DEF m2
<1> HIDE DEF own2
<1>13. \A c \in HashCells \ DOMAIN own0 : m2.next[c] = m0.next[c] /\ m2.prev[c] = m0.prev[c]
  BY <1>1, <1>9, <1>11, <1>12
<1>14. Members(own2) = Members(own)
  BY <1>11 DEF Members
<1>15. Old(own2, old) = Old(own, old) \ {e} /\ e \in Old(own, old)
  <2>1. to \notin Buckets(old.gen, old.bucket_cnt)
    BY <1>2, <1>7 DEF Buckets
  <2>2. Members(own) \subseteq DOMAIN own
    BY DEF Members
  <2> QED
    BY <2>1, <2>2, <1>3, <1>6, <1>11, <1>14 DEF Old
<1>16. /\ Cardinality(Old(own2, old)) = Cardinality(Old(own, old)) - 1
       /\ Cardinality(Old(own, old)) \in Nat /\ Cardinality(Old(own2, old)) \in Nat
  <2>1. Old(own, old) \in SUBSET HashElems
    BY DEF Old, Members
  <2>2. IsFiniteSet(Old(own, old))
    BY <2>1, Finite, FS_Subset
  <2>3. IsFiniteSet(Old(own2, old)) /\ Cardinality(Old(own2, old)) = Cardinality(Old(own, old)) - 1
    BY <1>15, <2>2, FS_RemoveElement
  <2> QED
    BY <2>2, <2>3, FS_CardinalityType
<1>17. Cardinality(HashElems) \in Nat /\ MostRounds(old) \in Nat /\ s.bucket \in Nat
  BY <1>1, <1>2, Finite DEF MostRounds
<1>18. /\ Cardinality(Old(own2, old)) + (old.bucket_cnt - 1 - s.bucket) <= MostRounds(old) - (k + 1)
       /\ k < MostRounds(old)
  BY <1>1, <1>2, <1>16, <1>17
<1>19. \A d \in Members(own2) :
          \/ own2[d] = find_bucket(new, v[d])
          \/ \E b \in s.bucket .. old.bucket_cnt - 1 : own2[d] = <<old.gen, b>>
  <2> SUFFICES ASSUME NEW d \in Members(own)
               PROVE  \/ own2[d] = find_bucket(new, v[d])
                      \/ \E b \in s.bucket .. old.bucket_cnt - 1 : own2[d] = <<old.gen, b>>
    BY <1>14
  <2>1. d = e \/ own2[d] = own[d]
    BY <1>11 DEF Members
  <2> QED
    BY <2>1, <1>1, <1>11 DEF to
<1> DEFINE s2 == [links |-> m2, bucket |-> s.bucket, elem |-> s.links.next[e]]
<1>20. s2.links = m2 /\ s2.bucket = s.bucket /\ s2.elem = m2.next[ListHead(ob)]
  BY <1>9, <1>12
<1> HIDE DEF s2
<1>21. Moving(k + 1, s2, own0, m0, old, new, v)
  BY <1>1, <1>11, <1>12, <1>13, <1>18, <1>19, <1>20 DEF Moving, ls, ob
<1> QED
  BY <1>4, <1>18, <1>21 DEF s2

\* A round that goes on to the next bucket, or has nothing to do.
LEMMA MoveOn ==
    ASSUME NEW old, NEW new, Replaces(new, old), NEW v \in [HashElems -> Ints],
           NEW own0, NEW m0, NEW s, NEW k \in Nat, Moving(k, s, own0, m0, old, new, v),
           s.elem = list_end(<<old.gen, s.bucket>>)
    PROVE  \/ /\ k < MostRounds(old)
              /\ Moving(k + 1, MoveNext(s, old, new, v), own0, m0, old, new, v)
           \/ k >= MostRounds(old) /\ MoveNext(s, old, new, v) = s
<1> DEFINE ob == <<old.gen, s.bucket>>
           ls == Buckets(old.gen, old.bucket_cnt) \cup Buckets(new.gen, new.bucket_cnt)
<1>1. PICK own, rank :
        /\ Linked(s.links, ls, own, rank)
        /\ DOMAIN own = DOMAIN own0
        /\ s.bucket \in 0 .. old.bucket_cnt - 1
        /\ s.elem = s.links.next[ListHead(ob)]
        /\ \A d \in Members(own) :
              \/ own[d] = find_bucket(new, v[d])
              \/ \E b \in s.bucket .. old.bucket_cnt - 1 : own[d] = <<old.gen, b>>
        /\ \A c \in HashCells \ DOMAIN own0 :
              s.links.next[c] = m0.next[c] /\ s.links.prev[c] = m0.prev[c]
        /\ Cardinality(Old(own, old)) + (old.bucket_cnt - 1 - s.bucket) <= MostRounds(old) - k
  BY DEF Moving
<1>2. /\ old.gen \in {0, 1} /\ old.bucket_cnt \in 1 .. MaxBuckets
      /\ new.gen \in {0, 1} /\ new.bucket_cnt \in 1 .. MaxBuckets /\ new.gen # old.gen
      /\ old.bucket_cnt \in Nat /\ new.bucket_cnt \in Nat /\ s.bucket \in Nat
  BY <1>1, Finite DEF Replaces
<1>3. ob \in Buckets(old.gen, old.bucket_cnt) /\ ob \in ls
  BY <1>1 DEF Buckets
<1> HIDE DEF ls, ob
<1>4. In(own, ob) = {}
  BY <1>1, <1>3, BeginIs DEF list_end, ob
<1>5. \A d \in Members(own) :
         \/ own[d] = find_bucket(new, v[d])
         \/ \E b \in s.bucket + 1 .. old.bucket_cnt - 1 : own[d] = <<old.gen, b>>
  <2> SUFFICES ASSUME NEW d \in Members(own), own[d] # find_bucket(new, v[d])
               PROVE  \E b \in s.bucket + 1 .. old.bucket_cnt - 1 : own[d] = <<old.gen, b>>
    OBVIOUS
  <2>1. PICK b \in s.bucket .. old.bucket_cnt - 1 : own[d] = <<old.gen, b>>
    BY <1>1
  <2>2. b # s.bucket
    BY <2>1, <1>4 DEF In, ob
  <2>3. b \in s.bucket + 1 .. old.bucket_cnt - 1
    BY <2>1, <2>2, <1>2
  <2> QED
    BY <2>1, <2>3
<1>6. Cardinality(HashElems) \in Nat /\ MostRounds(old) \in Nat
  BY <1>2, Finite DEF MostRounds
<1>7. Cardinality(Old(own, old)) \in Nat /\ IsFiniteSet(Old(own, old))
  <2>1. Old(own, old) \in SUBSET HashElems
    BY DEF Old, Members
  <2> QED
    BY <2>1, Finite, FS_Subset, FS_CardinalityType
<1>8. CASE s.bucket + 1 < old.bucket_cnt
  <2> DEFINE s2 == Entered(s.links, old, s.bucket + 1)
  <2>1. MoveNext(s, old, new, v) = s2
    BY <1>8 DEF MoveNext
  <2>2. s2.links = s.links /\ s2.bucket = s.bucket + 1
        /\ s2.elem = s2.links.next[ListHead(<<old.gen, s2.bucket>>)]
    BY DEF Entered, list_begin
  <2>3. s.bucket + 1 \in 0 .. old.bucket_cnt - 1
    BY <1>2, <1>8
  <2>4. /\ Cardinality(Old(own, old)) + (old.bucket_cnt - 1 - (s.bucket + 1)) <= MostRounds(old) - (k + 1)
        /\ k < MostRounds(old)
    BY <1>1, <1>2, <1>6, <1>7, <1>8
  <2> HIDE DEF s2
  <2>5. Moving(k + 1, s2, own0, m0, old, new, v)
    BY <1>1, <1>5, <2>2, <2>3, <2>4 DEF Moving, ls
  <2> QED
    BY <2>1, <2>4, <2>5
<1>9. CASE ~(s.bucket + 1 < old.bucket_cnt)
  <2>1. MoveNext(s, old, new, v) = s /\ s.bucket = old.bucket_cnt - 1
    BY <1>1, <1>2, <1>9 DEF MoveNext
  <2>2. CASE k < MostRounds(old)
    <3>1. Old(own, old) = {}
      <4> SUFFICES ASSUME NEW d \in Old(own, old) PROVE FALSE
        OBVIOUS
      <4>1. d \in Members(own) /\ own[d] \in Buckets(old.gen, old.bucket_cnt) /\ d \in HashElems
        BY DEF Old, Members
      <4>2. s.bucket + 1 .. old.bucket_cnt - 1 = {}
        BY <1>2, <1>9
      <4>3. own[d] = find_bucket(new, v[d])
        BY <1>5, <4>1, <4>2
      <4>4. v[d] \in Ints
        BY <4>1
      <4>5. own[d] \in Buckets(new.gen, new.bucket_cnt)
        BY <1>2, <4>3, <4>4, BucketOf
      <4> QED
        BY <1>2, <4>1, <4>5 DEF Buckets
    <3>2. Cardinality(Old(own, old)) = 0
      BY <3>1, FS_EmptySet
    <3>3. Cardinality(Old(own, old)) + (old.bucket_cnt - 1 - s.bucket) <= MostRounds(old) - (k + 1)
      BY <3>2, <2>1, <2>2, <1>2, <1>6
    <3>4. Moving(k + 1, s, own0, m0, old, new, v)
      BY <1>1, <3>3 DEF Moving, ls, ob
    <3> QED
      BY <2>1, <2>2, <3>4
  <2>3. CASE ~(k < MostRounds(old))
    BY <2>1, <2>3, <1>6
  <2> QED
    BY <2>2, <2>3
<1> QED
  BY <1>8, <1>9

\* The states of the loops.
Cursors(old) == [links : Memory, bucket : 0 .. old.bucket_cnt - 1, elem : HashCells]

\* A round leads to such a state.
LEMMA MoveStep ==
    ASSUME NEW old, NEW new, Replaces(new, old), NEW v \in [HashElems -> Ints],
           NEW own0, NEW m0, NEW s \in Cursors(old), NEW k \in Nat, k <= MostRounds(old),
           Moving(k, s, own0, m0, old, new, v)
    PROVE  /\ MoveNext(s, old, new, v) \in Cursors(old)
           /\ k < MostRounds(old) => Moving(k + 1, MoveNext(s, old, new, v), own0, m0, old, new, v)
           /\ k = MostRounds(old) => MoveNext(s, old, new, v) = s
<1> DEFINE s2 == MoveNext(s, old, new, v)
<1>1. MostRounds(old) \in Nat
  <2>1. old.bucket_cnt \in Nat
    BY Finite DEF Replaces
  <2> QED
    BY <2>1, Finite DEF MostRounds
<1>2. /\ k < MostRounds(old) => Moving(k + 1, s2, own0, m0, old, new, v)
      /\ k = MostRounds(old) => s2 = s
  <2>1. CASE s.elem # list_end(<<old.gen, s.bucket>>)
    <3>1. Moving(k + 1, s2, own0, m0, old, new, v) /\ k < MostRounds(old)
      BY <2>1, MoveOne
    <3> QED
      BY <3>1, <1>1
  <2>2. CASE s.elem = list_end(<<old.gen, s.bucket>>)
    <3>1. \/ k < MostRounds(old) /\ Moving(k + 1, s2, own0, m0, old, new, v)
          \/ k >= MostRounds(old) /\ s2 = s
      BY <2>2, MoveOn
    <3> QED
      BY <3>1, <1>1
  <2> QED
    BY <2>1, <2>2
<1>3. k < MostRounds(old) \/ k = MostRounds(old)
  BY <1>1
<1>4. \E j : Moving(j, s2, own0, m0, old, new, v)
  BY <1>2, <1>3
<1>5. s2.links \in Memory /\ s2.bucket \in 0 .. old.bucket_cnt - 1 /\ s2.elem \in HashCells
  <2> HIDE DEF s2
  <2> DEFINE ls == Buckets(old.gen, old.bucket_cnt) \cup Buckets(new.gen, new.bucket_cnt)
             h == ListHead(<<old.gen, s2.bucket>>)
  <2>1. PICK own, rank : /\ Linked(s2.links, ls, own, rank)
                         /\ s2.bucket \in 0 .. old.bucket_cnt - 1
                         /\ s2.elem = s2.links.next[h]
    BY <1>4 DEF Moving
  <2>2. <<old.gen, s2.bucket>> \in ls
    BY <2>1 DEF Buckets
  <2> HIDE DEF ls
  <2>3. h \in DOMAIN own /\ h # ListTail(own[h])
    BY <2>1, <2>2, CellKinds DEF Linked
  <2>4. s2.links.next[h] \in HashCells
    BY <2>1, <2>3, After
  <2> QED
    BY <2>1, <2>4 DEF Linked
<1>6. s2 = [links |-> s2.links, bucket |-> s2.bucket, elem |-> s2.elem]
  BY DEF MoveNext, Entered, Cursors
<1>7. s2 \in Cursors(old)
  <2> HIDE DEF s2
  <2> QED
    BY <1>5, <1>6 DEF Cursors
<1> QED
  BY <1>2, <1>7

\* The state before the first round.
LEMMA MoveFirst ==
    ASSUME NEW old, NEW new, Replaces(new, old), NEW v \in [HashElems -> Ints], NEW own, NEW rank,
           Linked(new.links, Buckets(old.gen, old.bucket_cnt) \cup Buckets(new.gen, new.bucket_cnt),
                  own, rank),
           \A e \in Members(own) : own[e] \in Buckets(old.gen, old.bucket_cnt)
    PROVE  /\ Entered(new.links, old, 0) \in Cursors(old)
           /\ Moving(0, Entered(new.links, old, 0), own, new.links, old, new, v)
<1> DEFINE ls == Buckets(old.gen, old.bucket_cnt) \cup Buckets(new.gen, new.bucket_cnt)
           s == Entered(new.links, old, 0)
           ob == <<old.gen, 0>>
           h == ListHead(ob)
<1>1. /\ old.bucket_cnt \in Nat /\ 1 <= old.bucket_cnt /\ 0 \in 0 .. old.bucket_cnt - 1
      /\ Cardinality(HashElems) \in Nat
  BY Finite DEF Replaces
<1>2. ob \in ls
  BY <1>1 DEF Buckets
<1>3. s = [links |-> new.links, bucket |-> 0, elem |-> new.links.next[h]]
  BY DEF Entered, list_begin
<1> HIDE DEF ls, s
<1>4. h \in DOMAIN own /\ h # ListTail(own[h])
  BY <1>2, CellKinds DEF Linked, ls
<1>5. new.links.next[h] \in HashCells
  BY <1>4, After
<1>6. new.links \in Memory
  BY DEF Linked
<1>7. s \in Cursors(old)
  BY <1>1, <1>3, <1>5, <1>6 DEF Cursors
<1>8. Cardinality(Old(own, old)) \in Nat /\ Cardinality(Old(own, old)) <= Cardinality(HashElems)
  <2>1. Old(own, old) \in SUBSET HashElems
    BY DEF Old, Members
  <2> QED
    BY <2>1, Finite, FS_Subset, FS_CardinalityType
<1>9. Cardinality(Old(own, old)) + (old.bucket_cnt - 1 - 0) <= MostRounds(old) - 0
  BY <1>1, <1>8 DEF MostRounds
<1>10. \A e \in Members(own) : \E b \in 0 .. old.bucket_cnt - 1 : own[e] = <<old.gen, b>>
  BY DEF Buckets
<1>11. s.links = new.links /\ s.bucket = 0 /\ s.elem = s.links.next[ListHead(<<old.gen, s.bucket>>)]
  BY <1>3
<1>12. Linked(s.links, ls, own, rank)
  BY <1>11 DEF ls
<1>13. Moving(0, s, own, new.links, old, new, v)
  BY <1>1, <1>9, <1>10, <1>11, <1>12 DEF Moving, ls
<1> QED
  BY <1>7, <1>13 DEF s

(* After the loops every element is in its new bucket.                     *)
Settled(m0, m, own0, old, new, v) ==
    \E own, rk :
        /\ Linked(m, Buckets(old.gen, old.bucket_cnt) \cup Buckets(new.gen, new.bucket_cnt), own, rk)
        /\ DOMAIN own = DOMAIN own0
        /\ \A e \in Members(own) : own[e] = find_bucket(new, v[e])
        /\ \A c \in HashCells \ DOMAIN own0 :
              m.next[c] = m0.next[c] /\ m.prev[c] = m0.prev[c]

\* Which they are when the rounds are over.
LEMMA MovedIs ==
    ASSUME NEW old, NEW new, Replaces(new, old), NEW v \in [HashElems -> Ints], NEW own0, NEW rank,
           Linked(new.links, Buckets(old.gen, old.bucket_cnt) \cup Buckets(new.gen, new.bucket_cnt),
                  own0, rank),
           \A e \in Members(own0) : own0[e] \in Buckets(old.gen, old.bucket_cnt)
    PROVE  Settled(new.links, Moved(old, new, v), own0, old, new, v)
<1> DEFINE N == MostRounds(old)
           first == Entered(new.links, old, 0)
           M(k, s) == Moving(k, s, own0, new.links, old, new, v)
           X == {s \in Cursors(old) : \E k \in 0 .. N : M(k, s)}
           step == [s \in X |-> MoveNext(s, old, new, v)]
           after == CHOOSE g : g = [k \in 0 .. N |-> IF k = 0 THEN first
                                                      ELSE MoveNext(g[k - 1], old, new, v)]
<1>1. Moved(old, new, v) = after[N].links
  BY Zenon DEF Moved, MostRounds
<1>2. N \in Nat
  <2>1. old.bucket_cnt \in Nat
    BY Finite DEF Replaces
  <2> QED
    BY <2>1, Finite DEF MostRounds
<1>3. first \in Cursors(old) /\ M(0, first)
  BY MoveFirst
<1> HIDE DEF N, first, M
<1>4. ASSUME NEW s \in Cursors(old), NEW k \in 0 .. N, M(k, s)
      PROVE  /\ MoveNext(s, old, new, v) \in Cursors(old)
             /\ k < N => M(k + 1, MoveNext(s, old, new, v))
             /\ k = N => MoveNext(s, old, new, v) = s
  BY <1>2, <1>4, MoveStep DEF M, N
<1>5. first \in X
  <2>1. 0 \in 0 .. N
    BY <1>2
  <2> QED
    BY <1>3, <2>1
<1>6. ASSUME NEW s \in X PROVE MoveNext(s, old, new, v) \in X
  <2>1. PICK k \in 0 .. N : M(k, s)
    OBVIOUS
  <2>2. s \in Cursors(old)
    OBVIOUS
  <2>3. CASE k < N
    <3>1. k + 1 \in 0 .. N
      BY <1>2, <2>3
    <3> QED
      BY <1>4, <2>1, <2>2, <2>3, <3>1
  <2>4. CASE k = N
    BY <1>4, <2>1, <2>2, <2>4
  <2> QED
    BY <1>2, <2>3, <2>4
<1>7. step \in [X -> X] /\ \A s \in X : step[s] = MoveNext(s, old, new, v)
  BY <1>6
<1>8. X \subseteq Cursors(old)
  OBVIOUS
<1> HIDE DEF X, step
<1>9. PICK f \in [0 .. N -> X] : f[0] = first /\ \A k \in 1 .. N : f[k] = step[f[k - 1]]
  <2> HIDE DEF after
  <2>1. step \in [X -> X]
    BY <1>7
  <2>2. \E f : Repeated(X, first, N, step, f)
    BY <1>2, <1>5, <2>1, Repeats
  <2> QED
    BY <2>2 DEF Repeated
<1>10. f = [k \in 0 .. N |-> IF k = 0 THEN first ELSE MoveNext(f[k - 1], old, new, v)]
  <2>1. ASSUME NEW k \in 0 .. N
        PROVE  f[k] = IF k = 0 THEN first ELSE MoveNext(f[k - 1], old, new, v)
    <3>1. CASE k = 0
      BY <1>9, <3>1
    <3>2. CASE k # 0
      <4>1. k \in 1 .. N /\ k - 1 \in 0 .. N
        BY <1>2, <3>2
      <4>2. f[k - 1] \in X
        BY <1>9, <4>1
      <4> QED
        BY <1>7, <1>9, <3>2, <4>1, <4>2
    <3> QED
      BY <3>1, <3>2
  <2> QED
    BY <2>1, <1>9
<1>11. after = [k \in 0 .. N |-> IF k = 0 THEN first ELSE MoveNext(after[k - 1], old, new, v)]
  BY <1>10
<1> HIDE DEF after
<1> DEFINE T == {k \in 0 .. N : after[k] \in Cursors(old) /\ M(k, after[k])}
<1>12. \A k \in 0 .. N : after[k] = IF k = 0 THEN first ELSE MoveNext(after[k - 1], old, new, v)
  BY <1>11
<1>13. 0 \in T
  <2>1. 0 \in 0 .. N
    BY <1>2
  <2>2. after[0] = first
    BY <1>12, <2>1
  <2> QED
    BY <1>3, <2>1, <2>2
<1>14. ASSUME NEW k \in 0 .. N - 1, k \in T PROVE k + 1 \in T
  <2>1. k + 1 \in 0 .. N /\ k \in 0 .. N /\ k < N /\ k + 1 # 0 /\ (k + 1) - 1 = k
    BY <1>2
  <2>2. after[k + 1] = MoveNext(after[k], old, new, v)
    BY <1>12, <2>1
  <2>3. after[k] \in Cursors(old) /\ M(k, after[k])
    BY <1>14
  <2>4. /\ MoveNext(after[k], old, new, v) \in Cursors(old)
        /\ M(k + 1, MoveNext(after[k], old, new, v))
    BY <1>4, <2>1, <2>3
  <2> QED
    BY <2>1, <2>2, <2>4
<1> HIDE DEF T
<1>15. 0 .. N \subseteq T
  BY <1>2, <1>13, <1>14, Induct
<1>16. M(N, after[N])
  BY <1>2, <1>15 DEF T
<1> DEFINE s == after[N]
           ls == Buckets(old.gen, old.bucket_cnt) \cup Buckets(new.gen, new.bucket_cnt)
<1> HIDE DEF s, ls
<1>17. Moving(N, s, own0, new.links, old, new, v)
  BY <1>16 DEF M, s
<1>18. PICK own, rk :
          /\ Linked(s.links, ls, own, rk)
          /\ DOMAIN own = DOMAIN own0
          /\ s.bucket \in 0 .. old.bucket_cnt - 1
          /\ \A e \in Members(own) :
                \/ own[e] = find_bucket(new, v[e])
                \/ \E b \in s.bucket .. old.bucket_cnt - 1 : own[e] = <<old.gen, b>>
          /\ \A c \in HashCells \ DOMAIN own0 :
                s.links.next[c] = new.links.next[c] /\ s.links.prev[c] = new.links.prev[c]
          /\ Cardinality(Old(own, old)) + (old.bucket_cnt - 1 - s.bucket) <= MostRounds(old) - N
  BY <1>17 DEF Moving, ls
<1>19. Old(own, old) = {}
  <2>1. Old(own, old) \in SUBSET HashElems
    BY DEF Old, Members
  <2>2. IsFiniteSet(Old(own, old)) /\ Cardinality(Old(own, old)) \in Nat
    BY <2>1, Finite, FS_Subset, FS_CardinalityType
  <2>3. MostRounds(old) - N = 0 /\ old.bucket_cnt \in Nat
    BY <1>2, Finite DEF N, Replaces
  <2>4. Cardinality(Old(own, old)) = 0
    BY <1>18, <2>2, <2>3
  <2> QED
    BY <2>2, <2>4, FS_EmptySet
<1>20. ASSUME NEW e \in Members(own) PROVE own[e] = find_bucket(new, v[e])
  <2>1. ASSUME NEW b \in s.bucket .. old.bucket_cnt - 1 PROVE own[e] # <<old.gen, b>>
    <3>1. b \in 0 .. old.bucket_cnt - 1
      BY <1>18
    <3> QED
      BY <1>19, <3>1 DEF Old, Buckets
  <2> QED
    BY <1>18, <2>1
<1>21. Moved(old, new, v) = s.links
  BY <1>1 DEF s
<1> QED
  BY <1>18, <1>20, <1>21 DEF Settled, ls

-----------------------------------------------------------------------------
(* Tables.                                                                 *)

Tables == [links : Memory, elem_cnt : Nat,
           bucket_cnt : {p \in 1 .. MaxBuckets : is_power_of_2(p)}, gen : {0, 1}]

(* The buckets of t are linked, no other bucket is, and elem_cnt counts.   *)
Whole(t, own, rank) ==
    /\ t \in Tables
    /\ Linked(t.links, Buckets(t.gen, t.bucket_cnt), own, rank)
    /\ Blank(t.links, Ends(AllBuckets) \ DOMAIN own)
    /\ t.elem_cnt = Cardinality(Members(own))

(* Every element is in the bucket of its data.                             *)
Placed(t, v, own) == \A e \in Members(own) : own[e] = find_bucket(t, v[e])

\* The fields of a table.
LEMMA TableFields ==
    ASSUME NEW t \in Tables
    PROVE  /\ t.links \in Memory /\ t.elem_cnt \in Nat /\ t.gen \in {0, 1}
           /\ t.bucket_cnt \in 1 .. MaxBuckets /\ is_power_of_2(t.bucket_cnt)
           /\ t.bucket_cnt \in Nat
BY Finite DEF Tables

\* How many elements there can be.
LEMMA MembersCount ==
    ASSUME NEW own
    PROVE  /\ Members(own) \subseteq HashElems /\ IsFiniteSet(Members(own))
           /\ Cardinality(Members(own)) \in Nat
           /\ BucketsFor(Cardinality(Members(own))) \in 1 .. MaxBuckets
           /\ is_power_of_2(BucketsFor(Cardinality(Members(own))))
<1>1. Members(own) \in SUBSET HashElems
  BY DEF Members
<1>2. /\ IsFiniteSet(Members(own)) /\ Cardinality(Members(own)) \in Nat
      /\ Cardinality(Members(own)) <= Cardinality(HashElems)
  BY <1>1, Finite, FS_Subset, FS_CardinalityType
<1>3. Cardinality(HashItems) \in Nat
  BY HashConstants, FS_CardinalityType
<1>4. Cardinality(Members(own)) <= Cardinality(HashItems)
  BY <1>2, <1>3, Finite
<1>5. BucketsFor(Cardinality(Members(own))) <= MaxBuckets
  BY <1>2, <1>3, <1>4, BucketCounts DEF MaxBuckets
<1>6. /\ BucketsFor(Cardinality(Members(own))) \in Nat
      /\ 1 <= BucketsFor(Cardinality(Members(own)))
      /\ is_power_of_2(BucketsFor(Cardinality(Members(own))))
  BY <1>2, BucketCounts
<1>7. BucketsFor(Cardinality(Members(own))) \in 1 .. MaxBuckets
  BY <1>5, <1>6, Finite
<1> QED
  BY <1>1, <1>2, <1>6, <1>7

\* insert_elem.
LEMMA InsertWhole ==
    ASSUME NEW t, NEW own, NEW rank, Whole(t, own, rank),
           NEW l \in Buckets(t.gen, t.bucket_cnt), NEW e \in HashElems, e \notin DOMAIN own
    PROVE  \E rk : Whole(insert_elem(t, l, e), Put(own, e, l), rk)
<1> DEFINE m == list_push_front(t.links, l, e)
           t2 == insert_elem(t, l, e)
           own2 == Put(own, e, l)
<1>1. t \in Tables /\ Linked(t.links, Buckets(t.gen, t.bucket_cnt), own, rank)
  BY DEF Whole
<1>2. PICK rk : Linked(m, Buckets(t.gen, t.bucket_cnt), own2, rk)
  BY <1>1, PushFront
<1>3. \A c \in HashCells \ (DOMAIN own \cup {e}) :
          m.next[c] = t.links.next[c] /\ m.prev[c] = t.links.prev[c]
  BY <1>1, PushFront
<1>4. m \in Memory
  BY <1>2 DEF Linked
<1>5. DOMAIN own2 = DOMAIN own \cup {e}
  BY DEF Put
<1> HIDE DEF m, own2
<1>6. /\ t2 \in Tables /\ t2.links = m /\ t2.gen = t.gen /\ t2.bucket_cnt = t.bucket_cnt
      /\ t2.elem_cnt = t.elem_cnt + 1
  <2>1. t.elem_cnt + 1 \in Nat
    BY <1>1, TableFields
  <2> QED
    BY <1>1, <1>4, <2>1 DEF insert_elem, Tables, m
<1> HIDE DEF t2
<1>7. Blank(t2.links, Ends(AllBuckets) \ DOMAIN own2)
  <2>1. Ends(AllBuckets) \subseteq HashCells
    BY IsCell
  <2>2. Blank(t.links, Ends(AllBuckets) \ DOMAIN own)
    BY DEF Whole
  <2> QED
    BY <2>1, <2>2, <1>3, <1>5, <1>6 DEF Blank
<1>8. t2.elem_cnt = Cardinality(Members(own2))
  <2>1. Members(own2) = Members(own) \cup {e} /\ e \notin Members(own)
    BY <1>5 DEF Members
  <2>2. IsFiniteSet(Members(own))
    BY MembersCount
  <2>3. Cardinality(Members(own2)) = Cardinality(Members(own)) + 1
    BY <2>1, <2>2, FS_AddElement
  <2>4. t.elem_cnt = Cardinality(Members(own))
    BY DEF Whole
  <2> QED
    BY <1>6, <2>3, <2>4
<1>9. Whole(t2, own2, rk)
  BY <1>2, <1>6, <1>7, <1>8 DEF Whole
<1> QED
  BY <1>9 DEF t2, own2

\* remove_elem.
LEMMA RemoveWhole ==
    ASSUME NEW t, NEW own, NEW rank, Whole(t, own, rank), NEW e \in Members(own)
    PROVE  Whole(remove_elem(t, e), Taken(own, e), rank)
<1> DEFINE m == list_remove(t.links, e)
           t2 == remove_elem(t, e)
           own2 == Taken(own, e)
<1>1. t \in Tables /\ Linked(t.links, Buckets(t.gen, t.bucket_cnt), own, rank)
  BY DEF Whole
<1>2. Linked(m, Buckets(t.gen, t.bucket_cnt), own2, rank)
  BY <1>1, RemoveLinked
<1>3. \A c \in HashCells \ DOMAIN own : m.next[c] = t.links.next[c] /\ m.prev[c] = t.links.prev[c]
  BY <1>1, RemoveKeeps
<1>4. m \in Memory
  BY <1>2 DEF Linked
<1>5. DOMAIN own2 = DOMAIN own \ {e}
  BY DEF Taken
<1> HIDE DEF m, own2
<1>6. /\ Cardinality(Members(own2)) = Cardinality(Members(own)) - 1
      /\ Cardinality(Members(own2)) \in Nat
      /\ t.elem_cnt = Cardinality(Members(own))
  <2>1. Members(own2) = Members(own) \ {e}
    BY <1>5 DEF Members
  <2>2. IsFiniteSet(Members(own)) /\ Cardinality(Members(own2)) \in Nat
    BY MembersCount
  <2>3. Cardinality(Members(own2)) = Cardinality(Members(own)) - 1
    BY <2>1, <2>2, FS_RemoveElement
  <2> QED
    BY <2>2, <2>3 DEF Whole
<1>7. t.elem_cnt - 1 \in Nat
  BY <1>6
<1>8. /\ t2 \in Tables /\ t2.links = m /\ t2.gen = t.gen /\ t2.bucket_cnt = t.bucket_cnt
      /\ t2.elem_cnt = t.elem_cnt - 1
  BY <1>1, <1>4, <1>7 DEF remove_elem, Tables, m
<1> HIDE DEF t2
<1>9. Blank(t2.links, Ends(AllBuckets) \ DOMAIN own2)
  <2>1. Ends(AllBuckets) \subseteq HashCells /\ e \notin Ends(AllBuckets)
    BY IsCell, CellKinds DEF Ends, Members
  <2>2. Blank(t.links, Ends(AllBuckets) \ DOMAIN own)
    BY DEF Whole
  <2> QED
    BY <2>1, <2>2, <1>3, <1>5, <1>8 DEF Blank
<1>10. Whole(t2, own2, rank)
  BY <1>2, <1>6, <1>8, <1>9 DEF Whole
<1> QED
  BY <1>10 DEF t2, own2

\* A table of empty lists.
LEMMA EmptyLists ==
    ASSUME NEW m \in Memory, NEW ls \in SUBSET AllBuckets
    PROVE  \E own, rank : /\ Linked(ListsMade(m, ls), ls, own, rank)
                          /\ DOMAIN own = Ends(ls) /\ Members(own) = {}
<1> DEFINE own0 == [c \in {} |-> Null]
           rank0 == [c \in HashCells |-> 0]
<1>1. Linked(m, {}, own0, rank0)
  BY DEF Linked
<1>2. PICK rank : Linked(ListsMade(m, ls), {} \cup ls, Added(own0, ls), rank)
  <2> HIDE DEF own0, rank0
  <2> QED
    BY <1>1, MadeLinked
<1>3. DOMAIN Added(own0, ls) = Ends(ls)
  BY DEF Added
<1>4. Members(Added(own0, ls)) = {}
  BY <1>3, CellKinds DEF Members, Ends
<1>5. {} \cup ls = ls
  OBVIOUS
<1> HIDE DEF own0
<1> QED
  BY <1>2, <1>3, <1>4, <1>5

\* hash_init.
LEMMA InitWhole ==
    \E own, rank : /\ Whole(hash_init, own, rank)
                   /\ Blank(hash_init.links, HashCells \ DOMAIN own) /\ Members(own) = {}
<1> DEFINE m == Unlinked(HashCells)
           ls == Buckets(0, MinBuckets)
           r == ListsMade(m, ls)
<1>1. m \in Memory /\ \A c \in HashCells : m.next[c] = Null /\ m.prev[c] = Null
  BY DEF Unlinked, Memory
<1>2. MinBuckets \in 1 .. MaxBuckets /\ is_power_of_2(MinBuckets)
  <2>1. MinBuckets \in Nat /\ MinBuckets # 0 /\ is_power_of_2(MinBuckets)
    BY HashConstants DEF is_power_of_2
  <2>2. MinBuckets <= MaxBuckets
    BY HashConstants, FS_CardinalityType, BucketCounts DEF MaxBuckets
  <2> QED
    BY <2>1, <2>2, Finite
<1>3. ls \in SUBSET AllBuckets
  BY <1>2, Arrays
<1>4. hash_init = [links |-> r, elem_cnt |-> 0, bucket_cnt |-> MinBuckets, gen |-> 0]
  BY DEF hash_init
<1> HIDE DEF m, ls
<1>5. PICK own, rank : Linked(r, ls, own, rank) /\ DOMAIN own = Ends(ls) /\ Members(own) = {}
  BY <1>1, <1>3, EmptyLists
<1>6. r \in Memory /\ \A c \in HashCells \ Ends(ls) : r.next[c] = m.next[c] /\ r.prev[c] = m.prev[c]
  BY <1>1, <1>3, MadeWrites
<1> HIDE DEF r
<1>7. Blank(r, HashCells \ DOMAIN own)
  BY <1>1, <1>5, <1>6 DEF Blank
<1>8. Blank(r, Ends(AllBuckets) \ DOMAIN own)
  BY <1>7, IsCell DEF Blank
<1>9. Cardinality(Members(own)) = 0
  BY <1>5, FS_EmptySet
<1>10. /\ hash_init \in Tables /\ hash_init.links = r /\ hash_init.elem_cnt = 0
       /\ Buckets(hash_init.gen, hash_init.bucket_cnt) = ls
  BY <1>2, <1>4, <1>6 DEF Tables, ls
<1>11. Whole(hash_init, own, rank)
  BY <1>5, <1>8, <1>9, <1>10 DEF Whole
<1> QED
  BY <1>5, <1>7, <1>10, <1>11

\* rehash: the elements stay, and in a new array each is in its bucket.
LEMMA RehashWhole ==
    ASSUME NEW t, NEW own, NEW rank, Whole(t, own, rank), NEW v \in [HashElems -> Ints],
           NEW memory \in BOOLEAN
    PROVE  \E o, rk : /\ Whole(rehash(t, v, memory), o, rk) /\ Members(o) = Members(own)
                      /\ \/ rehash(t, v, memory) = t /\ o = own
                         \/ /\ rehash(t, v, memory).bucket_cnt # t.bucket_cnt
                            /\ Placed(rehash(t, v, memory), v, o)
<1> DEFINE cnt == BucketsFor(t.elem_cnt)
           made == ListsMade(t.links, Buckets(1 - t.gen, cnt))
           new == [t EXCEPT !.bucket_cnt = cnt, !.gen = 1 - t.gen,
                            !.links = ListsMade(@, Buckets(1 - t.gen, cnt))]
           olds == Buckets(t.gen, t.bucket_cnt)
           news == Buckets(1 - t.gen, cnt)
           moved == Moved(t, new, v)
           freed == ListsFreed(moved, olds)
           t2 == [new EXCEPT !.links = freed]
<1>1. /\ t \in Tables /\ Linked(t.links, olds, own, rank)
      /\ Blank(t.links, Ends(AllBuckets) \ DOMAIN own)
      /\ t.elem_cnt = Cardinality(Members(own))
  BY DEF Whole
<1>2. CASE cnt = t.bucket_cnt \/ ~memory
  <2>1. rehash(t, v, memory) = t
    BY <1>2 DEF rehash
  <2> QED
    BY <2>1
<1>3. CASE ~(cnt = t.bucket_cnt \/ ~memory)
  <2>1. rehash(t, v, memory) = t2
    BY <1>3 DEF rehash
  <2>2. /\ t.links \in Memory /\ t.gen \in {0, 1} /\ 1 - t.gen \in {0, 1} /\ t.elem_cnt \in Nat
        /\ t.bucket_cnt \in 1 .. MaxBuckets /\ cnt \in 1 .. MaxBuckets /\ is_power_of_2(cnt)
        /\ cnt \in Nat /\ t.bucket_cnt \in Nat
    BY <1>1, TableFields, MembersCount, Finite
  <2> HIDE DEF cnt
  <2>3. news \in SUBSET AllBuckets /\ news \cap olds = {} /\ olds \in SUBSET AllBuckets
    BY <2>2, Arrays
  <2>4. /\ new.links = made /\ new.gen = 1 - t.gen /\ new.bucket_cnt = cnt
        /\ new = [links |-> made, elem_cnt |-> t.elem_cnt, bucket_cnt |-> cnt, gen |-> 1 - t.gen]
    <3>1. t = [links |-> t.links, elem_cnt |-> t.elem_cnt, bucket_cnt |-> t.bucket_cnt, gen |-> t.gen]
      BY <1>1 DEF Tables
    <3>2. new = [t EXCEPT !.bucket_cnt = cnt, !.gen = 1 - t.gen, !.links = made]
      BY <3>1
    <3> HIDE DEF made, new
    <3> QED
      BY <3>1, <3>2
  <2> HIDE DEF new, freed
  <2>5. t2 = [links |-> freed, elem_cnt |-> t.elem_cnt, bucket_cnt |-> cnt, gen |-> 1 - t.gen]
    BY <2>4
  <2>6. Replaces(new, t)
    BY <2>2, <2>4 DEF Replaces
  <2>7. Buckets(new.gen, new.bucket_cnt) = news
    BY <2>4
  <2>8. made = ListsMade(t.links, news)
    OBVIOUS
  <2> HIDE DEF made, new, olds, news, moved, freed, t2
  <2> DEFINE own0 == Added(own, news)
  <2>9. PICK rk0 : Linked(made, olds \cup news, own0, rk0)
    BY <1>1, <2>3, <2>8, MadeLinked
  <2>10. /\ DOMAIN own0 = DOMAIN own \cup Ends(news)
         /\ \A e \in DOMAIN own : e \notin Ends(news) => own0[e] = own[e]
    BY DEF Added
  <2> HIDE DEF own0
  <2>11. Members(own0) = Members(own) /\ \A e \in Members(own) : own0[e] \in olds
    <3>1. \A e \in HashElems : e \notin Ends(news)
      BY CellKinds DEF Ends
    <3>2. \A e \in DOMAIN own : own[e] \in olds
      BY <1>1, InLists
    <3> QED
      BY <2>10, <3>1, <3>2 DEF Members
  <2>12. PICK own1, rk :
            /\ Linked(moved, olds \cup news, own1, rk)
            /\ DOMAIN own1 = DOMAIN own0
            /\ \A e \in Members(own1) : own1[e] = find_bucket(new, v[e])
            /\ \A c \in HashCells \ DOMAIN own0 :
                  moved.next[c] = made.next[c] /\ moved.prev[c] = made.prev[c]
    <3>1. Linked(new.links, Buckets(t.gen, t.bucket_cnt) \cup Buckets(new.gen, new.bucket_cnt), own0, rk0)
      BY <2>4, <2>7, <2>9 DEF olds
    <3>2. \A e \in Members(own0) : own0[e] \in Buckets(t.gen, t.bucket_cnt)
      BY <2>11 DEF olds
    <3>3. Settled(new.links, Moved(t, new, v), own0, t, new, v)
      BY <2>6, <3>1, <3>2, MovedIs
    <3> QED
      BY <3>3, <2>4, <2>7 DEF Settled, olds, moved
  <2>13. Members(own1) = Members(own)
    BY <2>11, <2>12 DEF Members
  <2>14. \A e \in Members(own1) : own1[e] \in news /\ own1[e] \notin olds
    <3> SUFFICES ASSUME NEW e \in Members(own1) PROVE own1[e] \in news
      BY <2>3
    <3>1. v[e] \in Ints
      BY DEF Members
    <3>2. find_bucket(new, v[e]) \in Buckets(new.gen, new.bucket_cnt)
      BY <2>2, <2>4, <3>1, BucketOf
    <3> QED
      BY <2>7, <2>12, <3>2
  <2> DEFINE own2 == Dropped(own1, olds)
  <2>15. Linked(freed, (olds \cup news) \ olds, own2, rk)
    BY <2>12, <2>14, FreedLinked DEF freed
  <2>16. (olds \cup news) \ olds = news
    BY <2>3
  <2>17. /\ DOMAIN own2 = DOMAIN own1 \ Ends(olds)
         /\ \A e \in DOMAIN own2 : own2[e] = own1[e]
    BY DEF Dropped
  <2> HIDE DEF own2
  <2>18. Members(own2) = Members(own)
    <3>1. \A e \in HashElems : e \notin Ends(olds)
      BY CellKinds DEF Ends
    <3> QED
      BY <2>13, <2>17, <3>1 DEF Members
  <2>19. /\ t2.links = freed /\ t2.elem_cnt = t.elem_cnt /\ t2.bucket_cnt = cnt /\ t2.gen = 1 - t.gen
         /\ t2 \in Tables
    <3>1. freed \in Memory
      BY <2>15 DEF Linked
    <3> QED
      BY <2>2, <2>5, <3>1 DEF Tables
  <2>20. Blank(freed, Ends(AllBuckets) \ DOMAIN own2)
    <3> SUFFICES ASSUME NEW c \in Ends(AllBuckets), c \notin DOMAIN own2
                 PROVE  freed.next[c] = Null /\ freed.prev[c] = Null
      BY DEF Blank
    <3>1. c \in HashCells
      BY IsCell
    <3>2. moved \in Memory
      BY <2>12 DEF Linked
    <3>3. /\ freed.next[c] = IF c \in Ends(olds) THEN Null ELSE moved.next[c]
          /\ freed.prev[c] = IF c \in Ends(olds) THEN Null ELSE moved.prev[c]
      BY <3>1, <3>2, FreedWrites DEF freed
    <3>4. CASE c \in Ends(olds)
      BY <3>3, <3>4
    <3>5. CASE c \notin Ends(olds)
      <4>1. c \notin DOMAIN own0 /\ c \notin DOMAIN own /\ c \notin Ends(news)
        BY <2>10, <2>12, <2>17, <3>5
      <4>2. moved.next[c] = made.next[c] /\ moved.prev[c] = made.prev[c]
        BY <2>12, <3>1, <4>1
      <4>3. made.next[c] = t.links.next[c] /\ made.prev[c] = t.links.prev[c]
        BY <2>2, <2>3, <2>8, <3>1, <4>1, MadeWrites
      <4>4. t.links.next[c] = Null /\ t.links.prev[c] = Null
        BY <1>1, <4>1 DEF Blank
      <4> QED
        BY <3>3, <3>5, <4>2, <4>3, <4>4
    <3> QED
      BY <3>4, <3>5
  <2>21. Whole(t2, own2, rk)
    BY <1>1, <2>15, <2>16, <2>18, <2>19, <2>20 DEF Whole, news
  <2>22. Placed(t2, v, own2)
    <3>1. \A x : find_bucket(t2, x) = find_bucket(new, x)
      BY <2>4, <2>19 DEF find_bucket
    <3> QED
      BY <2>12, <2>13, <2>17, <2>18, <3>1 DEF Placed, Members
  <2> QED
    BY <2>1, <2>18, <2>19, <2>21, <2>22, <1>3
<1> QED
  BY <1>2, <1>3

-----------------------------------------------------------------------------
(* Finding.                                                                *)

\* Equality of data is an equivalence, and equal data have one bucket.
LEMMA EqualData ==
    /\ \A x, y \in Ints : Equal(x, y) <=> HashOf[x] = HashOf[y]
    /\ \A x, y \in Ints : \A t : Equal(x, y) => find_bucket(t, x) = find_bucket(t, y)
<1>1. \A x \in Ints : HashOf[x] \in Nat
  BY HashConstants
<1>2. \A x, y \in Ints : Equal(x, y) <=> HashOf[x] = HashOf[y]
  BY <1>1 DEF Equal, HashLess
<1> QED
  BY <1>2 DEF find_bucket

\* find_elem gives an equal element of the table, and when every element is
\* in the bucket of its data, gives none only if there is none.
LEMMA FindIs ==
    ASSUME NEW t, NEW own, NEW rank, Whole(t, own, rank), NEW v \in [HashElems -> Ints],
           NEW x \in Ints
    PROVE  LET found == find_elem(t, v, x)
           IN  /\ found # NoElem => found \in Members(own) /\ Equal(v[found], x)
               /\ Placed(t, v, own) /\ found = NoElem => \A e \in Members(own) : ~Equal(v[e], x)
<1> DEFINE l == find_bucket(t, x)
           w == Walk(t.links, l)
           equals == {k \in DOMAIN w : Equal(v[w[k]], x)}
           found == find_elem(t, v, x)
<1>1. t \in Tables /\ Linked(t.links, Buckets(t.gen, t.bucket_cnt), own, rank)
  BY DEF Whole
<1>2. l \in Buckets(t.gen, t.bucket_cnt)
  BY <1>1, TableFields, BucketOf
<1>3. found = IF equals = {} THEN NoElem ELSE w[Min(equals)]
  BY DEF find_elem
<1> HIDE DEF found, w, l
<1>4. /\ \E n \in Nat : w \in [1 .. n -> In(own, l)]
      /\ \A e \in In(own, l) : \E k \in DOMAIN w : w[k] = e
  BY <1>1, <1>2, WalkIs DEF w
<1>5. PICK n \in Nat : w \in [1 .. n -> In(own, l)]
  BY <1>4
<1>6. \A k \in DOMAIN w : w[k] \in Members(own) /\ w[k] # NoElem
  BY <1>5, CellKinds DEF In, Members, NoElem
<1>7. ASSUME equals # {} PROVE found \in Members(own) /\ found # NoElem /\ Equal(v[found], x)
  <2>1. equals \in SUBSET Nat
    BY <1>5
  <2>2. \E k \in equals : \A j \in equals : k <= j
    BY <1>7, <2>1, Least
  <2>3. Min(equals) \in equals
    BY <2>2 DEF Min
  <2> QED
    BY <1>3, <1>6, <1>7, <2>3
<1>8. ASSUME Placed(t, v, own), NEW e \in Members(own), Equal(v[e], x) PROVE equals # {}
  <2>1. v[e] \in Ints
    BY DEF Members
  <2>2. own[e] = l
    BY <1>8, <2>1, EqualData DEF Placed, l
  <2>3. e \in In(own, l)
    BY <2>2 DEF In
  <2> QED
    BY <1>4, <1>8, <2>3
<1>9. equals = {} => found = NoElem
  BY <1>3
<1> QED
  BY <1>7, <1>8, <1>9 DEF found

-----------------------------------------------------------------------------
(* The invariant.                                                          *)

(* Between two commands nothing but the table is linked, and without       *)
(* hash_apply every element is in the bucket of its data.                  *)
Sits(t, v, moved, own, rank) ==
    /\ Whole(t, own, rank)
    /\ Blank(t.links, HashCells \ DOMAIN own)
    /\ ~moved => Placed(t, v, own)

HashInv ==
    /\ item \in [HashElems -> Ints] /\ hashInUse \in BOOLEAN /\ applied \in BOOLEAN
    /\ \E own, rank : Sits(table, item, applied, own, rank)

\* Losing the other items leaves the table as it is.
LEMMA LeavesWhole ==
    ASSUME NEW t, NEW own, NEW rank, Whole(t, own, rank), NEW v \in [HashElems -> Ints], Leaves(t, v)
    PROVE  /\ Whole(table', own, rank) /\ Blank(table'.links, HashCells \ DOMAIN own)
           /\ item' \in [HashElems -> Ints] /\ \A e \in Members(own) : item'[e] = v[e]
           /\ table'.gen = t.gen /\ table'.bucket_cnt = t.bucket_cnt
<1> DEFINE lost == HashElems \ InTable(t)
           f == [c \in HashCells |-> IF c \in lost THEN Null ELSE t.links.next[c]]
           g == [c \in HashCells |-> IF c \in lost THEN Null ELSE t.links.prev[c]]
           ls == Buckets(t.gen, t.bucket_cnt)
<1>1. /\ t \in Tables /\ Linked(t.links, ls, own, rank)
      /\ Blank(t.links, Ends(AllBuckets) \ DOMAIN own)
      /\ t.elem_cnt = Cardinality(Members(own))
  BY DEF Whole
<1>2. InTable(t) = Members(own)
  BY <1>1, TableFields, ChainIs
<1>3. item' = [e \in HashElems |-> IF e \in lost THEN 0 ELSE v[e]]
  BY DEF Leaves
<1>4. table' = [t EXCEPT !.links = [next |-> f, prev |-> g]]
  BY DEF Leaves
<1>5. /\ t.links.next \in [HashCells -> HashCells \cup {Null}]
      /\ t.links.prev \in [HashCells -> HashCells \cup {Null}] /\ t.links \in Memory
  BY <1>1, TableFields, TwoLinks
<1>6. /\ f \in [HashCells -> HashCells \cup {Null}] /\ g \in [HashCells -> HashCells \cup {Null}]
      /\ \A c \in HashCells : c \notin lost => f[c] = t.links.next[c] /\ g[c] = t.links.prev[c]
      /\ \A c \in HashCells : c \in lost => f[c] = Null /\ g[c] = Null
  BY <1>5
<1>7. item' \in [HashElems -> Ints] /\ \A e \in Members(own) : item'[e] = v[e]
  <2>1. 0 \in Ints
    BY HashConstants DEF Ints
  <2> QED
    BY <1>2, <1>3, <2>1, MembersCount
<1>8. lost = HashElems \ DOMAIN own
  BY <1>2 DEF Members
<1> HIDE DEF f, g, lost, ls
<1>9. [next |-> f, prev |-> g] \in Memory
  BY <1>6 DEF Memory
<1>10. /\ table' \in Tables /\ table'.links.next = f /\ table'.links.prev = g
       /\ table'.elem_cnt = t.elem_cnt /\ table'.gen = t.gen /\ table'.bucket_cnt = t.bucket_cnt
       /\ table'.links \in Memory
  BY <1>1, <1>4, <1>9 DEF Tables
<1>11. \A c \in DOMAIN own : c \in HashCells /\ c \notin lost
  BY <1>1, <1>8, InLists
<1>12. Linked(table'.links, ls, own, rank)
  <2>1. \A c \in DOMAIN own : /\ table'.links.next[c] = t.links.next[c]
                              /\ table'.links.prev[c] = t.links.prev[c]
    BY <1>6, <1>10, <1>11
  <2>2. \A c \in DOMAIN own : /\ c # ListTail(own[c]) => t.links.next[c] \in DOMAIN own
                              /\ c # ListHead(own[c]) => t.links.prev[c] \in DOMAIN own
    BY <1>1 DEF Linked
  <2>3. /\ ls \subseteq AllBuckets /\ rank \in [HashCells -> Nat]
        /\ DOMAIN own \subseteq HashElems \cup Ends(ls) /\ own \in [DOMAIN own -> ls]
        /\ \A l \in ls : /\ ListHead(l) \in DOMAIN own /\ own[ListHead(l)] = l
                         /\ ListTail(l) \in DOMAIN own /\ own[ListTail(l)] = l
    BY <1>1 DEF Linked
  <2>4. ASSUME NEW c \in DOMAIN own
        PROVE  IF c = ListTail(own[c]) THEN table'.links.next[c] = Null
               ELSE /\ table'.links.next[c] \in DOMAIN own /\ own[table'.links.next[c]] = own[c]
                    /\ table'.links.prev[table'.links.next[c]] = c
                    /\ rank[table'.links.next[c]] < rank[c]
    BY <1>1, <2>1, <2>2 DEF Linked
  <2>5. ASSUME NEW c \in DOMAIN own
        PROVE  IF c = ListHead(own[c]) THEN table'.links.prev[c] = Null
               ELSE /\ table'.links.prev[c] \in DOMAIN own /\ own[table'.links.prev[c]] = own[c]
                    /\ table'.links.next[table'.links.prev[c]] = c
    BY <1>1, <2>1, <2>2 DEF Linked
  <2> QED
    BY <1>10, <2>3, <2>4, <2>5 DEF Linked
<1>13. Blank(table'.links, HashCells \ DOMAIN own)
  <2> SUFFICES ASSUME NEW c \in HashCells, c \notin DOMAIN own PROVE f[c] = Null /\ g[c] = Null
    BY <1>10 DEF Blank
  <2>1. CASE c \in lost
    BY <1>6, <2>1
  <2>2. CASE c \notin lost
    <3>1. c \in Ends(AllBuckets)
      BY <1>8, <2>2 DEF HashCells, Ends
    <3> QED
      BY <1>1, <1>6, <2>2, <3>1 DEF Blank
  <2> QED
    BY <2>1, <2>2
<1>14. Blank(table'.links, Ends(AllBuckets) \ DOMAIN own)
  BY <1>13, IsCell DEF Blank
<1>15. Whole(table', own, rank)
  BY <1>1, <1>10, <1>12, <1>14 DEF Whole, ls
<1> QED
  BY <1>7, <1>10, <1>13, <1>15

(* The elements equal to x.                                                *)
Same(own, v, x) == {e \in Members(own) : Equal(v[e], x)}

(* What StaysASet says of one step.                                        *)
Stays == ~applied /\ ~applied' => \A x \in Ints : Equals(x)' > Equals(x) => Equals(x) = 0

\* They are finitely many.
LEMMA SameCount ==
    ASSUME NEW own, NEW v, NEW x
    PROVE  /\ IsFiniteSet(Same(own, v, x)) /\ Cardinality(Same(own, v, x)) \in Nat
           /\ \A S : S \subseteq Same(own, v, x) => Cardinality(S) <= Cardinality(Same(own, v, x))
           /\ Same(own, v, x) = {} <=> Cardinality(Same(own, v, x)) = 0
<1>1. Same(own, v, x) \in SUBSET Members(own)
  BY DEF Same
<1>2. IsFiniteSet(Same(own, v, x)) /\ Cardinality(Same(own, v, x)) \in Nat
  BY <1>1, MembersCount, FS_Subset, FS_CardinalityType
<1>3. \A S : S \subseteq Same(own, v, x) => Cardinality(S) <= Cardinality(Same(own, v, x))
  BY <1>2, FS_Subset
<1>4. Same(own, v, x) = {} <=> Cardinality(Same(own, v, x)) = 0
  BY <1>2, FS_EmptySet
<1> QED
  BY <1>2, <1>3, <1>4

\* What is in the table.
LEMMA SitsIs ==
    ASSUME NEW t, NEW own, NEW rank, Whole(t, own, rank)
    PROVE  InTable(t) = Members(own) /\ \A e \in HashElems : e \notin InTable(t) => e \notin DOMAIN own
<1>1. InTable(t) = Members(own)
  BY TableFields, ChainIs DEF Whole
<1> QED
  BY <1>1 DEF Members

\* Equals counts them.
LEMMA EqualsAre ==
    ASSUME NEW own, NEW rank, Whole(table, own, rank)
    PROVE  \A x : Equals(x) = Cardinality(Same(own, item, x))
BY SitsIs DEF Equals, Same

\* The end of a command, of which t is the table so far and v the data.
LEMMA RehashedIs ==
    ASSUME NEW t, NEW own, NEW rank, Whole(t, own, rank), NEW v \in [HashElems -> Ints],
           hashInUse \in BOOLEAN, applied \in BOOLEAN, ~applied => Placed(t, v, own),
           Rehashed(t, v)
    PROVE  HashInv' /\ \A x \in Ints : Equals(x)' = Cardinality(Same(own, v, x))
<1>1. PICK memory \in BOOLEAN :
         /\ Leaves(rehash(t, v, memory), v)
         /\ applied' = (applied /\ table'.bucket_cnt = t.bucket_cnt)
         /\ UNCHANGED hashInUse
  BY DEF Rehashed
<1> DEFINE r == rehash(t, v, memory)
<1>2. PICK o, rk : /\ Whole(r, o, rk) /\ Members(o) = Members(own)
                   /\ \/ r = t /\ o = own
                      \/ r.bucket_cnt # t.bucket_cnt /\ Placed(r, v, o)
  BY RehashWhole
<1> HIDE DEF r
<1>3. /\ Whole(table', o, rk) /\ Blank(table'.links, HashCells \ DOMAIN o)
      /\ item' \in [HashElems -> Ints] /\ \A e \in Members(o) : item'[e] = v[e]
      /\ table'.gen = r.gen /\ table'.bucket_cnt = r.bucket_cnt
  BY <1>1, <1>2, LeavesWhole DEF r
<1>4. ~applied' => Placed(r, v, o)
  <2>1. r.bucket_cnt = t.bucket_cnt => r = t /\ o = own
    BY <1>2
  <2>2. CASE r.bucket_cnt = t.bucket_cnt
    BY <2>1, <2>2, <1>1, <1>3
  <2>3. CASE r.bucket_cnt # t.bucket_cnt
    BY <2>3, <1>2
  <2> QED
    BY <2>2, <2>3
<1>5. ~applied' => Placed(table', item', o)
  <2>1. \A x : find_bucket(table', x) = find_bucket(r, x)
    BY <1>3 DEF find_bucket
  <2> QED
    BY <1>3, <1>4, <2>1 DEF Placed
<1>6. Sits(table', item', applied', o, rk)
  BY <1>3, <1>5 DEF Sits
<1>7. HashInv'
  BY <1>1, <1>3, <1>6 DEF HashInv
<1>8. InTable(table') = Members(own)
  BY <1>2, <1>3, SitsIs
<1>9. ASSUME NEW x \in Ints PROVE Equals(x)' = Cardinality(Same(own, v, x))
  <2>1. {e \in InTable(table') : Equal(item'[e], x)} = Same(own, v, x)
    BY <1>2, <1>3, <1>8 DEF Same
  <2> QED
    BY <2>1 DEF Equals
<1> QED
  BY <1>7, <1>9

\* A command that leaves no element.
LEMMA EmptiedIs ==
    ASSUME NEW t, NEW own, NEW rank, Whole(t, own, rank), Members(own) = {},
           item \in [HashElems -> Ints], hashInUse' \in BOOLEAN, applied' \in BOOLEAN,
           NEW own0, NEW rank0, Whole(table, own0, rank0), Leaves(t, item)
    PROVE  HashInv' /\ Stays
<1>1. /\ Whole(table', own, rank) /\ Blank(table'.links, HashCells \ DOMAIN own)
      /\ item' \in [HashElems -> Ints]
  BY LeavesWhole
<1>2. Sits(table', item', applied', own, rank)
  BY <1>1 DEF Sits, Placed
<1>3. HashInv'
  BY <1>1, <1>2 DEF HashInv
<1>4. ASSUME NEW x \in Ints PROVE ~(Equals(x)' > Equals(x))
  <2>1. InTable(table') = {}
    BY <1>1, SitsIs
  <2>2. {e \in InTable(table') : Equal(item'[e], x)} = {}
    BY <2>1
  <2>3. Equals(x)' = 0
    BY <2>2, FS_EmptySet DEF Equals
  <2>4. Equals(x) \in Nat
    BY EqualsAre, SameCount
  <2> QED
    BY <2>3, <2>4
<1> QED
  BY <1>3, <1>4 DEF Stays

-----------------------------------------------------------------------------
(* The commands.                                                           *)

\* A new item e with data x, which is not in the table.
LEMMA NewItem ==
    ASSUME NEW own, NEW rank, Whole(table, own, rank), item \in [HashElems -> Ints],
           NEW x \in Ints, NEW e \in HashElems \ InTable(table),
           NEW v \in [HashElems -> Ints], \A d \in HashElems : d # e => v[d] = item[d]
    PROVE  /\ e \notin DOMAIN own
           /\ \A d \in Members(own) : v[d] = item[d]
           /\ \A y : Same(own, v, y) = Same(own, item, y)
           /\ Placed(table, item, own) => Placed(table, v, own)
<1>1. e \notin DOMAIN own /\ e \notin Members(own)
  BY SitsIs DEF Members
<1>2. \A d \in Members(own) : v[d] = item[d]
  BY <1>1, MembersCount
<1>3. \A y : Same(own, v, y) = Same(own, item, y)
  BY <1>2 DEF Same
<1>4. Placed(table, item, own) => Placed(table, v, own)
  BY <1>2 DEF Placed
<1> QED
  BY <1>1, <1>2, <1>3, <1>4

\* An element e in the bucket of its data.
LEMMA PutIs ==
    ASSUME NEW t, NEW own, NEW rank, Whole(t, own, rank), NEW v \in [HashElems -> Ints],
           NEW e \in HashElems, e \notin DOMAIN own, NEW l, l = find_bucket(t, v[e]),
           NEW t2, t2 = insert_elem(t, l, e), NEW own2, own2 = Put(own, e, l)
    PROVE  /\ \E rk : Whole(t2, own2, rk)
           /\ Placed(t, v, own) => Placed(t2, v, own2)
           /\ \A y : /\ e \notin Same(own, v, y)
                     /\ Equal(v[e], y) => Same(own2, v, y) = Same(own, v, y) \cup {e}
                     /\ ~Equal(v[e], y) => Same(own2, v, y) = Same(own, v, y)
<1>1. t \in Tables
  BY DEF Whole
<1>2. l \in Buckets(t.gen, t.bucket_cnt)
  BY <1>1, TableFields, BucketOf
<1>3. \E rk : Whole(t2, own2, rk)
  BY <1>2, InsertWhole
<1>4. /\ own2[e] = l /\ \A d \in Members(own) : own2[d] = own[d] /\ d # e
      /\ Members(own2) = Members(own) \cup {e}
  BY DEF Put, Members
<1>5. \A y : find_bucket(t2, y) = find_bucket(t, y)
  BY <1>1 DEF find_bucket, insert_elem, Tables
<1>6. Placed(t, v, own) => Placed(t2, v, own2)
  BY <1>4, <1>5 DEF Placed
<1>7. ASSUME NEW y
      PROVE  /\ e \notin Same(own, v, y)
             /\ Equal(v[e], y) => Same(own2, v, y) = Same(own, v, y) \cup {e}
             /\ ~Equal(v[e], y) => Same(own2, v, y) = Same(own, v, y)
  BY <1>4 DEF Same
<1> QED
  BY <1>3, <1>6, <1>7

\* hash_insert.
LEMMA InsertStep ==
    ASSUME HashInv, NEW x \in Ints, HashInsert(x)
    PROVE  HashInv' /\ Stays
<1>1. PICK own, rank : Sits(table, item, applied, own, rank)
  BY DEF HashInv
<1>2. PICK e \in HashElems \ InTable(table) :
         LET v == [item EXCEPT ![e] = x]
         IN  Rehashed(IF find_elem(table, v, x) = NoElem
                      THEN insert_elem(table, find_bucket(table, x), e) ELSE table, v)
  BY DEF HashInsert
<1> DEFINE v == [item EXCEPT ![e] = x]
           found == find_elem(table, v, x)
           l == find_bucket(table, x)
           t2 == insert_elem(table, l, e)
           own2 == Put(own, e, l)
<1>3. Rehashed(IF found = NoElem THEN t2 ELSE table, v)
  BY <1>2
<1>4. Whole(table, own, rank) /\ item \in [HashElems -> Ints] /\ hashInUse \in BOOLEAN /\ applied \in BOOLEAN
      /\ (~applied => Placed(table, item, own))
  BY <1>1 DEF HashInv, Sits
<1> HIDE DEF found, t2, own2
<1>5. /\ v \in [HashElems -> Ints] /\ v[e] = x /\ e \notin DOMAIN own
      /\ \A d \in Members(own) : v[d] = item[d]
      /\ \A y : Same(own, v, y) = Same(own, item, y)
      /\ ~applied => Placed(table, v, own)
  <2>1. v \in [HashElems -> Ints] /\ v[e] = x /\ \A d \in HashElems : d # e => v[d] = item[d]
    BY <1>4
  <2> HIDE DEF v
  <2> QED
    BY <1>4, <2>1, NewItem
<1>6. \A y : Equals(y) = Cardinality(Same(own, v, y))
  BY <1>4, <1>5, EqualsAre
<1> HIDE DEF v
<1>7. CASE found # NoElem
  <2>1. Rehashed(table, v)
    BY <1>3, <1>7
  <2>2. HashInv' /\ \A y \in Ints : Equals(y)' = Cardinality(Same(own, v, y))
    BY <1>4, <1>5, <2>1, RehashedIs
  <2>3. ASSUME NEW y \in Ints PROVE ~(Equals(y)' > Equals(y))
    <3>1. Equals(y)' = Equals(y) /\ Equals(y) \in Nat
      BY <1>6, <2>2, SameCount
    <3> QED
      BY <3>1
  <2> QED
    BY <2>2, <2>3 DEF Stays
<1>8. CASE found = NoElem
  <2>1. ~applied => \A d \in Members(own) : ~Equal(v[d], x)
    BY <1>4, <1>5, <1>8, FindIs DEF found
  <2>2. Rehashed(t2, v)
    BY <1>3, <1>8
  <2>3. /\ \E rk : Whole(t2, own2, rk)
        /\ Placed(table, v, own) => Placed(t2, v, own2)
        /\ \A y : ~Equal(x, y) => Same(own2, v, y) = Same(own, v, y)
    <3>1. t2 = insert_elem(table, l, e) /\ own2 = Put(own, e, l)
      BY DEF t2, own2
    <3>2. l = find_bucket(table, v[e])
      BY <1>5
    <3> HIDE DEF l
    <3>3. e \in HashElems
      OBVIOUS
    <3> QED
      BY <1>4, <1>5, <3>1, <3>2, <3>3, PutIs
  <2>4. PICK rk : Whole(t2, own2, rk)
    BY <2>3
  <2>5. HashInv' /\ \A y \in Ints : Equals(y)' = Cardinality(Same(own2, v, y))
    BY <1>4, <1>5, <2>2, <2>3, <2>4, RehashedIs
  <2>6. ASSUME ~applied, NEW y \in Ints, Equals(y)' > Equals(y) PROVE Equals(y) = 0
    <3>1. CASE ~Equal(x, y)
      <4>1. Equals(y)' = Equals(y) /\ Equals(y) \in Nat
        BY <1>6, <2>3, <2>5, <3>1, SameCount
      <4> QED
        BY <2>6, <4>1
    <3>2. CASE Equal(x, y)
      <4>1. Same(own, v, y) = {}
        <5> SUFFICES ASSUME NEW d \in Members(own), Equal(v[d], y) PROVE FALSE
          BY DEF Same
        <5>1. v[d] \in Ints
          BY <1>5, MembersCount
        <5>2. Equal(v[d], x)
          BY <3>2, <5>1, EqualData
        <5> QED
          BY <2>1, <2>6, <5>2
      <4> QED
        BY <1>6, <4>1, SameCount
    <3> QED
      BY <3>1, <3>2
  <2> QED
    BY <2>5, <2>6 DEF Stays
<1> QED
  BY <1>7, <1>8

\* An element of the table taken out of it.
LEMMA TakenIs ==
    ASSUME NEW t, NEW own, NEW rank, Whole(t, own, rank), NEW v, NEW e \in Members(own),
           NEW t2, t2 = remove_elem(t, e), NEW own2, own2 = Taken(own, e)
    PROVE  /\ Whole(t2, own2, rank) /\ DOMAIN own2 \subseteq DOMAIN own
           /\ Placed(t, v, own) => Placed(t2, v, own2)
           /\ \A y : find_bucket(t2, y) = find_bucket(t, y)
           /\ \A y : Same(own2, v, y) = Same(own, v, y) \ {e}
<1>1. t \in Tables
  BY DEF Whole
<1>2. Whole(t2, own2, rank)
  BY RemoveWhole
<1>3. /\ DOMAIN own2 = DOMAIN own \ {e} /\ \A d \in DOMAIN own2 : own2[d] = own[d]
      /\ Members(own2) = Members(own) \ {e}
  BY DEF Taken, Members
<1>4. \A y : find_bucket(t2, y) = find_bucket(t, y)
  BY <1>1 DEF find_bucket, remove_elem, Tables
<1>5. Placed(t, v, own) => Placed(t2, v, own2)
  BY <1>3, <1>4 DEF Placed, Members
<1>6. \A y : Same(own2, v, y) = Same(own, v, y) \ {e}
  BY <1>3 DEF Same
<1> QED
  BY <1>2, <1>3, <1>4, <1>5, <1>6

\* hash_delete.
LEMMA DeleteStep ==
    ASSUME HashInv, NEW x \in Ints, HashDelete(x)
    PROVE  HashInv' /\ Stays
<1>1. PICK own, rank : Sits(table, item, applied, own, rank)
  BY DEF HashInv
<1> DEFINE found == find_elem(table, item, x)
           t2 == remove_elem(table, found)
           own2 == Taken(own, found)
<1>2. found # NoElem /\ Rehashed(t2, item)
  BY DEF HashDelete
<1>3. Whole(table, own, rank) /\ item \in [HashElems -> Ints] /\ hashInUse \in BOOLEAN /\ applied \in BOOLEAN
      /\ (~applied => Placed(table, item, own))
  BY <1>1 DEF HashInv, Sits
<1>4. found \in Members(own)
  BY <1>2, <1>3, FindIs
<1> HIDE DEF found
<1>5. /\ Whole(t2, own2, rank) /\ (~applied => Placed(t2, item, own2))
      /\ \A y : Same(own2, item, y) = Same(own, item, y) \ {found}
  <2>1. t2 = remove_elem(table, found) /\ own2 = Taken(own, found)
    OBVIOUS
  <2> HIDE DEF t2, own2
  <2> QED
    BY <1>3, <1>4, <2>1, TakenIs
<1> HIDE DEF t2, own2
<1>6. HashInv' /\ \A y \in Ints : Equals(y)' = Cardinality(Same(own2, item, y))
  BY <1>2, <1>3, <1>5, RehashedIs
<1>7. ASSUME NEW y \in Ints PROVE ~(Equals(y)' > Equals(y))
  <2>1. Same(own2, item, y) \subseteq Same(own, item, y)
    BY <1>5
  <2>2. Equals(y)' <= Equals(y) /\ Equals(y) \in Nat /\ Equals(y)' \in Nat
    BY <1>3, <1>6, <2>1, EqualsAre, SameCount
  <2> QED
    BY <2>2
<1> QED
  BY <1>6, <1>7 DEF Stays

\* hash_replace.
LEMMA ReplaceStep ==
    ASSUME HashInv, NEW x \in Ints, HashReplace(x)
    PROVE  HashInv' /\ Stays
<1>1. PICK own, rank : Sits(table, item, applied, own, rank)
  BY DEF HashInv
<1>2. PICK e \in HashElems \ InTable(table) :
         LET v == [item EXCEPT ![e] = x]
             old == find_elem(table, v, x)
             t == IF old = NoElem THEN table ELSE remove_elem(table, old)
         IN  Rehashed(insert_elem(t, find_bucket(table, x), e), v)
  BY DEF HashReplace
<1> DEFINE v == [item EXCEPT ![e] = x]
           old == find_elem(table, v, x)
           l == find_bucket(table, x)
           t == IF old = NoElem THEN table ELSE remove_elem(table, old)
           t2 == insert_elem(t, l, e)
           own1 == IF old = NoElem THEN own ELSE Taken(own, old)
           own2 == Put(own1, e, l)
<1>3. Rehashed(t2, v)
  BY <1>2
<1>4. Whole(table, own, rank) /\ item \in [HashElems -> Ints] /\ hashInUse \in BOOLEAN /\ applied \in BOOLEAN
      /\ (~applied => Placed(table, item, own)) /\ e \in HashElems
  BY <1>1 DEF HashInv, Sits
<1> HIDE DEF old, t, t2, own1, own2
<1>5. /\ v \in [HashElems -> Ints] /\ v[e] = x /\ e \notin DOMAIN own
      /\ \A y : Same(own, v, y) = Same(own, item, y)
      /\ ~applied => Placed(table, v, own)
  <2>1. v \in [HashElems -> Ints] /\ v[e] = x /\ \A d \in HashElems : d # e => v[d] = item[d]
    BY <1>4
  <2> HIDE DEF v
  <2> QED
    BY <1>4, <2>1, NewItem
<1>6. \A y : Equals(y) = Cardinality(Same(own, v, y))
  BY <1>4, <1>5, EqualsAre
<1> HIDE DEF v
<1>7. /\ old # NoElem => old \in Members(own) /\ Equal(v[old], x)
      /\ ~applied /\ old = NoElem => \A d \in Members(own) : ~Equal(v[d], x)
  BY <1>4, <1>5, FindIs DEF old
<1>8. /\ Whole(t, own1, rank) /\ e \notin DOMAIN own1
      /\ ~applied => Placed(t, v, own1)
      /\ find_bucket(t, x) = l
      /\ old = NoElem => \A y : Same(own1, v, y) = Same(own, v, y)
      /\ old # NoElem => \A y : Same(own1, v, y) = Same(own, v, y) \ {old}
  <2>1. CASE old = NoElem
    BY <1>4, <1>5, <2>1 DEF t, own1
  <2>2. CASE old # NoElem
    <3>1. t = remove_elem(table, old) /\ own1 = Taken(own, old)
      BY <2>2 DEF t, own1
    <3>2. old \in Members(own)
      BY <1>7, <2>2
    <3>3. /\ Whole(t, own1, rank) /\ DOMAIN own1 \subseteq DOMAIN own
          /\ Placed(table, v, own) => Placed(t, v, own1)
          /\ \A y : find_bucket(t, y) = find_bucket(table, y)
          /\ \A y : Same(own1, v, y) = Same(own, v, y) \ {old}
      BY <1>4, <3>1, <3>2, TakenIs
    <3> QED
      BY <1>5, <2>2, <3>3
  <2> QED
    BY <2>1, <2>2
<1>9. /\ \E rk : Whole(t2, own2, rk)
      /\ ~applied => Placed(t2, v, own2)
      /\ \A y : /\ e \notin Same(own1, v, y)
                /\ Equal(x, y) => Same(own2, v, y) = Same(own1, v, y) \cup {e}
                /\ ~Equal(x, y) => Same(own2, v, y) = Same(own1, v, y)
  <2>1. t2 = insert_elem(t, l, e) /\ own2 = Put(own1, e, l) /\ l = find_bucket(t, v[e])
    BY <1>5, <1>8 DEF t2, own2
  <2> HIDE DEF l
  <2> QED
    BY <1>4, <1>5, <1>8, <2>1, PutIs
<1>10. HashInv' /\ \A y \in Ints : Equals(y)' = Cardinality(Same(own2, v, y))
  <2>1. PICK rk : Whole(t2, own2, rk)
    BY <1>9
  <2> QED
    BY <1>3, <1>4, <1>5, <1>9, <2>1, RehashedIs
<1>11. ASSUME ~applied, NEW y \in Ints, Equals(y)' > Equals(y) PROVE Equals(y) = 0
  <2>1. Equals(y) \in Nat /\ IsFiniteSet(Same(own, v, y))
    BY <1>6, SameCount
  <2>2. CASE ~Equal(x, y)
    <3>1. Same(own2, v, y) \subseteq Same(own, v, y)
      BY <1>8, <1>9, <2>2
    <3>2. Equals(y)' <= Equals(y) /\ Equals(y)' \in Nat
      BY <1>6, <1>10, <3>1, SameCount
    <3> QED
      BY <1>11, <2>1, <3>2
  <2>3. CASE Equal(x, y) /\ old = NoElem
    <3>1. Same(own, v, y) = {}
      <4> SUFFICES ASSUME NEW d \in Members(own), Equal(v[d], y) PROVE FALSE
        BY DEF Same
      <4>1. v[d] \in Ints
        BY <1>5, MembersCount
      <4>2. Equal(v[d], x)
        BY <2>3, <4>1, EqualData
      <4> QED
        BY <1>7, <1>11, <2>3, <4>2
    <3> QED
      BY <1>6, <3>1, SameCount
  <2>4. CASE Equal(x, y) /\ old # NoElem
    <3>1. old \in Same(own, v, y)
      <4>1. old \in Members(own) /\ Equal(v[old], x) /\ v[old] \in Ints
        BY <1>5, <1>7, <2>4, MembersCount
      <4>2. Equal(v[old], y)
        BY <2>4, <4>1, EqualData
      <4> QED
        BY <4>1, <4>2 DEF Same
    <3> DEFINE S == Same(own, v, y)  R == S \ {old}
    <3>2. Same(own2, v, y) = R \cup {e} /\ e \notin R
      BY <1>8, <1>9, <2>4
    <3> HIDE DEF S
    <3>3. IsFiniteSet(S) /\ old \in S /\ Cardinality(S) \in Nat /\ Equals(y) = Cardinality(S)
      BY <2>1, <3>1, <1>6, SameCount DEF S
    <3>4. IsFiniteSet(R) /\ Cardinality(R) = Cardinality(S) - 1
      BY <3>3, FS_RemoveElement
    <3> HIDE DEF R
    <3>5. Cardinality(R \cup {e}) = Cardinality(R) + 1
      BY <3>2, <3>4, FS_AddElement
    <3>6. Cardinality(Same(own2, v, y)) = Cardinality(S)
      BY <3>2, <3>3, <3>4, <3>5
    <3>7. Equals(y)' = Equals(y)
      BY <1>10, <3>3, <3>6
    <3> QED
      BY <1>11, <2>1, <3>7
  <2> QED
    BY <2>2, <2>3, <2>4
<1> QED
  BY <1>10, <1>11 DEF Stays

\* create hashtable.
LEMMA CreateStep ==
    ASSUME HashInv, CreateHash
    PROVE  HashInv' /\ Stays
<1>1. PICK own0, rank0 : Sits(table, item, applied, own0, rank0)
  BY DEF HashInv
<1>2. Whole(table, own0, rank0) /\ item \in [HashElems -> Ints]
  BY <1>1 DEF HashInv, Sits
<1>3. PICK own, rank : Whole(hash_init, own, rank) /\ Members(own) = {}
  BY InitWhole
<1>4. Leaves(hash_init, item) /\ hashInUse' \in BOOLEAN /\ applied' \in BOOLEAN
  BY DEF CreateHash
<1> QED
  BY <1>2, <1>3, <1>4, EmptiedIs

\* hash_clear.
LEMMA ClearStep ==
    ASSUME HashInv, HashClear
    PROVE  HashInv' /\ Stays
<1> DEFINE ls == Buckets(table.gen, table.bucket_cnt)
           r == ListsMade(table.links, ls)
           t == [table EXCEPT !.elem_cnt = 0, !.links = ListsMade(@, Buckets(table.gen, table.bucket_cnt))]
<1>1. PICK own0, rank0 : Sits(table, item, applied, own0, rank0)
  BY DEF HashInv
<1>2. Whole(table, own0, rank0) /\ item \in [HashElems -> Ints]
  BY <1>1 DEF HashInv, Sits
<1>3. Leaves(t, item) /\ hashInUse' \in BOOLEAN /\ applied' \in BOOLEAN
  BY DEF HashClear, HashInv
<1>4. /\ table \in Tables /\ table.links \in Memory /\ ls \in SUBSET AllBuckets
      /\ Linked(table.links, ls, own0, rank0)
  BY <1>2, TableFields, Arrays DEF Whole
<1>5. t.links = r /\ t.elem_cnt = 0 /\ t.gen = table.gen /\ t.bucket_cnt = table.bucket_cnt
      /\ (r \in Memory => t \in Tables)
  <2>1. table = [links |-> table.links, elem_cnt |-> table.elem_cnt,
                 bucket_cnt |-> table.bucket_cnt, gen |-> table.gen]
    BY <1>4 DEF Tables
  <2>2. t = [links |-> r, elem_cnt |-> 0, bucket_cnt |-> table.bucket_cnt, gen |-> table.gen]
    <3>1. t = [table EXCEPT !.elem_cnt = 0, !.links = r]
      BY <2>1
    <3> HIDE DEF r, t
    <3> QED
      BY <2>1, <3>1
  <2> HIDE DEF r, t
  <2> QED
    BY <1>4, <2>2 DEF Tables
<1> HIDE DEF t, ls
<1>6. PICK own, rank : Linked(r, ls, own, rank) /\ DOMAIN own = Ends(ls) /\ Members(own) = {}
  BY <1>4, EmptyLists
<1>7. r \in Memory /\ \A c \in HashCells \ Ends(ls) :
                          r.next[c] = table.links.next[c] /\ r.prev[c] = table.links.prev[c]
  BY <1>4, MadeWrites
<1> HIDE DEF r
<1>8. Blank(t.links, Ends(AllBuckets) \ DOMAIN own)
  <2> SUFFICES ASSUME NEW c \in Ends(AllBuckets), c \notin Ends(ls)
               PROVE  r.next[c] = Null /\ r.prev[c] = Null
    BY <1>5, <1>6 DEF Blank
  <2>1. c \in HashCells /\ c \notin HashElems
    BY IsCell, CellKinds DEF Ends
  <2>2. c \notin DOMAIN own0
    BY <1>4, <2>1 DEF Linked
  <2>3. table.links.next[c] = Null /\ table.links.prev[c] = Null
    BY <1>2, <2>2 DEF Whole, Blank
  <2> QED
    BY <1>7, <2>1, <2>3
<1>9. Cardinality(Members(own)) = 0
  BY <1>6, FS_EmptySet
<1>10. Whole(t, own, rank)
  BY <1>5, <1>6, <1>7, <1>8, <1>9 DEF Whole, ls
<1> QED
  BY <1>2, <1>3, <1>6, <1>10, EmptiedIs

\* hash_apply.
LEMMA ApplyStep ==
    ASSUME HashInv, NEW action, HashApply(action)
    PROVE  HashInv' /\ Stays
<1> DEFINE Acted(x) == IF action = "square" THEN hash_square(x) ELSE hash_triple(x)
<1>1. PICK own, rank : Sits(table, item, applied, own, rank)
  BY DEF HashInv
<1>2. /\ applied' = TRUE /\ table' = table /\ hashInUse' = hashInUse
      /\ item' = [e \in HashElems |-> IF e \in InTable(table) THEN Acted(item[e]) ELSE item[e]]
  BY DEF HashApply
<1>3. ASSUME NEW x \in Ints PROVE Acted(x) \in Ints
  <2>1. IntMod \in Nat /\ IntMod > 0 /\ x \in Int
    BY HashConstants DEF Ints
  <2>2. \A y \in Int : y % IntMod \in 0 .. IntMod - 1
    BY <2>1
  <2>3. x * x \in Int /\ x * x * x \in Int
    BY <2>1
  <2> QED
    BY <2>2, <2>3 DEF hash_square, hash_triple, Ints
<1> HIDE DEF Acted
<1>4. item' \in [HashElems -> Ints]
  BY <1>2, <1>3 DEF HashInv
<1>5. Sits(table', item', applied', own, rank)
  BY <1>1, <1>2 DEF Sits
<1>6. HashInv'
  BY <1>2, <1>4, <1>5 DEF HashInv
<1> QED
  BY <1>2, <1>6 DEF Stays

-----------------------------------------------------------------------------
(* What holds of every state.                                              *)

\* The invariant holds at first.
LEMMA HashInvInit ==
    ASSUME HashInit
    PROVE  HashInv
<1>1. PICK own, rank : /\ Whole(hash_init, own, rank) /\ Members(own) = {}
                       /\ Blank(hash_init.links, HashCells \ DOMAIN own)
  BY InitWhole
<1>2. /\ table = hash_init /\ item = [e \in HashElems |-> 0]
      /\ hashInUse \in BOOLEAN /\ applied \in BOOLEAN
  BY DEF HashInit
<1>3. item \in [HashElems -> Ints]
  <2>1. 0 \in Ints
    BY HashConstants DEF Ints
  <2> QED
    BY <1>2, <2>1
<1>4. Sits(table, item, applied, own, rank)
  BY <1>1, <1>2 DEF Sits, Placed
<1> QED
  BY <1>2, <1>3, <1>4 DEF HashInv

\* And every command keeps it.
LEMMA HashInvNext ==
    ASSUME HashInv, [HashNext]_hashVars
    PROVE  HashInv' /\ Stays
<1>1. CASE CreateHash
  BY <1>1, CreateStep
<1>2. CASE \E x \in Ints : HashInsert(x) \/ HashReplace(x) \/ HashDelete(x)
  BY <1>2, InsertStep, ReplaceStep, DeleteStep
<1>3. CASE HashClear
  BY <1>3, ClearStep
<1>4. CASE HashApply("square") \/ HashApply("triple")
  BY <1>4, ApplyStep
<1>5. CASE UNCHANGED hashVars
  <2>1. table' = table /\ item' = item /\ hashInUse' = hashInUse /\ applied' = applied
    BY <1>5 DEF hashVars
  <2>2. HashInv'
    BY <2>1 DEF HashInv
  <2>3. PICK own, rank : Whole(table, own, rank)
    BY DEF HashInv, Sits
  <2>4. ASSUME NEW x \in Ints PROVE ~(Equals(x)' > Equals(x))
    <3>1. Equals(x)' = Equals(x)
      BY <2>1 DEF Equals
    <3>2. Equals(x) \in Nat
      BY <2>3, EqualsAre, SameCount
    <3> QED
      BY <3>1, <3>2
  <2> QED
    BY <2>2, <2>4 DEF Stays
<1> QED
  BY <1>1, <1>2, <1>3, <1>4, <1>5 DEF HashNext

\* In such a state the table is a table.
LEMMA HashInvSound ==
    ASSUME HashInv
    PROVE  TableSound /\ FindsWhatIsThere
<1> DEFINE ls == Buckets(table.gen, table.bucket_cnt)
<1>1. PICK own, rank : Sits(table, item, applied, own, rank)
  BY DEF HashInv
<1>2. /\ Whole(table, own, rank) /\ table \in Tables /\ Linked(table.links, ls, own, rank)
      /\ Blank(table.links, HashCells \ DOMAIN own) /\ table.elem_cnt = Cardinality(Members(own))
      /\ item \in [HashElems -> Ints] /\ (~applied => Placed(table, item, own))
  BY <1>1 DEF HashInv, Sits, Whole
<1>3. HashTypeOK
  BY <1>2 DEF HashInv, HashTypeOK, Tables, Memory
<1>4. ASSUME NEW l \in ls
      PROVE  Sound(table.links, l) /\ ToSet(Walk(table.links, l)) = In(own, l)
  <2> DEFINE w == Walk(table.links, l)
  <2>1. /\ \E n \in Nat : w \in [1 .. n -> In(own, l)]
        /\ \A e \in In(own, l) : \E k \in DOMAIN w : w[k] = e
        /\ Sound(table.links, l)
    BY <1>2, <1>4, WalkIs
  <2> HIDE DEF w
  <2>2. \A k \in DOMAIN w : w[k] \in In(own, l)
    BY <2>1
  <2>3. ToSet(w) = In(own, l)
    BY <2>1, <2>2 DEF ToSet
  <2> QED
    BY <2>1, <2>3 DEF w
<1>5. AllSound(table.links, ls)
  <2> HIDE DEF ls
  <2>1. \A k, l \in ls : k # l => ToSet(Walk(table.links, k)) \cap ToSet(Walk(table.links, l)) = {}
    BY <1>4 DEF In
  <2>2. DOMAIN table.links.next = HashCells
    BY <1>2, TableFields, TwoLinks
  <2>3. ASSUME NEW c \in HashCells
        PROVE  \/ table.links.next[c] = Null /\ table.links.prev[c] = Null
               \/ \E l \in ls : c \in ToSet(Walk(table.links, l)) \cup {ListHead(l), ListTail(l)}
    <3>1. CASE c \notin DOMAIN own
      BY <3>1, <1>2 DEF Blank
    <3>2. CASE c \in DOMAIN own
      <4>1. /\ own[c] \in ls
            /\ \A l : c = ListHead(l) \/ c = ListTail(l) => l \in ls
        BY <1>2, <3>2, InLists
      <4>2. c \in HashElems \cup Ends(ls)
        BY <1>2, <3>2 DEF Linked
      <4>3. c \in HashElems => c \in In(own, own[c])
        BY <3>2 DEF In, Members
      <4>4. c \in HashElems => c \in ToSet(Walk(table.links, own[c]))
        BY <1>4, <4>1, <4>3
      <4>5. c \in Ends(ls) => \E l \in ls : c \in {ListHead(l), ListTail(l)}
        BY DEF Ends
      <4> QED
        BY <4>1, <4>2, <4>4, <4>5
    <3> QED
      BY <3>1, <3>2
  <2> QED
    BY <1>4, <2>1, <2>2, <2>3 DEF AllSound
<1>6. table.elem_cnt = Len(Chain(table))
  BY <1>2, TableFields, ChainIs
<1>7. TableSound
  BY <1>3, <1>5, <1>6 DEF TableSound
<1>8. ASSUME ~applied, NEW x \in Ints
      PROVE  find_elem(table, item, x) # NoElem
                <=> \E e \in InTable(table) : Equal(item[e], x)
  <2>1. InTable(table) = Members(own)
    BY <1>2, SitsIs
  <2>2. /\ find_elem(table, item, x) # NoElem =>
              /\ find_elem(table, item, x) \in Members(own)
              /\ Equal(item[find_elem(table, item, x)], x)
        /\ find_elem(table, item, x) = NoElem => \A e \in Members(own) : ~Equal(item[e], x)
    BY <1>2, <1>8, FindIs
  <2> QED
    BY <2>1, <2>2
<1>9. FindsWhatIsThere
  BY <1>8 DEF FindsWhatIsThere
<1> QED
  BY <1>7, <1>9

\* The invariant always holds: whatever hash_insert, hash_replace,
\* hash_delete, hash_clear, hash_apply and rehash have done, and whenever
\* malloc has failed, the links are those of lists, nothing else is linked,
\* elem_cnt counts, and elements are in the buckets of their data.
THEOREM HashInvariant == HashSpec => []HashInv
<1>1. HashInit => HashInv
  BY HashInvInit
<1>2. HashInv /\ [HashNext]_hashVars => HashInv'
  BY HashInvNext
<1> QED
  BY <1>1, <1>2, PTL DEF HashSpec

\* The buckets of the array in use are always sound lists that share no
\* element, elem_cnt is their number, and nothing else is linked.
THEOREM HashTableSound == HashSpec => []TableSound
<1>1. HashInv => TableSound
  BY HashInvSound
<1> QED
  BY <1>1, HashInvariant, PTL

\* hash_find finds an element if and only if the table has an equal one, as
\* long as hash_apply has not changed what the buckets were chosen by.
THEOREM HashFindsAll == HashSpec => []FindsWhatIsThere
<1>1. HashInv => FindsWhatIsThere
  BY HashInvSound
<1> QED
  BY <1>1, HashInvariant, PTL

\* And no command puts an element beside an equal one.
THEOREM HashIsSet == HashSpec => StaysASet
<1>1. HashInv /\ [HashNext]_hashVars =>
        [~applied /\ ~applied' =>
            \A x \in Ints : Equals(x)' > Equals(x) => Equals(x) = 0]_hashVars
  BY HashInvNext DEF Stays
<1> QED
  BY <1>1, HashInvariant, PTL DEF HashSpec, StaysASet
=============================================================================
