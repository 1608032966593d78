---------------------------- MODULE ListCommands ----------------------------
(***************************************************************************)
(* Lab 1: the list commands of the interpreter (main.c) over the lists of  *)
(* list.c.  A command is one step: the program is sequential.  Arguments   *)
(* that make an ASSERT fail are ListAbort's.                               *)
(***************************************************************************)
EXTENDS PintosList, FiniteSetsExt, Integers

CONSTANTS
    Lists,      \* slots of my_list
    Items,      \* list_items malloc() has to give
    Data,       \* the integers the commands name
    NoList      \* a null pointer to a list

VARIABLES
    links,      \* prev and next of every list_elem
    value,      \* data of every list_item
    live,       \* list_elems of the items malloc() gave, neither freed nor leaked
    listInUse   \* list_in_use

listVars == <<links, value, live, listInUse>>

ASSUME ListConstants ==
    /\ IsFiniteSet(Lists) /\ NoList \notin Lists
    /\ IsFiniteSet(Items)
    /\ IsFiniteSet(Data) /\ Data # {} /\ Data \subseteq Int

Elems == {Elem(i) : i \in Items}
ListCells == Elems \cup {ListHead(l) : l \in Lists} \cup {ListTail(l) : l \in Lists}

Held(m) == UNION {ToSet(Walk(m, l)) : l \in {k \in Lists : m.next[ListHead(k)] # Null}}

Used == {l \in Lists : listInUse[l]}
Size(l) == Len(Walk(links, l))
ElemsOf(l) == IF listInUse[l] THEN ToSet(Walk(links, l)) ELSE {}

-----------------------------------------------------------------------------
(* The loops of list.c.                                                    *)
less(d, a, b) == d[a] < d[b]

swap_links(m, e) == SetNext(SetPrev(m, e, m.next[e]), e, m.prev[e])

Flip(s, end) ==
    LET m == swap_links(s.links, s.elem)
    IN  IF s.elem = end THEN s ELSE [links |-> m, elem |-> m.prev[s.elem]]

Flipped(m, e, end) ==
    Loop([links |-> m, elem |-> e], LAMBDA s, k : Flip(s, end), LoopBound(m)).links

list_reverse(m, l) ==
    LET m1 == Flipped(m, list_begin(m, l), list_end(l))
        m2 == SetPrev(SetNext(m1, ListHead(l), m1.prev[ListTail(l)]),
                      ListTail(l), m1.next[ListHead(l)])
        first == m2.next[ListHead(l)]
        last == m2.prev[ListTail(l)]
    IN  IF list_empty(m, l) THEN m
        ELSE SetNext(SetPrev(m2, first, m2.next[last]), last, m2.prev[first])

find_end_of_run(m, d, a, b) ==
    Loop(m.next[a],
         LAMBDA n, k : IF n = b \/ less(d, n, m.prev[n]) THEN n ELSE m.next[n],
         LoopBound(m))

(* A round of inplace_merge.                                               *)
MergeElem(s, d, b1) ==
    LET n == s.links.next[s.a1b0]
    IN  IF s.a0 = s.a1b0 \/ s.a1b0 = b1 THEN s
        ELSE IF ~less(d, s.a1b0, s.a0) THEN [s EXCEPT !.a0 = s.links.next[@]]
        ELSE [s EXCEPT !.links = list_splice(@, s.a0, @.prev[n], n), !.a1b0 = n]

inplace_merge(m, d, a0, a1b0, b1) ==
    Loop([links |-> m, a0 |-> a0, a1b0 |-> a1b0],
         LAMBDA s, k : MergeElem(s, d, b1), LoopBound(m)).links

(* A round of the inner loop of list_sort, which makes one run of two.     *)
MergeRun(s, d, end) ==
    LET a1b0 == find_end_of_run(s.links, d, s.a0, end)
        b1 == find_end_of_run(s.links, d, a1b0, end)
    IN  IF s.a0 = end THEN s
        ELSE IF a1b0 = end THEN [s EXCEPT !.a0 = end, !.runs = @ + 1]
        ELSE [links |-> inplace_merge(s.links, d, s.a0, a1b0, b1), a0 |-> b1, runs |-> s.runs + 1]

(* The memory and the number of runs a pass of list_sort leaves.           *)
MergeRuns(m, d, l) ==
    Loop([links |-> m, a0 |-> list_begin(m, l), runs |-> 0],
         LAMBDA s, k : MergeRun(s, d, list_end(l)), LoopBound(m))

list_sort(m, d, l) ==
    Loop(MergeRuns(m, d, l),
         LAMBDA s, k : IF s.runs > 1 THEN MergeRuns(s.links, d, l) ELSE s, LoopBound(m)).links

list_insert_ordered_Before(m, d, l, e) ==   \* mutant: before the equals
    LET s == Append(Walk(m, l), list_end(l))
        k == SelectInSeq(s, LAMBDA x : x = list_end(l) \/ ~less(d, x, e))
    IN  list_insert(m, s[k], e)

list_insert_ordered(m, d, l, e) ==
    LET s == Append(Walk(m, l), list_end(l))
        k == SelectInSeq(s, LAMBDA x : x = list_end(l) \/ less(d, e, x))
    IN  list_insert(m, s[k], e)

(* A round of list_unique.                                                 *)
UniqueElem_Forgets(s, d, l, dup) ==     \* mutant: the duplicate goes nowhere
    LET next == s.links.next[s.elem]
    IN  IF next = list_end(l) THEN s
        ELSE IF less(d, s.elem, next) \/ less(d, next, s.elem) THEN [s EXCEPT !.elem = next]
        ELSE [s EXCEPT !.links = list_remove(@, next)]

UniqueElem(s, d, l, dup) ==
    LET next == s.links.next[s.elem]
        m == list_remove(s.links, next)
    IN  IF next = list_end(l) THEN s
        ELSE IF less(d, s.elem, next) \/ less(d, next, s.elem) THEN [s EXCEPT !.elem = next]
        ELSE [s EXCEPT !.links = IF dup = NoList THEN m ELSE list_push_back(m, dup, next)]

list_unique(m, d, l, dup) ==
    IF list_empty(m, l) THEN m
    ELSE Loop([links |-> m, elem |-> list_begin(m, l)],
              LAMBDA s, k : UniqueElem(s, d, l, dup), LoopBound(m)).links

list_max(m, d, l) ==
    LET s == Walk(m, l)
    IN  Loop(list_begin(m, l), LAMBDA max, k : IF less(d, max, s[k]) THEN s[k] ELSE max, Len(s))

list_min(m, d, l) ==
    LET s == Walk(m, l)
    IN  Loop(list_begin(m, l), LAMBDA min, k : IF less(d, s[k], min) THEN s[k] ELSE min, Len(s))

list_swap(d, a, b) == [d EXCEPT ![a] = d[b], ![b] = d[a]]

-----------------------------------------------------------------------------
ListInit ==
    /\ links = Unlinked(ListCells)
    /\ value = [e \in Elems |-> Min(Data)]
    /\ live = {}
    /\ listInUse = [l \in Lists |-> FALSE]

(* The command leaves the links m, the data v and the live items kept,     *)
(* whether a list leads to them or not.  What is in other memory does not  *)
(* matter.                                                                 *)
Leave(m, v, kept) ==
    /\ live' = kept
    /\ links' = [next |-> [e \in ListCells |-> IF e \in Elems \ kept THEN Null ELSE m.next[e]],
                 prev |-> [e \in ListCells |-> IF e \in Elems \ kept THEN Null ELSE m.prev[e]]]
    /\ value' = [e \in Elems |-> IF e \in kept THEN v[e] ELSE Min(Data)]

(* The command changes links and gives up the items lost.                  *)
Relink(m, lost) == Leave(m, value, live \ lost) /\ UNCHANGED listInUse

(* create list; the items of an old list in the slot are leaked.           *)
CreateList(l) ==
    /\ Leave(list_init(links, l), value, live \ ElemsOf(l))
    /\ listInUse' = [listInUse EXCEPT ![l] = TRUE]

(* A list_item with data d from malloc, put in its place by put(m, v, e).  *)
AddItem(l, d, put(_, _, _)) ==
    \E e \in Elems \ live :
        /\ listInUse[l]
        /\ LET v == [value EXCEPT ![e] = d] IN Leave(put(links, v, e), v, live \cup {e})
        /\ UNCHANGED listInUse

ListInsert(l, pos, d) ==
    /\ pos <= Size(l)
    /\ AddItem(l, d, LAMBDA m, v, e : list_insert(m, At(m, l, pos), e))

ListInsertOrdered(l, d) ==
    AddItem(l, d, LAMBDA m, v, e : list_insert_ordered(m, v, l, e))

ListPushFront(l, d) == AddItem(l, d, LAMBDA m, v, e : list_push_front(m, l, e))
ListPushBack(l, d) == AddItem(l, d, LAMBDA m, v, e : list_push_back(m, l, e))

Drop(e) == Relink(free(list_remove(links, e), e), {e})

ListPopFront(l) == listInUse[l] /\ Size(l) > 0 /\ Drop(list_begin(links, l))
ListPopBack(l) == listInUse[l] /\ Size(l) > 0 /\ Drop(links.prev[ListTail(l)])
ListRemove(l, pos) == listInUse[l] /\ pos < Size(l) /\ Drop(At(links, l, pos))

ListReverse(l) == listInUse[l] /\ Relink(list_reverse(links, l), {})
ListSort(l) == listInUse[l] /\ Relink(list_sort(links, value, l), {})

(* list_unique with the list itself for the duplicates may not return; the *)
(* duplicates are leaked when there is no list for them.                   *)
Duplicates(l) ==
    LET s == Walk(links, l)
    IN  {s[k] : k \in {n \in 2 .. Len(s) : value[s[n]] = value[s[n - 1]]}}

ListUnique(l, dup) ==
    /\ listInUse[l] /\ dup # l /\ (dup # NoList => listInUse[dup])
    /\ Relink(list_unique(links, value, l, dup), IF dup = NoList THEN Duplicates(l) ELSE {})

(* The place must not be inside the range that moves.                      *)
ListSplice(l, org, pos, first, last) ==
    /\ listInUse[l] /\ listInUse[org]
    /\ pos <= Size(l) /\ first <= last /\ last <= Size(org)
    /\ l = org => pos < first \/ pos >= last
    /\ Relink(list_splice(links, At(links, l, pos), At(links, org, first), At(links, org, last)),
              {})

ListSwap(l, pos1, pos2) ==
    /\ listInUse[l] /\ pos1 < Size(l) /\ pos2 < Size(l)
    /\ value' = list_swap(value, At(links, l, pos1), At(links, l, pos2))
    /\ UNCHANGED <<links, live, listInUse>>

(* Each element in turn changes data with one at a random place.           *)
ListShuffle(l) ==
    /\ listInUse[l]
    /\ \E random \in [1 .. Size(l) -> 0 .. Size(l) - 1] :
           value' = Loop(value, LAMBDA d, k : list_swap(d, At(links, l, k - 1), At(links, l, random[k])),
                         Size(l))
    /\ UNCHANGED <<links, live, listInUse>>

(* A command on no element or past the end: an ASSERT ends the program.    *)
ListAbort == \E l \in Lists : listInUse[l] /\ UNCHANGED listVars

(* What the end of the program does: list_destroy of the lists in use,     *)
(* slot by slot.                                                           *)
list_destroy(m, l) ==
    LET s == Walk(m, l) IN Loop(m, LAMBDA n, k : free(list_remove(n, s[k]), s[k]), Len(s))

ListQuit ==
    \E slot \in SetToSeqs(Lists) :
        Relink(Loop(links, LAMBDA m, k : IF listInUse[slot[k]] THEN list_destroy(m, slot[k]) ELSE m,
                    Len(slot)),
               UNION {ElemsOf(l) : l \in Lists})

Positions == 0 .. Cardinality(Items)

ListNext ==
    \E l \in Lists :
        \/ CreateList(l)
        \/ \E d \in Data : \/ ListInsertOrdered(l, d)
                           \/ ListPushFront(l, d)
                           \/ ListPushBack(l, d)
                           \/ \E pos \in Positions : ListInsert(l, pos, d)
        \/ ListPopFront(l) \/ ListPopBack(l) \/ ListReverse(l) \/ ListSort(l)
        \/ ListShuffle(l)
        \/ \E dup \in Lists \cup {NoList} : ListUnique(l, dup)
        \/ \E pos \in Positions : ListRemove(l, pos)
        \/ \E p, q \in Positions : ListSwap(l, p, q)
        \/ \E org \in Lists, p, q, r \in Positions : ListSplice(l, org, p, q, r)

ListSpec == ListInit /\ [][ListNext]_listVars

-----------------------------------------------------------------------------
ListTypeOK ==
    /\ links \in [next : [ListCells -> ListCells \cup {Null}],
                  prev : [ListCells -> ListCells \cup {Null}]]
    /\ value \in [Elems -> Data]
    /\ live \subseteq Elems
    /\ listInUse \in [Lists -> BOOLEAN]

(* The lists in use are linked both ways and share no element, and they    *)
(* have all live items and no other: no command of the list library drops  *)
(* an item, or leads to one that has been freed or leaked.                 *)
ListsSound == ListTypeOK /\ AllSound(links, Used) /\ Held(links) = live

(* What the functions of list.c do to the sequence of elements, from every *)
(* state: list_sort is a stable sort; list_insert_ordered keeps a sorted   *)
(* list sorted, the new element, whatever its data, after its equals;      *)
(* list_unique keeps the first of each run of equals and hands the others  *)
(* over, in order; list_max and list_min find the first of the greatest    *)
(* and of the least.                                                       *)
Sorted(s, d) == \A i, j \in DOMAIN s : i < j => d[s[i]] <= d[s[j]]
FirstOfRun(s) == [k \in DOMAIN s |-> k = 1 \/ value[s[k]] # value[s[k - 1]]]
Picked(s, test) ==
    Loop(<< >>, LAMBDA r, k : IF test[k] THEN Append(r, s[k]) ELSE r, Len(s))
OrderingRight ==
    \A l \in Used :
        LET s == Walk(links, l)
            t == Walk(list_sort(links, value, l), l)
        IN  /\ Len(t) = Len(s) /\ ToSet(t) = ToSet(s) /\ Sorted(t, value)
            /\ \A i, j \in DOMAIN t : i < j /\ value[t[i]] = value[t[j]] =>
                   SelectInSeq(s, LAMBDA x : x = t[i]) < SelectInSeq(s, LAMBDA x : x = t[j])
            /\ \A e \in Elems \ live, n \in Data : Sorted(s, value) =>
                   LET d == [value EXCEPT ![e] = n]
                       u == Walk(list_insert_ordered(links, d, l, e), l)
                       k == SelectInSeq(u, LAMBDA x : x = e)
                   IN  /\ Sorted(u, d) /\ RemoveAt(u, k) = s
                       /\ k < Len(u) => n < d[u[k + 1]]
            /\ \A dup \in (Used \cup {NoList}) \ {l} :
                   LET m == list_unique(links, value, l, dup)
                       first == FirstOfRun(s)
                   IN  /\ Walk(m, l) = Picked(s, first)
                       /\ dup # NoList =>
                              Walk(m, dup) = Walk(links, dup)
                                  \o Picked(s, [k \in DOMAIN s |-> ~first[k]])
            /\ \A k \in DOMAIN s :
                   LET max == SelectInSeq(s, LAMBDA x : x = list_max(links, value, l))
                       min == SelectInSeq(s, LAMBDA x : x = list_min(links, value, l))
                   IN  /\ value[s[k]] <= value[s[max]] /\ (k < max => value[s[k]] < value[s[max]])
                       /\ value[s[k]] >= value[s[min]] /\ (k < min => value[s[k]] > value[s[min]])

(* The functions that move elements do what their names say to the         *)
(* sequences: list_splice takes first up to last out of one list and puts  *)
(* them before the place in the other, also within one list.               *)
MovesRight ==
    \A l \in Used :
        LET s == Walk(links, l)
        IN  /\ Walk(list_reverse(links, l), l) = Reverse(s)
            /\ \A k \in 0 .. Len(s), e \in Elems \ live :
                   Walk(list_insert(links, At(links, l, k), e), l) = InsertAt(s, k + 1, e)
            /\ \A k \in DOMAIN s : Walk(list_remove(links, s[k]), l) = RemoveAt(s, k)
            /\ \A org \in Used : \A p \in 0 .. Len(s), i, j \in 0 .. Size(org) :
                   i <= j /\ (l = org => p < i \/ p >= j) =>
                   LET o == Walk(links, org)
                       moved == SubSeq(o, i + 1, j)
                       m == list_splice(links, At(links, l, p), At(links, org, i), At(links, org, j))
                       rest == SubSeq(o, 1, i) \o SubSeq(o, j + 1, Len(o))
                       q == IF l = org /\ p >= j THEN p - (j - i) ELSE p
                       into == IF l = org THEN rest ELSE s
                   IN  /\ Walk(m, l) = SubSeq(into, 1, q) \o moved \o SubSeq(into, q + 1, Len(into))
                       /\ org # l => Walk(m, org) = rest
=============================================================================
