----------------------------- MODULE PintosList -----------------------------
(***************************************************************************)
(* Lab 1, list.c: doubly linked lists with a head and a tail element.      *)
(*                                                                         *)
(* A memory m has two fields, m.next and m.prev: the links of every        *)
(* element.  An operator has the name of the C function it stands for,     *)
(* takes a memory and returns the memory the function leaves, assignment   *)
(* by assignment and in the order of the code, so that the aliasing of its *)
(* pointers has its effect.  Lists and hash buckets are both made of these.*)
(***************************************************************************)
EXTENDS Naturals, Sequences, SequencesExt

Null == <<"null", 0>>
ListHead(l) == <<"head", l>>
ListTail(l) == <<"tail", l>>
Elem(i) == <<"elem", i>>

SetNext(m, e, to) == [m EXCEPT !.next[e] = to]
SetPrev(m, e, to) == [m EXCEPT !.prev[e] = to]

(* A memory of the given elements with no link set, as memory nobody may   *)
(* read counts here; and one whose element e has been given to free().     *)
Unlinked(elems) ==
    [next |-> [e \in elems |-> Null], prev |-> [e \in elems |-> Null]]

free(m, e) == SetPrev(SetNext(m, e, Null), e, Null)

(* What n rounds of a loop make of s.  A round after the last changes      *)
(* nothing, so n may be more than there are: memory has more elements than *)
(* any loop over a list has rounds.                                        *)
Loop(s, Round(_, _), n) ==
    LET after[k \in 0 .. n] == IF k = 0 THEN s ELSE Round(after[k - 1], k)
    IN  after[n]

LoopBound(m) == Cardinality(DOMAIN m.next)

-----------------------------------------------------------------------------
list_init(m, l) ==
    LET m1 == SetPrev(SetNext(m, ListHead(l), ListTail(l)), ListHead(l), Null)
    IN  SetNext(SetPrev(m1, ListTail(l), ListHead(l)), ListTail(l), Null)

list_begin(m, l) == m.next[ListHead(l)]
list_end(l) == ListTail(l)
list_empty(m, l) == list_begin(m, l) = list_end(l)

list_insert(m, before, e) ==
    LET m1 == SetPrev(m, e, m.prev[before])
        m2 == SetNext(m1, e, before)
        m3 == SetNext(m2, m2.prev[before], e)
    IN  SetPrev(m3, before, e)

list_push_front(m, l, e) == list_insert(m, list_begin(m, l), e)
list_push_back(m, l, e) == list_insert(m, list_end(l), e)

list_remove_OneWay(m, e) ==      \* mutant: the link back is forgotten
    SetNext(m, m.prev[e], m.next[e])

list_remove(m, e) ==
    LET m1 == SetNext(m, m.prev[e], m.next[e])
    IN  SetPrev(m1, m1.next[e], m1.prev[e])

list_splice_Late(m, before, first, end) ==  \* mutant: before->prev set too early
    LET last == m.prev[end]
        m1 == SetNext(m, m.prev[first], m.next[last])
        m2 == SetPrev(m1, m1.next[last], m1.prev[first])
        m3 == SetPrev(m2, first, m2.prev[before])
        m4 == SetNext(m3, last, before)
        m5 == SetPrev(m4, before, last)
    IN  IF first = end THEN m ELSE SetNext(m5, m5.prev[before], first)

list_splice(m, before, first, end) ==
    LET last == m.prev[end]
        m1 == SetNext(m, m.prev[first], m.next[last])
        m2 == SetPrev(m1, m1.next[last], m1.prev[first])
        m3 == SetPrev(m2, first, m2.prev[before])
        m4 == SetNext(m3, last, before)
        m5 == SetNext(m4, m4.prev[before], first)
        m6 == SetPrev(m5, before, last)
    IN  IF first = end THEN m ELSE m6

-----------------------------------------------------------------------------
(* The elements a loop from list_begin(l) by list_next to list_end(l)      *)
(* meets; a walk that does not come to an end is cut at the size of memory.*)
Walk(m, l) ==
    LET most == Cardinality(DOMAIN m.next)
        Over(e) == e \in {Null, list_end(l)}
        Onward(e) == IF Over(e) THEN e ELSE m.next[e]
        pos[k \in 0 .. most] == IF k = 0 THEN list_begin(m, l) ELSE Onward(pos[k - 1])
        len == CHOOSE k \in 0 .. most :
                   /\ Over(pos[k]) \/ k = most
                   /\ k = 0 \/ ~Over(pos[k - 1])
    IN  [k \in 1 .. len |-> pos[k - 1]]

(* The element after the first k: k times list_next from list_begin.       *)
At(m, l, k) == Append(Walk(m, l), list_end(l))[k + 1]

(* Head, elements and tail are linked both ways, each once.                *)
Sound(m, l) ==
    LET path == <<ListHead(l)>> \o Walk(m, l) \o <<ListTail(l)>>
    IN  /\ \A k \in 1 .. Len(path) - 1 :
               m.next[path[k]] = path[k + 1] /\ m.prev[path[k + 1]] = path[k]
        /\ m.prev[ListHead(l)] = Null /\ m.next[ListTail(l)] = Null
        /\ IsInjective(path)

(* The lists of ls are sound and share no element; no other element is     *)
(* linked.                                                                 *)
AllSound(m, ls) ==
    /\ \A l \in ls : Sound(m, l)
    /\ \A k, l \in ls :
           k # l => ToSet(Walk(m, k)) \cap ToSet(Walk(m, l)) = {}
    /\ \A e \in DOMAIN m.next :
           \/ m.next[e] = Null /\ m.prev[e] = Null
           \/ \E l \in ls : e \in ToSet(Walk(m, l)) \cup {ListHead(l), ListTail(l)}
=============================================================================
