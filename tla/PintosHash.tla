----------------------------- MODULE PintosHash -----------------------------
(***************************************************************************)
(* Lab 1: a hash table of hash.c, chained with the lists of list.c, under  *)
(* the hash commands of the interpreter (main.c).  The tables of the       *)
(* interpreter share nothing, so one of them is modelled.                  *)
(*                                                                         *)
(* hash_less compares hash values, so two integers are equal to the table  *)
(* when hash_int makes them so: HashOf need not be injective, and          *)
(* hash_int is not.                                                        *)
(***************************************************************************)
EXTENDS PintosList, FiniteSetsExt, Integers

CONSTANTS
    HashItems,      \* hash_items malloc() has to give
    IntMod,         \* integers are 0 .. IntMod - 1 and wrap
    HashOf,         \* hash_int
    MinBuckets,     \* 4 in the code
    BestPerBucket   \* BEST_ELEMS_PER_BUCKET, 2 in the code

VARIABLES
    table,      \* its links, elem_cnt, bucket_cnt, and which array buckets is
    item,       \* data of every hash_item
    hashInUse,  \* hash_in_use
    applied     \* history: hash_apply has changed data since the last new array

hashVars == <<table, item, hashInUse, applied>>

Ints == 0 .. IntMod - 1
HashElems == {Elem(i) : i \in HashItems}

(* x & (x - 1) is 0.                                                       *)
is_power_of_2(x) == x # 0 /\ \A d \in 2 .. x : x % d = 0 => d % 2 = 0

ASSUME HashConstants ==
    /\ IsFiniteSet(HashItems)
    /\ IntMod \in Nat \ {0}
    /\ HashOf \in [Ints -> Nat]
    /\ MinBuckets \in Nat /\ is_power_of_2(MinBuckets)
    /\ BestPerBucket \in Nat \ {0}

(* The bucket count for n elements: the greatest power of 2 that n over    *)
(* BestPerBucket reaches, and at least MinBuckets.                         *)
Ideal(n) == IF n \div BestPerBucket < MinBuckets THEN MinBuckets ELSE n \div BestPerBucket
BucketsFor(n) == Max({p \in 1 .. Ideal(n) : is_power_of_2(p)})

(* An array of buckets and the one that replaces it lie in two places.     *)
MaxBuckets == BucketsFor(Cardinality(HashItems))
Buckets(gen, cnt) == {<<gen, b>> : b \in 0 .. cnt - 1}
AllBuckets == Buckets(0, MaxBuckets) \cup Buckets(1, MaxBuckets)
HashCells ==
    HashElems \cup {ListHead(b) : b \in AllBuckets} \cup {ListTail(b) : b \in AllBuckets}

HashLess(a, b) == HashOf[a] < HashOf[b]
Equal(a, b) == ~HashLess(a, b) /\ ~HashLess(b, a)

find_bucket(t, x) == <<t.gen, HashOf[x] % t.bucket_cnt>>

(* The elements of an array of buckets in the order of the loops.          *)
Chain(t) ==
    FlattenSeq([b \in 1 .. t.bucket_cnt |-> Walk(t.links, <<t.gen, b - 1>>)])

NoElem == Null
find_elem(t, v, x) ==
    LET bucket == Walk(t.links, find_bucket(t, x))
        equals == {k \in DOMAIN bucket : Equal(v[bucket[k]], x)}
    IN  IF equals = {} THEN NoElem ELSE bucket[Min(equals)]

insert_elem(t, b, e) ==
    [t EXCEPT !.elem_cnt = @ + 1, !.links = list_push_front(@, b, e)]

remove_elem_Uncounted(t, e) ==    \* mutant: elem_cnt is not decremented
    [t EXCEPT !.links = list_remove(@, e)]

remove_elem(t, e) ==
    [t EXCEPT !.elem_cnt = @ - 1, !.links = list_remove(@, e)]

(* The lists of ls made empty, and given to free().                        *)
Ends(ls) == {ListHead(l) : l \in ls} \cup {ListTail(l) : l \in ls}
ListsMade(m, ls) ==
    [next |-> [c \in DOMAIN m.next |->
                  IF c \in Ends(ls) THEN list_init(m, c[2]).next[c] ELSE m.next[c]],
     prev |-> [c \in DOMAIN m.prev |->
                  IF c \in Ends(ls) THEN list_init(m, c[2]).prev[c] ELSE m.prev[c]]]
ListsFreed(m, ls) ==
    [next |-> [c \in DOMAIN m.next |-> IF c \in Ends(ls) THEN Null ELSE m.next[c]],
     prev |-> [c \in DOMAIN m.prev |-> IF c \in Ends(ls) THEN Null ELSE m.prev[c]]]

(* A round of the loops of rehash, from the array of old to that of new:   *)
(* elem is the next element to move, bucket the old bucket it is in.  When *)
(* that is at its end the next one follows, and nothing after the last.    *)
Entered(m, old, b) ==
    [links |-> m, bucket |-> b, elem |-> list_begin(m, <<old.gen, b>>)]

MoveNext_OldCount(s, old, new, v) ==  \* mutant: the old bucket_cnt is taken for the new one
    IF s.elem # list_end(<<old.gen, s.bucket>>)
    THEN LET to == <<new.gen, HashOf[v[s.elem]] % old.bucket_cnt>>
         IN  [links |-> list_push_front(list_remove(s.links, s.elem), to, s.elem),
              bucket |-> s.bucket, elem |-> s.links.next[s.elem]]
    ELSE IF s.bucket + 1 < old.bucket_cnt THEN Entered(s.links, old, s.bucket + 1)
    ELSE s

MoveNext(s, old, new, v) ==
    IF s.elem # list_end(<<old.gen, s.bucket>>)
    THEN LET to == find_bucket(new, v[s.elem])
         IN  [links |-> list_push_front(list_remove(s.links, s.elem), to, s.elem),
              bucket |-> s.bucket, elem |-> s.links.next[s.elem]]
    ELSE IF s.bucket + 1 < old.bucket_cnt THEN Entered(s.links, old, s.bucket + 1)
    ELSE s

Moved(old, new, v) ==
    LET rounds == Cardinality(HashElems) + old.bucket_cnt
        after[k \in 0 .. rounds] ==
            IF k = 0 THEN Entered(new.links, old, 0) ELSE MoveNext(after[k - 1], old, new, v)
    IN  after[rounds].links

(* Every element goes to the front of its new bucket.  Without memory the  *)
(* old array stays.                                                        *)
rehash(t, v, memory) ==
    LET cnt == BucketsFor(t.elem_cnt)
        new == [t EXCEPT !.bucket_cnt = cnt, !.gen = 1 - t.gen,
                         !.links = ListsMade(@, Buckets(1 - t.gen, cnt))]
    IN  IF cnt = t.bucket_cnt \/ ~memory THEN t
        ELSE [new EXCEPT !.links = ListsFreed(Moved(t, new, v), Buckets(t.gen, t.bucket_cnt))]

hash_init ==
    [links |-> ListsMade(Unlinked(HashCells), Buckets(0, MinBuckets)),
     elem_cnt |-> 0, bucket_cnt |-> MinBuckets, gen |-> 0]

-----------------------------------------------------------------------------
(* Items that the table does not lead to are lost, and count as free.      *)
InTable(t) == ToSet(Chain(t))
Leaves(t, v) ==
    LET lost == HashElems \ InTable(t)
        Kept(f) == [c \in HashCells |-> IF c \in lost THEN Null ELSE f[c]]
    IN  /\ table' = [t EXCEPT !.links = [next |-> Kept(@.next), prev |-> Kept(@.prev)]]
        /\ item' = [e \in HashElems |-> IF e \in lost THEN 0 ELSE v[e]]

HashInit ==
    /\ table = hash_init
    /\ item = [e \in HashElems |-> 0]
    /\ hashInUse = FALSE
    /\ applied = FALSE

(* create hashtable; an old table in the slot is lost.                     *)
CreateHash ==
    /\ Leaves(hash_init, item)
    /\ hashInUse' = TRUE
    /\ applied' = FALSE

(* The end of a command that has changed the table to t, with rehash.      *)
Rehashed(t, v) ==
    \E memory \in BOOLEAN :
        /\ Leaves(rehash(t, v, memory), v)
        /\ applied' = (applied /\ table'.bucket_cnt = t.bucket_cnt)
        /\ UNCHANGED hashInUse

(* A new item with data x, which is lost if an equal one is there.         *)
HashInsert(x) ==
    \E e \in HashElems \ InTable(table) :
        /\ hashInUse
        /\ LET v == [item EXCEPT ![e] = x]
           IN  Rehashed(IF find_elem(table, v, x) = NoElem
                        THEN insert_elem(table, find_bucket(table, x), e) ELSE table,
                        v)

HashReplace_Adds(x) ==    \* mutant: the old element stays
    \E e \in HashElems \ InTable(table) :
        /\ hashInUse
        /\ Rehashed(insert_elem(table, find_bucket(table, x), e), [item EXCEPT ![e] = x])

HashReplace(x) ==
    \E e \in HashElems \ InTable(table) :
        /\ hashInUse
        /\ LET v == [item EXCEPT ![e] = x]
               old == find_elem(table, v, x)
               t == IF old = NoElem THEN table ELSE remove_elem(table, old)
           IN  Rehashed(insert_elem(t, find_bucket(table, x), e), v)

HashDelete(x) ==
    LET found == find_elem(table, item, x)
    IN  /\ hashInUse /\ found # NoElem
        /\ Rehashed(remove_elem(table, found), item)

(* hash_clear keeps the array, whatever its size.                          *)
HashClear ==
    /\ hashInUse
    /\ Leaves([table EXCEPT !.elem_cnt = 0,
                            !.links = ListsMade(@, Buckets(table.gen, table.bucket_cnt))],
              item)
    /\ applied' = FALSE
    /\ UNCHANGED hashInUse

hash_square(x) == (x * x) % IntMod
hash_triple(x) == (x * x * x) % IntMod

(* hash_apply: the data change where they are, in the bucket of their old  *)
(* values.                                                                 *)
HashApply(action) ==
    LET Acted(x) == IF action = "square" THEN hash_square(x) ELSE hash_triple(x)
    IN
    /\ hashInUse
    /\ item' = [e \in HashElems |-> IF e \in InTable(table) THEN Acted(item[e]) ELSE item[e]]
    /\ applied' = TRUE
    /\ UNCHANGED <<table, hashInUse>>

HashNext ==
    \/ CreateHash
    \/ \E x \in Ints : HashInsert(x) \/ HashReplace(x) \/ HashDelete(x)
    \/ HashClear
    \/ HashApply("square") \/ HashApply("triple")

(* The end of the program: hash_destroy without a destructor.              *)
HashQuit ==
    /\ table' = [table EXCEPT !.links = Unlinked(HashCells)]
    /\ item' = [e \in HashElems |-> 0]
    /\ UNCHANGED <<hashInUse, applied>>

HashSpec == HashInit /\ [][HashNext]_hashVars

-----------------------------------------------------------------------------
HashTypeOK ==
    /\ table \in [links : [next : [HashCells -> HashCells \cup {Null}],
                           prev : [HashCells -> HashCells \cup {Null}]],
                  elem_cnt : Nat,
                  bucket_cnt : {p \in 1 .. MaxBuckets : is_power_of_2(p)},
                  gen : {0, 1}]
    /\ item \in [HashElems -> Ints]
    /\ hashInUse \in BOOLEAN /\ applied \in BOOLEAN

(* The buckets of the array in use are sound lists that share no element,  *)
(* elem_cnt counts what is in them, and the array that rehash has replaced *)
(* is not linked to anything, until the end of the program frees it all.   *)
TableSound ==
    /\ HashTypeOK
    /\ table.links # Unlinked(HashCells) =>
          /\ AllSound(table.links, Buckets(table.gen, table.bucket_cnt))
          /\ table.elem_cnt = Len(Chain(table))

(* hash_find finds an element equal to x if and only if there is one,      *)
(* unless hash_apply has changed data since the elements were last put in  *)
(* their buckets.                                                          *)
FindsWhatIsThere ==
    ~applied =>
        \A x \in Ints :
            find_elem(table, item, x) # NoElem
                <=> \E e \in InTable(table) : Equal(item[e], x)

(* Nor does any command then put an element beside an equal one: through   *)
(* growing, shrinking, replacing and failures of malloc the table stays a  *)
(* set.                                                                    *)
Equals(x) == Cardinality({e \in InTable(table) : Equal(item[e], x)})
StaysASet ==
    [][~applied /\ ~applied' =>
           \A x \in Ints : Equals(x)' > Equals(x) => Equals(x) = 0]_hashVars
=============================================================================
