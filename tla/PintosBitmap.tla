---------------------------- MODULE PintosBitmap ----------------------------
(***************************************************************************)
(* Lab 1: a bitmap of bitmap.c under the bitmap commands of main.c.  Bits  *)
(* lie in words of type unsigned long, but the instructions that change    *)
(* them (orl, andl, xorl) reach only the low half of a word.               *)
(***************************************************************************)
EXTENDS Integers

CONSTANTS
    ElemBits,   \* ELEM_BITS: 64 on the machines the Makefile builds for
    AsmBits,    \* bits that orl, andl and xorl change: 32
    MaxBits     \* bound on the size of a bitmap

ASSUME SizesOK == ElemBits \in Nat \ {0} /\ AsmBits \in Nat /\ MaxBits \in Nat

VARIABLES
    bit_cnt,        \* b->bit_cnt
    bits,           \* b->bits, the words laid end to end
    asked,          \* history: the bits as the calls ask for them
    bitmapInUse     \* bitmap_in_use

bitmapVars == <<bit_cnt, bits, asked, bitmapInUse>>

(* The bits of the words that hold n bits: DIV_ROUND_UP of them.           *)
elem_cnt(n) == (n + ElemBits - 1) \div ElemBits
Stored(n) == 0 .. ElemBits * elem_cnt(n) - 1

Reached(i) == i % ElemBits < AsmBits

-----------------------------------------------------------------------------
(* bitmap_mark, bitmap_reset and bitmap_flip.                              *)
bitmap_set(b, i, v) == [b EXCEPT ![i] = IF Reached(i) THEN v ELSE @]
bitmap_flip(b, i) == [b EXCEPT ![i] = IF Reached(i) THEN ~@ ELSE @]

bitmap_set_multiple(b, start, cnt, v) ==
    [i \in DOMAIN b |->
        IF i \in start .. start + cnt - 1 /\ Reached(i) THEN v ELSE b[i]]

bitmap_contains(b, start, cnt, v) == \E i \in start .. start + cnt - 1 : b[i] = v

(* Where bitmap_scan finds a group; it returns the first.                  *)
Groups(start, cnt, v) ==
    {i \in start .. bit_cnt - cnt : ~bitmap_contains(bits, i, cnt, ~v)}

(* What bitmap_create may return: malloc's words hold anything at first.   *)
bitmap_create(n) ==
    {bitmap_set_multiple(garbage, 0, n, FALSE) : garbage \in [Stored(n) -> BOOLEAN]}

-----------------------------------------------------------------------------
BitmapInit ==
    /\ bit_cnt = 0
    /\ bits \in [Stored(0) -> BOOLEAN]
    /\ asked \in [0 .. -1 -> BOOLEAN]
    /\ bitmapInUse = FALSE

CreateBitmap(n) ==
    /\ bit_cnt' = n
    /\ bits' \in bitmap_create(n)
    /\ asked' = [i \in 0 .. n - 1 |-> FALSE]
    /\ bitmapInUse' = TRUE

(* A command that changes bits and asks for the bits a.                    *)
Change(b, a) ==
    /\ bitmapInUse
    /\ bits' = b
    /\ asked' = a
    /\ UNCHANGED <<bit_cnt, bitmapInUse>>

(* bitmap_mark, bitmap_reset, bitmap_set.  Only bitmap_set has an ASSERT   *)
(* on the position: the others change what lies there, too, behind the     *)
(* bitmap's end.  The model ends with the last word.                       *)
BitmapSet(i, v) ==
    /\ i \in Stored(bit_cnt)
    /\ Change(bitmap_set(bits, i, v), [k \in DOMAIN asked |-> IF k = i THEN v ELSE asked[k]])

BitmapFlip(i) ==
    /\ i \in Stored(bit_cnt)
    /\ Change(bitmap_flip(bits, i), [k \in DOMAIN asked |-> IF k = i THEN ~asked[k] ELSE asked[k]])

AskMultiple(start, cnt, v) ==
    [i \in 0 .. bit_cnt - 1 |-> IF i \in start .. start + cnt - 1 THEN v ELSE asked[i]]

(* bitmap_set_multiple, and bitmap_set_all with start 0 and cnt bit_cnt.   *)
BitmapSetMultiple(start, cnt, v) ==
    /\ start + cnt <= bit_cnt
    /\ Change(bitmap_set_multiple(bits, start, cnt, v), AskMultiple(start, cnt, v))

BitmapScanAndFlip(start, cnt, v) ==
    \E idx \in Groups(start, cnt, v) :
        /\ \A i \in Groups(start, cnt, v) : idx <= i
        /\ Change(bitmap_set_multiple(bits, idx, cnt, ~v), AskMultiple(idx, cnt, ~v))

BitmapExpand_Short(n) ==    \* mutant: the last of the old bits is not copied
    /\ bitmapInUse
    /\ bit_cnt' = bit_cnt + n
    /\ \E new \in bitmap_create(bit_cnt') :
           bits' = [i \in DOMAIN new |->
                       IF i < bit_cnt - 1 /\ Reached(i) THEN bits[i] ELSE new[i]]
    /\ asked' = [i \in 0 .. bit_cnt' - 1 |-> IF i < bit_cnt THEN asked[i] ELSE FALSE]
    /\ UNCHANGED bitmapInUse

(* bitmap_expand by n bits: a new bitmap, the old bits set one by one.     *)
BitmapExpand(n) ==
    /\ bitmapInUse
    /\ bit_cnt' = bit_cnt + n
    /\ \E new \in bitmap_create(bit_cnt') :
           bits' = [i \in DOMAIN new |->
                       IF i < bit_cnt /\ Reached(i) THEN bits[i] ELSE new[i]]
    /\ asked' = [i \in 0 .. bit_cnt' - 1 |-> IF i < bit_cnt THEN asked[i] ELSE FALSE]
    /\ UNCHANGED bitmapInUse

BitmapNext ==
    \/ \E n \in 0 .. MaxBits : CreateBitmap(n)
    \/ \E i \in 0 .. MaxBits : BitmapFlip(i) \/ \E v \in BOOLEAN : BitmapSet(i, v)
    \/ \E start, cnt \in 0 .. MaxBits, v \in BOOLEAN :
           BitmapSetMultiple(start, cnt, v) \/ BitmapScanAndFlip(start, cnt, v)
    \/ \E n \in 0 .. MaxBits - bit_cnt : BitmapExpand(n)

BitmapSpec == BitmapInit /\ [][BitmapNext]_bitmapVars

(* The ASSERTs on ranges, and of bitmap_set and bitmap_test on positions,  *)
(* end the program.                                                        *)
BitmapAbort == bitmapInUse /\ UNCHANGED bitmapVars

(* The end of the program: bitmap_destroy.                                 *)
BitmapQuit ==
    /\ bit_cnt' = 0
    /\ bits' \in [Stored(0) -> BOOLEAN]
    /\ asked' \in [0 .. -1 -> BOOLEAN]
    /\ UNCHANGED bitmapInUse

-----------------------------------------------------------------------------
BitmapTypeOK ==
    /\ bit_cnt \in 0 .. MaxBits
    /\ bits \in [Stored(bit_cnt) -> BOOLEAN]
    /\ asked \in [0 .. bit_cnt - 1 -> BOOLEAN]
    /\ bitmapInUse \in BOOLEAN

(* Whatever was set, flipped, scanned and expanded, and whatever malloc    *)
(* left in the words, a bit that the instructions reach is what the calls  *)
(* have made of it: a bitmap of up to 32 bits is the bit vector asked for. *)
LowBitsExact == \A i \in 0 .. bit_cnt - 1 : Reached(i) => bits[i] = asked[i]
=============================================================================
