------------------------- MODULE MCStockThreadServer -------------------------
(***************************************************************************)
(* Small instances of the thread server: the values of its constants.      *)
(***************************************************************************)
EXTENDS StockThreadRefinement, SequencesExt

MCInitial   == [i \in Item |-> IF i = 1 THEN 2 ELSE 1]
MCShowOrder == SetToSortSeq(Item, <)
MCFileOrder == SetToSortSeq(Item, >)   \* stock.txt written in this order
MCQtyEdge   == {-1, 3}         \* against an amount of 2 and IntMax = 3
Symmetry    == Permutations(Client)
=============================================================================
