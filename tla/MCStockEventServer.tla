------------------------- MODULE MCStockEventServer -------------------------
(***************************************************************************)
(* Small instances of the event server: the values of its constants.       *)
(***************************************************************************)
EXTENDS StockEventRefinement, TLC

MCInitial == [k \in Item |-> IF k = 1 THEN 2 ELSE 1]
MCQtyWide == {-1, 1, 3}
Symmetry  == Permutations(Client)
=============================================================================
