---------------------------- MODULE MCInterpreter ----------------------------
(***************************************************************************)
(* A small session of the interpreter.  The hash values have a collision,  *)
(* as hash_int has: 61134643 and 67108879 both give 2618389428.            *)
(***************************************************************************)
EXTENDS Interpreter

SmallHash == [x \in Ints |-> <<1, 2, 6, 1>>[x + 1]]
Symmetry == Permutations(Lists) \cup Permutations(Items)
=============================================================================
