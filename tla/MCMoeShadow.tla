---------------------------- MODULE MCMoeShadow ----------------------------
(***************************************************************************)
(* MoeShadow for TLC: three slices of one or two per kernel entry, of two  *)
(* tensor views (the same key with another size), and budgets up to the    *)
(* largest size_t.                                                         *)
(***************************************************************************)
EXTENDS MoeShadow, TLC

Slices == [key : Keys, bytes : Sizes]

MCKernelEntries ==
    { <<s>> : s \in Slices } \cup { p \in Slices \X Slices : p[1].key # p[2].key /\ p[1].bytes = p[2].bytes }

ContextSymmetry == Permutations(Contexts) \cup Permutations(Keys)
=============================================================================
