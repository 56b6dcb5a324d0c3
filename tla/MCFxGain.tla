------------------------------ MODULE MCFxGain ------------------------------
(* Two of the three amplifiers: what one of them remembers depends on its  *)
(* own level alone.                                                        *)
EXTENDS FxGain, TLC

CONSTANTS american, modern
TwoModels == {american, modern}
ModelSymmetry == Permutations(TwoModels)
=============================================================================
