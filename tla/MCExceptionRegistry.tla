----------------------- MODULE MCExceptionRegistry -----------------------
(* Small instances of ExceptionRegistry for TLC: two exceptions of one      *)
(* finding and three commands, any of which could take another's place.     *)
EXTENDS ExceptionRegistry, TLC

CONSTANTS x1, x2, c1, c2, c3

MCCovers   == [x \in Ids |-> "f1"]
MCSymmetry == Permutations({x1, x2}) \cup Permutations({c1, c2, c3})
==========================================================================
