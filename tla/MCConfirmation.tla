--------------------------- MODULE MCConfirmation ---------------------------
(***************************************************************************)
(* Small instances of Confirmation.  60 s and 300 s become 1 and 2 ticks:  *)
(* a reply can be in time, late, and later than the token lives.           *)
(***************************************************************************)
EXTENDS Confirmation, TLC

CONSTANTS t1, t2, t3

Symmetry == Permutations(Tokens)
=============================================================================
