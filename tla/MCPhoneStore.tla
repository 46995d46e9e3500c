---------------------------- MODULE MCPhoneStore ----------------------------
(***************************************************************************)
(* An instance of PhoneStore for TLC.                                      *)
(***************************************************************************)
EXTENDS PhoneStore, TLC

CONSTANTS r1, r2, b1, b2, b3

MCTaken == (b1 :> 2) @@ (b2 :> 3) @@ (b3 :> 4)

\* A record is told from another only by what the phone says of it.
Symmetry == Permutations(Records)
=============================================================================
