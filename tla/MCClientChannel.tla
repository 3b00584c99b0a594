-------------------------- MODULE MCClientChannel --------------------------
(* Small instances of ClientChannel for TLC.                               *)
EXTENDS ClientChannel, TLC

CONSTANTS r1, r2

TwoReaders == {r1, r2}
OneReader  == {r1}

Symmetry == Permutations(Readers)
=============================================================================
