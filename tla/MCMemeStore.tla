---------------------------- MODULE MCMemeStore -----------------------------
(* Instances of MemeStore for TLC.                                         *)
EXTENDS MemeStore, TLC

CONSTANTS plain, apostrophe

MCRows == {plain, apostrophe}
MCQuoted == {apostrophe}
MCFound == {plain}

Symmetry == Permutations(Users)

=============================================================================
