------------------------------ MODULE MCLogoutApi ------------------------------
(* TLC instances of LogoutApi. *)
EXTENDS LogoutApi, TLC

CONSTANTS c1, c2, u1, u2, i1, i2, i3

TwoCalls  == {c1, c2}
TwoUsers  == {u1, u2}
ThreeSids == {i1, i2, i3}

Symmetry == Permutations(TwoCalls) \cup Permutations(TwoUsers)
                \cup Permutations(ThreeSids)

=============================================================================
