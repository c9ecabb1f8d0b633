----------------------------- MODULE MCWelcomeMail -----------------------------
(* TLC instances of WelcomeMail. *)
EXTENDS WelcomeMail, TLC

CONSTANTS r1, r2, r3, n1, n2

ThreeRequests == {r1, r2, r3}
TwoNames      == {n1, n2}

Symmetry == Permutations(ThreeRequests) \cup Permutations(TwoNames)

=============================================================================
