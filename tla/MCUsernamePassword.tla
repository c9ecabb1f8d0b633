-------------------------- MODULE MCUsernamePassword --------------------------
(* TLC instances of UsernamePassword. *)
EXTENDS UsernamePassword, TLC

CONSTANTS u1, u2, s1, s2

OneSession  == {s1}
TwoSessions == {s1, s2}
OneUser     == {u1}
TwoUsers    == {u1, u2}
KnownName   == {u1}
AnyName     == {u1, u2, NoUser}

SessionSymmetry == Permutations({s1, s2})

=============================================================================
