------------------------------ MODULE MCLastLogin ------------------------------
(* TLC instances of LastLogin. *)
EXTENDS LastLogin

CONSTANTS r1, r2, u1, u2

TwoRequests == {r1, r2}
TwoUsers    == {u1, u2}

=============================================================================
