--------------------------- MODULE MCConditionalOtp ---------------------------
(* TLC instance of ConditionalOtp. *)
EXTENDS ConditionalOtp, TLC

CONSTANTS s1, s2, own, other, role, attr

TwoSessions == {s1, s2}
AllConfigs  == {own, other}
OneRole     == {role}
OneAttr     == {attr}

SessionSymmetry == Permutations({s1, s2})

\* The user has no credential yet, the role exists, the OTP execution names both
\* exemptions, and another configuration of the realm, if there is one, names the
\* attribute.
MCInit ==
    /\ Init
    /\ roles = Roles /\ ~enrolled
    /\ config[own] = [role |-> role, attr |-> attr]
    /\ config[other] \in {None, [role |-> None, attr |-> attr]}

MCSpec == MCInit /\ [][Next]_vars

=============================================================================
