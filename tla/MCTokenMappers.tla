--------------------------- MODULE MCTokenMappers ---------------------------
(***************************************************************************)
(* Three groups, two of them with one name under different parents.        *)
(***************************************************************************)
EXTENDS TokenMappers, TLC

CONSTANTS g1, g2, g3

MCGroups == {g1, g2, g3}
MCNames == {"staff", "branch"}
Namesakes == Permutations({g1, g2})

MCInit == Init /\ name = [g \in MCGroups |-> IF g = g3 THEN "branch" ELSE "staff"]
MCSpec == MCInit /\ [][Next]_vars
=============================================================================
