--------------------------- MODULE MCUserService ---------------------------
(* UserService for TLC: two calls at a time, three altogether, the *)
(* staff of one organisation and one more user.                            *)
EXTENDS UserService, TLC

CONSTANTS c1, c2, s1, s2, s3, u1, u2, u3, u4, o1, o2, nobody

Symmetry == Permutations({c1, c2}) \cup Permutations({s1, s2, s3})

=============================================================================
