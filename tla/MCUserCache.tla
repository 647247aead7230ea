---------------------------- MODULE MCUserCache ----------------------------
(* A small instance of UserCache for TLC: calls, Telegram accounts and     *)
(* passwords are interchangeable.                                          *)
EXTENDS UserCache, TLC

CONSTANTS a, b, c, t1, t2, p1, p2

Symmetry == Permutations({a, b, c}) \cup Permutations({t1, t2}) \cup Permutations({p1, p2})

============================================================================
