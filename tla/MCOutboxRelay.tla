--------------------------- MODULE MCOutboxRelay ---------------------------
(* Small instances of OutboxRelay for TLC.                                 *)
EXTENDS OutboxRelay, TLC

CONSTANTS c1, c2, l1, u1, ann, r1, r2

\* Every call is about the same user.
UserOfOneUser == [t \in Txns |-> ann]

\* The two calls of CreateUser are interchangeable.
Symmetry == Permutations({c1, c2})

\* deps/di_methods.go:232-233
Registered == {"user.created", "user.telegram_linked"}

============================================================================
