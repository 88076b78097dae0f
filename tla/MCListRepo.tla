----------------------------- MODULE MCListRepo -----------------------------
(* Bounds for ListRepo: two names that are each other's singular and       *)
(* plural, of which the built-in map knows one, and two rows to hold them. *)
EXTENDS ListRepoProps, TLC

CONSTANTS lemon, lemons, blank, known, learned

MCPlurals == {<<lemon, lemons>>}
MCBuiltinIcon == [k \in Keys |-> IF k = lemon THEN known ELSE NoIcon]

TwoThreads == Permutations(Threads)
=============================================================================
