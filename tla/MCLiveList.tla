----------------------------- MODULE MCLiveList -----------------------------
(* The live list for TLC.                                                  *)
EXTENDS LiveList, TLC

Interchangeable ==
    Permutations(Threads) \cup Permutations(Tasks) \cup Permutations(Fetches)
    \cup Permutations(Ids)

(* A phone at its best: its stream never breaks, and what is committed is  *)
(* published before anything else is.                                      *)
OrderlySpec == Init /\ [][Next /\ UNCHANGED stream /\ Cardinality(Unpublished') <= 1]_vars
=============================================================================
