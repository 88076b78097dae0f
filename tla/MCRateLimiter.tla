--------------------------- MODULE MCRateLimiter ----------------------------
(* The instance of RateLimiter that TLC checks: one proxy, whose callers   *)
(* send no header of their own, or one that holds some address or none.    *)
EXTENDS RateLimiterProps

MCProxies == <<"proxy">>
MCHeaders == {<<>>, <<"junk">>} \cup {<<c>> : c \in Callers}
MCLimit == [b \in Buckets |-> 2]
MCWindow == [b \in Buckets |-> 3]
MCSymmetry == Permutations(Threads) \cup Permutations(Callers)
=============================================================================
