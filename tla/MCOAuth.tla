------------------------------- MODULE MCOAuth ------------------------------
(* The instance of OAuth that TLC checks.                                  *)
EXTENDS OAuthProps, TLC

MCBase == [u \in Uris |-> IF u = "loop:5000" THEN "loop" ELSE u]
MCDocuments == {{"web"}, {"loop"}}
MCKnownUris == [c \in Known |-> {"loop"}]
MCSymmetry == Permutations(Uids) \cup Permutations(Secrets) \cup Permutations(Issues)
=============================================================================
