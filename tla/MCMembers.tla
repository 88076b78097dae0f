----------------------------- MODULE MCMembers ------------------------------
(* The roster for TLC.                                                     *)
EXTENDS MembersProps, TLC

Interchangeable ==
    Permutations(Threads) \cup Permutations(Names) \cup Permutations(Uids)
    \cup Permutations(Invites) \cup Permutations(Challenges)
=============================================================================
