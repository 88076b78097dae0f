--------------------------- MODULE MCOfflineStore ---------------------------
(* The offline store for TLC: two spellings of one catalogue key, and the  *)
(* bounds of each run.                                                     *)
EXTENDS OfflineStoreProps, TLC

TwoNames == {"lemon", "lemons"}
OneKey == [n \in TwoNames |-> "lemon"]

Nothing == [k \in Bounded |-> 0]
Taps(n) == [Nothing EXCEPT !.taps = n]

(* Three changes and nothing wrong; or two, with a network or a storage    *)
(* that fails, a refusal, a reload, or somebody else at the list; or one   *)
(* that is refused before or after a reload.                               *)
Trouble ==
    {Taps(3),
     [Taps(2) EXCEPT !.losses = 1],
     [Taps(2) EXCEPT !.late = 1],
     [Taps(2) EXCEPT !.faults = 1],
     [Taps(2) EXCEPT !.refusals = 1],
     [Taps(2) EXCEPT !.reloads = 1],
     [Taps(1) EXCEPT !.refusals = 1, !.reloads = 1],
     [Taps(2) EXCEPT !.remote = 1]}
OneLoss == {[Taps(2) EXCEPT !.losses = 1]}
OneRefusal == {[Taps(2) EXCEPT !.refusals = 1]}

Interchangeable == Permutations(Procs)
=============================================================================
