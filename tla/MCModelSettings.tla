-------------------------- MODULE MCModelSettings ---------------------------
(* The instance of ModelSettings that TLC checks.                          *)
EXTENDS ModelSettingsProps, TLC

MCKeyFor == [k \in Keys |-> IF k = "ka" THEN "anthropic" ELSE IF k = "ko" THEN "openai"
                            ELSE "custom"]
MCSymmetry == Permutations(Threads) \cup Permutations(Secrets) \cup Permutations(Urls)
=============================================================================
