------------------------- MODULE ModelSettingsProps -------------------------
(***************************************************************************)
(* What the settings of the language model promise, however changes        *)
(* overlap and whatever the secret and the environment become.             *)
(***************************************************************************)
EXTENDS ModelSettings

Config == [provider : Providers \cup {None}, key : Keys \cup {EnvKey, None}, url : Urls \cup {None}]
Row == {NoRow} \cup {r \in [provider : Providers, key : Keys \cup {None}, url : Urls \cup {None},
                             under : Secrets \cup {None}] : r.key = None => r.under = None}

(* Every part of the state holds values of its type; a row without a key is*)
(* not marked sealed, and the key of the environment is never stored.      *)
TypeOK ==
    /\ row \in Row /\ client \in Config /\ inForce \subseteq Config
    /\ secret \in Secrets \cup {None} /\ env \in Environments
    /\ thread \in [Threads -> [pc : {"idle", "save", "reload", "assign"}, cfg : Config]]
    /\ changes \in Nat /\ starts \in Nat /\ failed \in BOOLEAN

AtRest == \A t \in Threads : thread[t].pc \in {"idle", "save"}

(* Once every change has finished, and unless a rebuild failed, enrichment *)
(* uses settings that were in force at or after the first of the changes   *)
(* that overlapped: its own, if none did (llm.py: "enrichment picks up the *)
(* new provider/key without a redeploy").  With an overlap it may be any   *)
(* of theirs and not the last, for reading the row and putting the client  *)
(* in place are two steps.                                                 *)
InUseIsSaved == AtRest /\ ~failed => client \in inForce

(* Then, and unless changes overlapped, the settings page says enrichment  *)
(* is configured exactly when it has a client, and says the stored key     *)
(* cannot be read rather than claim a configuration it does not use.       *)
PageTellsTheTruth ==
    AtRest /\ ~failed /\ inForce = {BuildClient(CurrentConfig)} =>
        /\ PublicShape.configured <=> client # NoConfig
        /\ PublicShape.source = "settings" => client.provider = row.provider
        /\ PublicShape.unreadable => client.key \in {None, EnvKey}

(* A saved row makes a client for as long as its key can be read: with the *)
(* secret it was sealed under, or any if it was saved without one, whatever*)
(* other change was saved between the check and the save                   *)
(* (routes/llm.py: "decrypts by construction").                            *)
SavedIsUsable ==
    row # NoRow /\ row.under \in {None, secret} => BuildClient(Get(row)) # NoConfig

(* No key is used, or tried, with a provider it is not from: a request that*)
(* leaves the key out gets the stored one of its provider only, though     *)
(* another request may have stored another's in between.                   *)
KeyStaysWithItsProvider ==
    \A cfg \in {client} \cup {Trial(b) : b \in Bodies} :
        cfg.key \in Keys => KeyFor[cfg.key] = cfg.provider

(* With a key in the environment enrichment always has a client: a stored  *)
(* row nothing can be made of never shadows it (llm.py: "it would otherwise*)
(* shadow a perfectly good env key and silently kill enrichment").         *)
NeverOffWithAnEnvKey == env.key => client # NoConfig
=============================================================================
