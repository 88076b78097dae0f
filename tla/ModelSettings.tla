--------------------------- MODULE ModelSettings ----------------------------
(***************************************************************************)
(* The language model's settings: the one stored row and its sealed key    *)
(* (llm_config.py), the routes that change, test and show it               *)
(* (routes/llm.py), and the client enrichment uses, rebuilt after every    *)
(* change (llm.py).                                                        *)
(*                                                                         *)
(* Saving and clearing run in threads: read, write, read again for the     *)
(* rebuild and put the new client in place are four steps, and nothing is  *)
(* held between them.  The environment and the secret change only when the *)
(* server starts.                                                          *)
(***************************************************************************)
EXTENDS Integers

CONSTANTS
    Cloud,          \* providers that need a key
    Local,          \* providers that need an address
    Anthropic,      \* the provider of a key in the environment alone
    Custom,         \* the provider of a key and an address there
    Keys,           \* keys typed into the settings
    KeyFor,         \* KeyFor[k]: the provider key k is typed in for; what is typed
                    \* in for two counts as two keys
    Urls,           \* addresses of providers
    EnvKey,         \* the key in the environment, when there is one
    Secrets,        \* secrets the stored key may be sealed under
    Threads,        \* request threads
    MaxChanges,     \* bound on changes of the settings
    MaxRestarts,    \* bound on starts of the server
    None            \* no provider, key, address, secret, row or client

Providers == Cloud \cup Local

ASSUME SettingsAssumption ==
    /\ Cloud \cap Local = {} /\ Anthropic \in Cloud /\ Custom \in Local
    /\ KeyFor \in [Keys -> Providers] /\ EnvKey \notin Keys
    /\ None \notin Providers \cup Keys \cup Urls \cup Secrets \cup {EnvKey}
    /\ MaxChanges \in Nat /\ MaxRestarts \in Nat

VARIABLES
    row,        \* the stored row: provider, key, what it is sealed under, address
    secret,     \* TRUG_SECRET of this start
    env,        \* the environment of this start: a key or not, an address or None
    client,     \* the client enrichment uses
    thread,     \* what each thread is serving
    changes,    \* changes begun so far
    starts,     \* restarts so far
    \* history
    inForce,    \* clients of the settings since the first write still unfinished
    failed      \* a rebuild failed, and none has succeeded since

vars == <<row, secret, env, client, thread, changes, starts, inForce, failed>>
-----------------------------------------------------------------------------
(* What is stored, what it means, and the client it makes.                 *)

Environments == [key : BOOLEAN, url : Urls \cup {None}]

NoConfig == [provider |-> None, key |-> None, url |-> None]
NoRow == [provider |-> None, key |-> None, under |-> None, url |-> None]

(* Mutant: a plain row is not read once there is a secret.                 *)
DecryptSealedOnly(r) == IF r.under = secret THEN r.key ELSE None
(* _decrypt: None when the secret is not the one it was sealed under.      *)
Decrypt(r) == IF r.under \in {None, secret} THEN r.key ELSE None
Unreadable(r) == r.key # None /\ Decrypt(r) = None
Get(r) == [provider |-> r.provider, key |-> Decrypt(r), url |-> r.url]

BuildClient(cfg) ==
    IF \/ cfg.provider \in Cloud /\ cfg.key # None
       \/ cfg.provider \in Local /\ cfg.url # None
    THEN cfg ELSE NoConfig

EnvConfig ==
    IF ~env.key THEN NoConfig
    ELSE [provider |-> IF env.url = None THEN Anthropic ELSE Custom,
          key |-> EnvKey, url |-> env.url]

(* Mutant: a row whose key cannot be read still counts.                    *)
RowAlways(r) == IF r # NoRow THEN Get(r) ELSE EnvConfig
(* current_config: the row unless its key is needed and unreadable.        *)
ConfigOf(r) ==
    IF r # NoRow /\ ~(Unreadable(r) /\ BuildClient(Get(r)) = NoConfig) THEN Get(r)
    ELSE EnvConfig
CurrentConfig == ConfigOf(row)

(* _public_shape, without the wording, of a page drawn while nothing is    *)
(* saved: its two reads of the store see the same row.                     *)
PublicShape ==
    [configured |-> BuildClient(CurrentConfig) # NoConfig,
     source |-> IF CurrentConfig = NoConfig THEN "none"
                ELSE IF row # NoRow /\ CurrentConfig = Get(row) THEN "settings" ELSE "env",
     unreadable |-> Unreadable(row)]
-----------------------------------------------------------------------------
(* What a request asks for: a provider, perhaps a key of it, perhaps an    *)
(* address.                                                                *)
Bodies == {b \in [provider : Providers, key : Keys \cup {None}, url : Urls \cup {None}] :
             b.key # None => KeyFor[b.key] = b.provider}

(* _validate                                                               *)
Valid(b, stored) ==
    /\ b.provider \in Cloud =>
         b.key # None \/ (stored.provider = b.provider /\ stored.key # None)
    /\ b.provider \in Local => b.url # None

(* Mutant: the stored key is reused whatever the provider.                 *)
CandidateAnyKey(b, fallback) == [b EXCEPT !.key = IF b.key = None THEN fallback.key ELSE @]
(* _candidate: the stored key, for the same provider.                      *)
Candidate(b, fallback) ==
    [b EXCEPT !.key = IF b.key = None /\ fallback.provider = b.provider THEN fallback.key ELSE @]

(* What test_llm_config makes a client of and list_llm_models asks with.   *)
Trial(b) == Candidate(b, CurrentConfig)
-----------------------------------------------------------------------------
Idle == [pc |-> "idle", cfg |-> NoConfig]
Goto(t, state) == thread' = [thread EXCEPT ![t] = state]

PutRead(t, b) ==
    /\ thread[t] = Idle /\ changes < MaxChanges /\ changes' = changes + 1
    /\ Valid(b, Get(row)) /\ BuildClient(Candidate(b, Get(row))) # NoConfig
    /\ Goto(t, [pc |-> "save", cfg |-> Candidate(b, Get(row))])
    /\ UNCHANGED <<row, secret, env, client, starts, inForce, failed>>

(* The history of a write: the clients of the settings from the first write*)
(* that has still not rebuilt the client.                                  *)
Unfinished == \E t \in Threads : thread[t].pc \in {"reload", "assign"}
Wrote(r) == inForce' = (IF Unfinished THEN inForce ELSE {}) \cup {BuildClient(ConfigOf(r))}

(* LLMConfigStore.save: sealed under the secret, if there is one.          *)
Sealed(cfg) == [provider |-> cfg.provider, key |-> cfg.key, url |-> cfg.url,
                under |-> IF cfg.key = None THEN None ELSE secret]

(* Mutant: the client is not rebuilt after a save.                         *)
PutSaveOnly(t) ==
    /\ thread[t].pc = "save"
    /\ row' = Sealed(thread[t].cfg)
    /\ Wrote(Sealed(thread[t].cfg))
    /\ Goto(t, Idle)
    /\ UNCHANGED <<secret, env, client, changes, starts, failed>>
PutSave(t) ==
    /\ thread[t].pc = "save"
    /\ row' = Sealed(thread[t].cfg)
    /\ Wrote(Sealed(thread[t].cfg))
    /\ Goto(t, [Idle EXCEPT !.pc = "reload"])
    /\ UNCHANGED <<secret, env, client, changes, starts, failed>>

Delete(t) ==
    /\ thread[t] = Idle /\ changes < MaxChanges /\ changes' = changes + 1
    /\ row' = NoRow
    /\ Wrote(NoRow)
    /\ Goto(t, [Idle EXCEPT !.pc = "reload"])
    /\ UNCHANGED <<secret, env, client, starts, failed>>

(* Enricher.reload: reading the settings, then the assignment.             *)
Reload(t) ==
    /\ thread[t].pc = "reload"
    /\ Goto(t, [pc |-> "assign", cfg |-> BuildClient(CurrentConfig)])
    /\ UNCHANGED <<row, secret, env, client, changes, starts, inForce, failed>>

(* Mutant: the client is rebuilt only while there is one.                  *)
AssignIfAny(t) ==
    /\ thread[t].pc = "assign"
    /\ client' = IF client = NoConfig THEN client ELSE thread[t].cfg
    /\ failed' = FALSE
    /\ Goto(t, Idle)
    /\ UNCHANGED <<row, secret, env, changes, starts, inForce>>
Assign(t) ==
    /\ thread[t].pc = "assign"
    /\ client' = thread[t].cfg
    /\ failed' = FALSE
    /\ Goto(t, Idle)
    /\ UNCHANGED <<row, secret, env, changes, starts, inForce>>

(* "Saved, but couldn't activate": the request is answered with 500.       *)
ReloadFails(t) ==
    /\ thread[t].pc = "reload"
    /\ failed' = TRUE
    /\ Goto(t, Idle)
    /\ UNCHANGED <<row, secret, env, client, changes, starts, inForce>>

(* The server stops and starts, in whatever environment.                   *)
Restart ==
    /\ starts < MaxRestarts /\ starts' = starts + 1
    /\ UNCHANGED <<row, changes>>
    /\ secret' \in Secrets \cup {None} /\ env' \in Environments
    /\ thread' = [t \in Threads |-> Idle]
    /\ client' = BuildClient(CurrentConfig)'
    /\ inForce' = {client'} /\ failed' = FALSE
-----------------------------------------------------------------------------
Init ==
    /\ row = NoRow
    /\ secret \in Secrets \cup {None} /\ env \in Environments
    /\ client = BuildClient(CurrentConfig)
    /\ thread = [t \in Threads |-> Idle]
    /\ changes = 0 /\ starts = 0
    /\ inForce = {client} /\ failed = FALSE

Next ==
    \/ \E t \in Threads :
         \/ \E b \in Bodies : PutRead(t, b)
         \/ PutSave(t) \/ Delete(t) \/ Reload(t) \/ Assign(t) \/ ReloadFails(t)
    \/ Restart

Spec == Init /\ [][Next]_vars
=============================================================================
