--------------------------- MODULE SettingsProofs ---------------------------
(***************************************************************************)
(* Theorems about the language model's settings (ModelSettings), for any   *)
(* providers, keys, secrets and threads and any number of changes and      *)
(* restarts.                                                               *)
(*                                                                         *)
(* The invariant is about what is on its way as much as about what is      *)
(* there: a stored row, and a row about to be saved, makes a client with   *)
(* any secret that can read it (Kept, ToSave); every client on its way to  *)
(* enrichment is one of the settings in force (Current).                   *)
(***************************************************************************)
EXTENDS ModelSettingsProps, TLAPS

(* The settings are of a provider that can be called with what they hold.  *)
Complete(cfg) ==
    \/ cfg.provider \in Cloud /\ cfg.key # None
    \/ cfg.provider \in Local /\ cfg.url # None

(* Their key, when it was typed in, is from their provider.                *)
Own(cfg) == cfg.key \in Keys => KeyFor[cfg.key] = cfg.provider

(* The stored row can be called, once its key is read.                     *)
Kept(r) == r # NoRow => Complete(r) /\ Own(r)

(* A client enrichment may be given: its key is from its provider, and     *)
(* there is one whenever the environment has a key.                        *)
Serves(c) == c \in Config /\ Own(c) /\ (env.key => c # NoConfig)

ServerTyped ==
    secret \in Secrets \cup {None} /\ env \in Environments

(* What a thread may be about to save, or about to put in place.           *)
ToSave(cfg) ==
    /\ cfg \in [provider : Providers, key : Keys \cup {None}, url : Urls \cup {None}]
    /\ Complete(cfg) /\ Own(cfg)

Works(state) ==
    /\ state.pc = "save" => ToSave(state.cfg)
    /\ state.pc = "assign" => Serves(state.cfg)

Settled == TypeOK /\ Kept(row) /\ Serves(client) /\ \A t \in Threads : Works(thread[t])
-----------------------------------------------------------------------------
(* What the stored row, the environment and the client made of them are.   *)

LEMMA NoConfigTyped == NoConfig \in Config /\ Own(NoConfig)
BY SettingsAssumption DEF NoConfig, Config, Own, Providers

LEMMA ClientOfComplete ==
    ASSUME NEW cfg \in Config
    PROVE  /\ Complete(cfg) => BuildClient(cfg) = cfg /\ cfg # NoConfig
           /\ ~Complete(cfg) => BuildClient(cfg) = NoConfig
BY SettingsAssumption DEF Complete, BuildClient, NoConfig, Config, Providers

LEMMA EnvServes ==
    ASSUME ServerTyped
    PROVE  /\ EnvConfig \in Config /\ Own(EnvConfig)
           /\ EnvConfig.key \in {None, EnvKey}
           /\ env.key => Complete(EnvConfig)
           /\ ~env.key => EnvConfig = NoConfig
<1>1. CASE env.key
  <2>1. EnvConfig = [provider |-> IF env.url = None THEN Anthropic ELSE Custom,
                     key |-> EnvKey, url |-> env.url]
    BY <1>1 DEF EnvConfig
  <2>2. EnvConfig.key = EnvKey /\ EnvConfig.url = env.url /\ env.url \in Urls \cup {None}
    BY <2>1 DEF ServerTyped, Environments
  <2>3. EnvConfig.provider = (IF env.url = None THEN Anthropic ELSE Custom)
    BY <2>1
  <2>4. EnvConfig \in Config
    BY <2>1, <2>2, SettingsAssumption DEF Config, Providers
  <2>5. Own(EnvConfig)
    BY <2>2, SettingsAssumption DEF Own
  <2>6. Complete(EnvConfig)
    BY <2>2, <2>3, SettingsAssumption DEF Complete
  <2> QED
    BY <1>1, <2>2, <2>4, <2>5, <2>6
<1>2. CASE ~env.key
  <2>1. EnvConfig = NoConfig
    BY <1>2 DEF EnvConfig
  <2>2. NoConfig.key = None
    BY DEF NoConfig
  <2> QED
    BY <1>2, <2>1, <2>2, NoConfigTyped
<1> QED
  BY <1>1, <1>2

LEMMA ReadTyped ==
    ASSUME NEW r \in Row
    PROVE  /\ Get(r) \in Config
           /\ Get(r).key \in {None, r.key} /\ Get(r).provider = r.provider
           /\ Get(r).url = r.url
           /\ r.under \in {None, secret} => Get(r).key = r.key
           /\ Unreadable(r) => Get(r).key = None
<1>1. /\ r.key \in Keys \cup {None} /\ r.provider \in Providers \cup {None}
      /\ r.url \in Urls \cup {None}
  <2>1. CASE r = NoRow
    BY <2>1 DEF NoRow
  <2>2. CASE r # NoRow
    BY <2>2 DEF Row
  <2> QED
    BY <2>1, <2>2
<1>2. Decrypt(r) \in {None, r.key}
  BY DEF Decrypt
<1>3. Get(r) = [provider |-> r.provider, key |-> Decrypt(r), url |-> r.url]
  BY DEF Get
<1>4. Get(r) \in Config
  BY <1>1, <1>2, <1>3 DEF Config
<1> QED
  BY <1>2, <1>3, <1>4 DEF Decrypt, Unreadable

(* llm.py current_config: whatever the row is, the client made of the      *)
(* settings is one enrichment may be given.                                *)
LEMMA SettingsServe ==
    ASSUME NEW r \in Row, Kept(r), ServerTyped
    PROVE  Serves(BuildClient(ConfigOf(r)))
<1>1. CASE r # NoRow /\ ~(Unreadable(r) /\ BuildClient(Get(r)) = NoConfig)
  <2>1. ConfigOf(r) = Get(r)
    BY <1>1 DEF ConfigOf
  <2>2. Complete(r) /\ Own(r)
    BY <1>1 DEF Kept
  <2>3. Own(Get(r))
    BY <2>2, ReadTyped, SettingsAssumption DEF Own
  <2>4. BuildClient(Get(r)) # NoConfig
    <3>1. CASE Unreadable(r)
      BY <1>1, <3>1
    <3>2. CASE ~Unreadable(r)
      <4>1. Get(r).key = r.key
        BY <3>2, ReadTyped DEF Unreadable, Get, Decrypt
      <4>2. Complete(Get(r))
        BY <4>1, <2>2, ReadTyped DEF Complete
      <4> QED
        BY <4>2, ReadTyped, ClientOfComplete
    <3> QED
      BY <3>1, <3>2
  <2>5. BuildClient(Get(r)) = Get(r)
    BY <2>4, ReadTyped, ClientOfComplete
  <2> QED
    BY <2>1, <2>3, <2>4, <2>5, ReadTyped DEF Serves
<1>2. CASE ~(r # NoRow /\ ~(Unreadable(r) /\ BuildClient(Get(r)) = NoConfig))
  <2>1. ConfigOf(r) = EnvConfig
    BY <1>2 DEF ConfigOf
  <2>2. CASE env.key
    BY <2>1, <2>2, EnvServes, ClientOfComplete DEF Serves
  <2>3. CASE ~env.key
    BY <2>1, <2>3, EnvServes, ClientOfComplete, NoConfigTyped DEF Serves
  <2> QED
    BY <2>2, <2>3
<1> QED
  BY <1>1, <1>2

(* The same of the row and the environment after a step.                   *)
LEMMA SettingsServeNext ==
    (row \in Row /\ Kept(row) /\ ServerTyped)' => Serves(BuildClient(CurrentConfig))'
<1>1. row \in Row /\ Kept(row) /\ ServerTyped => Serves(BuildClient(CurrentConfig))
  BY SettingsServe DEF CurrentConfig
<1> QED
  BY <1>1, PTL

(* While the server runs, the settings change with the row alone.          *)
LEMMA SameServer ==
    ASSUME UNCHANGED <<secret, env>>
    PROVE  BuildClient(CurrentConfig)' = BuildClient(ConfigOf(row'))
BY DEF CurrentConfig, ConfigOf, BuildClient, Get, Unreadable, Decrypt, EnvConfig, NoConfig, NoRow

(* routes/llm.py put_llm_config: what passes the checks can be saved, and  *)
(* what is saved is a row that keeps.                                      *)
LEMMA CheckedCanBeSaved ==
    ASSUME NEW b \in Bodies, NEW r \in Row, Kept(r),
           BuildClient(Candidate(b, Get(r))) # NoConfig
    PROVE  ToSave(Candidate(b, Get(r)))
<1> DEFINE cfg == Candidate(b, Get(r))
<1>1. /\ b \in [provider : Providers, key : Keys \cup {None}, url : Urls \cup {None}]
      /\ b.key # None => KeyFor[b.key] = b.provider
  BY DEF Bodies
<1>2. /\ cfg.provider = b.provider /\ cfg.url = b.url
      /\ cfg.key = IF b.key = None /\ Get(r).provider = b.provider THEN Get(r).key ELSE b.key
      /\ cfg = [provider |-> cfg.provider, key |-> cfg.key, url |-> cfg.url]
  BY <1>1 DEF Candidate
<1>3. r.key \in Keys \cup {None} /\ (r.key \in Keys => KeyFor[r.key] = r.provider)
  BY SettingsAssumption DEF Row, NoRow, Kept, Own
<1>4. cfg.key \in Keys \cup {None} /\ (cfg.key \in Keys => KeyFor[cfg.key] = cfg.provider)
  BY <1>1, <1>2, <1>3, ReadTyped, SettingsAssumption
<1>5. cfg \in [provider : Providers, key : Keys \cup {None}, url : Urls \cup {None}]
  BY <1>1, <1>2, <1>4
<1>6. cfg \in Config
  BY <1>5 DEF Config
<1>7. Complete(cfg)
  BY <1>6, ClientOfComplete
<1> QED
  BY <1>4, <1>5, <1>7 DEF ToSave, Own

LEMMA SavedKeeps ==
    ASSUME NEW cfg, ToSave(cfg), ServerTyped
    PROVE  Sealed(cfg) \in Row /\ Kept(Sealed(cfg)) /\ Sealed(cfg) # NoRow
<1>1. Sealed(cfg) \in Row
  BY DEF Sealed, Row, ToSave, ServerTyped
<1>2. Sealed(cfg) # NoRow
  BY SettingsAssumption DEF Sealed, NoRow, ToSave, Providers
<1>3. Complete(Sealed(cfg)) /\ Own(Sealed(cfg))
  BY DEF Sealed, ToSave, Complete, Own
<1> QED
  BY <1>1, <1>2, <1>3 DEF Kept
-----------------------------------------------------------------------------
(* Every step leaves a state in which everything on its way can be used.   *)

LEMMA IdleWorks == Idle \in [pc : {"idle", "save", "reload", "assign"}, cfg : Config] /\ Works(Idle)
BY NoConfigTyped DEF Idle, Works

(* A step that sends one thread elsewhere, and leaves the server as it is. *)
LEMMA ThreadsWork ==
    ASSUME TypeOK, \A t \in Threads : Works(thread[t]), NEW t \in Threads,
           NEW state \in [pc : {"idle", "save", "reload", "assign"}, cfg : Config],
           Works(state), Goto(t, state), UNCHANGED env
    PROVE  /\ thread' \in [Threads -> [pc : {"idle", "save", "reload", "assign"}, cfg : Config]]
           /\ \A u \in Threads : Works(thread'[u])
           /\ (\A u \in Threads : Works(thread[u]))'
<1>1. thread' \in [Threads -> [pc : {"idle", "save", "reload", "assign"}, cfg : Config]]
  BY DEF TypeOK, Goto
<1>2. \A u \in Threads : Works(thread'[u])
  BY DEF TypeOK, Goto
<1>3. ASSUME NEW u \in Threads
      PROVE  Works(thread[u])'
  <2>1. Works(thread'[u])
    BY <1>2
  <2> QED
    BY <2>1 DEF Works, Serves, ToSave, Own, Complete
<1> QED
  BY <1>1, <1>2, <1>3

(* A client enrichment has stays one it may have while the server runs.    *)
LEMMA ServesOn ==
    ASSUME NEW c, Serves(c), UNCHANGED env, client' = c
    PROVE  Serves(client)'
BY DEF Serves, Own

LEMMA SettledWrite ==
    ASSUME Settled, NEW t \in Threads, NEW r \in Row, Kept(r), row' = r, Wrote(r),
           Goto(t, [Idle EXCEPT !.pc = "reload"]), UNCHANGED <<secret, env, client, starts, failed>>,
           changes' \in Nat
    PROVE  Settled'
<1>1. ServerTyped
  BY DEF Settled, TypeOK, ServerTyped
<1>2. BuildClient(ConfigOf(r)) \in Config
  BY <1>1, SettingsServe DEF Serves
<1>3. inForce' \subseteq Config
  BY <1>2 DEF Wrote, Settled, TypeOK
<1>4. [Idle EXCEPT !.pc = "reload"] = [pc |-> "reload", cfg |-> NoConfig]
  BY DEF Idle
<1>5. /\ [pc |-> "reload", cfg |-> NoConfig]
           \in [pc : {"idle", "save", "reload", "assign"}, cfg : Config]
      /\ Works([pc |-> "reload", cfg |-> NoConfig])
  BY NoConfigTyped DEF Works
<1>6. Goto(t, [pc |-> "reload", cfg |-> NoConfig])
  BY <1>4
<1>7. /\ thread' \in [Threads -> [pc : {"idle", "save", "reload", "assign"}, cfg : Config]]
      /\ (\A u \in Threads : Works(thread[u]))'
  BY <1>5, <1>6, ThreadsWork DEF Settled
<1>8. Serves(client)'
  BY ServesOn DEF Settled
<1>9. Kept(row)'
  BY DEF Kept, Complete, Own
<1>10. TypeOK'
  BY <1>3, <1>7 DEF Settled, TypeOK
<1> QED
  BY <1>7, <1>8, <1>9, <1>10 DEF Settled

(* A step that leaves the row, the server and the history of it alone.     *)
LEMMA SettledGoto ==
    ASSUME Settled, NEW t \in Threads,
           NEW state \in [pc : {"idle", "save", "reload", "assign"}, cfg : Config],
           Works(state), Goto(t, state), UNCHANGED <<row, secret, env, starts, inForce>>,
           changes' \in Nat, failed' \in BOOLEAN, Serves(client')
    PROVE  Settled'
<1>1. /\ thread' \in [Threads -> [pc : {"idle", "save", "reload", "assign"}, cfg : Config]]
      /\ (\A u \in Threads : Works(thread[u]))'
  BY ThreadsWork DEF Settled
<1>2. Serves(client)'
  BY ServesOn
<1>3. Kept(row)'
  BY DEF Settled, Kept, Complete, Own
<1>4. client' \in Config
  BY DEF Serves
<1>5. TypeOK'
  BY <1>1, <1>4 DEF Settled, TypeOK
<1> QED
  BY <1>1, <1>2, <1>3, <1>5 DEF Settled

LEMMA RestartSettles ==
    ASSUME Settled, Restart
    PROVE  Settled'
<1>1. (row \in Row /\ Kept(row) /\ ServerTyped)'
  BY DEF Restart, Settled, TypeOK, Kept, Complete, Own, ServerTyped
<1>2. Serves(BuildClient(CurrentConfig))'
  BY <1>1, SettingsServeNext
<1>3. Serves(client)'
  BY <1>2 DEF Restart, Serves, Own
<1>4. client' \in Config
  BY <1>3 DEF Serves
<1>5. ASSUME NEW u \in Threads
      PROVE  thread'[u] = Idle
  BY DEF Restart
<1>6. thread' \in [Threads -> [pc : {"idle", "save", "reload", "assign"}, cfg : Config]]
  BY IdleWorks DEF Restart
<1>7. (\A u \in Threads : Works(thread[u]))'
  BY <1>5 DEF Works, Idle
<1>8. inForce' \subseteq Config /\ failed' \in BOOLEAN /\ starts' \in Nat /\ changes' \in Nat
  <2>1. inForce' = {client'} /\ failed' = FALSE
    BY DEF Restart
  <2>2. starts' \in Nat /\ changes' \in Nat
    BY DEF Restart, Settled, TypeOK
  <2> QED
    BY <1>4, <2>1, <2>2
<1>9. TypeOK'
  BY <1>1, <1>4, <1>6, <1>8 DEF TypeOK, ServerTyped
<1> QED
  BY <1>1, <1>3, <1>7, <1>9 DEF Settled

LEMMA InitSettled == Init => Settled
<1> SUFFICES ASSUME Init PROVE Settled
  OBVIOUS
<1>1. row \in Row /\ Kept(row) /\ ServerTyped
  BY DEF Init, Row, Kept, ServerTyped
<1>2. Serves(client)
  BY <1>1, SettingsServe DEF Init, CurrentConfig
<1>3. \A u \in Threads : thread[u] = Idle
  BY DEF Init
<1>4. thread \in [Threads -> [pc : {"idle", "save", "reload", "assign"}, cfg : Config]]
  BY IdleWorks DEF Init
<1>5. TypeOK
  BY <1>1, <1>2, <1>4 DEF Init, TypeOK, Serves, ServerTyped
<1> QED
  BY <1>1, <1>2, <1>3, <1>5, IdleWorks DEF Settled

LEMMA NextSettled ==
    ASSUME Settled, [Next]_vars
    PROVE  Settled'
<1>1. ASSUME NEW t \in Threads, NEW b \in Bodies, PutRead(t, b)
      PROVE  Settled'
  <2> DEFINE cfg == Candidate(b, Get(row))
  <2>1. ToSave(cfg)
    BY <1>1, CheckedCanBeSaved DEF PutRead, Settled, TypeOK
  <2>2. cfg \in Config
    BY <2>1 DEF ToSave, Config
  <2>3. /\ [pc |-> "save", cfg |-> cfg] \in [pc : {"idle", "save", "reload", "assign"}, cfg : Config]
        /\ Works([pc |-> "save", cfg |-> cfg])
    BY <2>1, <2>2 DEF Works
  <2>4. /\ Goto(t, [pc |-> "save", cfg |-> cfg])
        /\ UNCHANGED <<row, secret, env, client, starts, inForce, failed>>
    BY <1>1 DEF PutRead
  <2>5. changes' \in Nat /\ failed' \in BOOLEAN /\ Serves(client')
    BY <1>1, <2>4 DEF PutRead, Settled, TypeOK
  <2> HIDE DEF cfg
  <2> QED
    BY <2>3, <2>4, <2>5, SettledGoto
<1>2. ASSUME NEW t \in Threads, PutSave(t)
      PROVE  Settled'
  <2>1. ToSave(thread[t].cfg) /\ ServerTyped
    BY <1>2 DEF PutSave, Settled, Works, TypeOK, ServerTyped
  <2>2. Sealed(thread[t].cfg) \in Row /\ Kept(Sealed(thread[t].cfg))
    BY <2>1, SavedKeeps
  <2>3. changes' \in Nat
    BY <1>2 DEF PutSave, Settled, TypeOK
  <2> QED
    BY <1>2, <2>2, <2>3, SettledWrite DEF PutSave
<1>3. ASSUME NEW t \in Threads, Delete(t)
      PROVE  Settled'
  <2>1. NoRow \in Row /\ Kept(NoRow)
    BY DEF Row, Kept
  <2>2. changes' \in Nat
    BY <1>3 DEF Delete, Settled, TypeOK
  <2> QED
    BY <1>3, <2>1, <2>2, SettledWrite DEF Delete
<1>4. ASSUME NEW t \in Threads, Reload(t)
      PROVE  Settled'
  <2> DEFINE cfg == BuildClient(CurrentConfig)
  <2>1. Serves(cfg)
    BY SettingsServe DEF Settled, TypeOK, ServerTyped, CurrentConfig
  <2>2. Goto(t, [pc |-> "assign", cfg |-> cfg])
    BY <1>4 DEF Reload
  <2> HIDE DEF cfg
  <2>3. /\ [pc |-> "assign", cfg |-> cfg] \in [pc : {"idle", "save", "reload", "assign"}, cfg : Config]
        /\ Works([pc |-> "assign", cfg |-> cfg])
    BY <2>1 DEF Works, Serves
  <2>4. changes' \in Nat /\ failed' \in BOOLEAN /\ Serves(client')
    BY <1>4 DEF Reload, Settled, TypeOK
  <2>5. UNCHANGED <<row, secret, env, starts, inForce>>
    BY <1>4 DEF Reload
  <2> QED
    BY <2>2, <2>3, <2>4, <2>5, SettledGoto
<1>5. ASSUME NEW t \in Threads, Assign(t)
      PROVE  Settled'
  <2>1. Serves(client')
    BY <1>5 DEF Assign, Settled, Works
  <2>2. changes' \in Nat /\ failed' \in BOOLEAN
    BY <1>5 DEF Assign, Settled, TypeOK
  <2> QED
    BY <1>5, <2>1, <2>2, IdleWorks, SettledGoto DEF Assign
<1>6. ASSUME NEW t \in Threads, ReloadFails(t)
      PROVE  Settled'
  <2>1. changes' \in Nat /\ failed' \in BOOLEAN /\ Serves(client')
    BY <1>6 DEF ReloadFails, Settled, TypeOK
  <2> QED
    BY <1>6, <2>1, IdleWorks, SettledGoto DEF ReloadFails
<1>7. CASE UNCHANGED vars
  BY <1>7 DEF vars, Settled, TypeOK, Kept, Complete, Own, Serves, Works, ToSave
<1> QED
  BY <1>1, <1>2, <1>3, <1>4, <1>5, <1>6, <1>7, RestartSettles DEF Next
-----------------------------------------------------------------------------
(* What enrichment uses, when nothing is on its way, was in force.         *)

InForce ==
    /\ BuildClient(CurrentConfig) \in inForce
    /\ \A t \in Threads : thread[t].pc = "assign" => thread[t].cfg \in inForce
    /\ ~Unfinished /\ ~failed => client \in inForce

LEMMA WriteInForce ==
    ASSUME Settled, InForce, NEW t \in Threads, NEW r, row' = r, Wrote(r),
           Goto(t, [Idle EXCEPT !.pc = "reload"]), UNCHANGED <<secret, env, client, failed>>
    PROVE  InForce'
<1>1. thread' = [thread EXCEPT ![t] = [pc |-> "reload", cfg |-> NoConfig]]
  <2>1. [Idle EXCEPT !.pc = "reload"] = [pc |-> "reload", cfg |-> NoConfig]
    BY DEF Idle
  <2> QED
    BY <2>1 DEF Goto
<1>2. thread'[t].pc = "reload" /\ \A u \in Threads \ {t} : thread'[u] = thread[u]
  BY <1>1 DEF Settled, TypeOK
<1>3. BuildClient(CurrentConfig)' \in inForce'
  BY SameServer DEF Wrote
<1>4. ASSUME NEW u \in Threads, thread'[u].pc = "assign"
      PROVE  thread'[u].cfg \in inForce'
  <2>1. u # t /\ thread'[u] = thread[u]
    BY <1>2, <1>4
  <2>2. thread[u].cfg \in inForce /\ Unfinished
    BY <1>4, <2>1 DEF InForce, Unfinished
  <2> QED
    BY <2>1, <2>2 DEF Wrote
<1>5. Unfinished'
  BY <1>2 DEF Unfinished
<1> QED
  BY <1>3, <1>4, <1>5 DEF InForce

(* A step of a thread that writes nothing and leaves the client alone.     *)
LEMMA QuietInForce ==
    ASSUME Settled, InForce, NEW t \in Threads, NEW state, Goto(t, state),
           UNCHANGED <<row, secret, env, client, inForce>>,
           state.pc = "assign" => state.cfg \in inForce,
           failed' \/ (failed' = failed /\ (state.pc \in {"reload", "assign"}
                                         <=> thread[t].pc \in {"reload", "assign"}))
    PROVE  InForce'
<1>1. thread' = [thread EXCEPT ![t] = state]
  BY DEF Goto
<1>2. thread'[t] = state /\ \A u \in Threads \ {t} : thread'[u] = thread[u]
  BY <1>1 DEF Settled, TypeOK
<1>3. BuildClient(CurrentConfig)' \in inForce'
  BY SameServer DEF InForce, CurrentConfig
<1>4. \A u \in Threads : thread'[u].pc = "assign" => thread'[u].cfg \in inForce'
  BY <1>2 DEF InForce
<1>5. ~failed' => failed' = failed /\ (Unfinished' <=> Unfinished)
  BY <1>2 DEF Unfinished
<1> QED
  BY <1>3, <1>4, <1>5 DEF InForce

LEMMA NextInForce ==
    ASSUME Settled, InForce, [Next]_vars
    PROVE  InForce'
<1>1. ASSUME NEW t \in Threads, NEW b \in Bodies, PutRead(t, b)
      PROVE  InForce'
  <2>1. thread[t].pc = "idle"
    BY <1>1 DEF PutRead, Idle
  <2> QED
    BY <1>1, <2>1, QuietInForce DEF PutRead
<1>2. ASSUME NEW t \in Threads, PutSave(t)
      PROVE  InForce'
  BY <1>2, WriteInForce DEF PutSave
<1>3. ASSUME NEW t \in Threads, Delete(t)
      PROVE  InForce'
  BY <1>3, WriteInForce DEF Delete
<1>4. ASSUME NEW t \in Threads, Reload(t)
      PROVE  InForce'
  BY <1>4, QuietInForce DEF Reload, InForce
<1>5. ASSUME NEW t \in Threads, Assign(t)
      PROVE  InForce'
  <2>1. BuildClient(CurrentConfig)' \in inForce'
    BY <1>5, SameServer DEF Assign, InForce, CurrentConfig
  <2>2. client' \in inForce'
    BY <1>5 DEF Assign, InForce
  <2>3. thread'[t].pc = "idle" /\ \A u \in Threads \ {t} : thread'[u] = thread[u]
    BY <1>5 DEF Assign, Goto, Idle, Settled, TypeOK
  <2>4. \A u \in Threads : thread'[u].pc = "assign" => thread'[u].cfg \in inForce'
    BY <1>5, <2>3 DEF Assign, InForce
  <2> QED
    BY <2>1, <2>2, <2>4 DEF InForce
<1>6. ASSUME NEW t \in Threads, ReloadFails(t)
      PROVE  InForce'
  <2>1. Idle.pc = "idle"
    BY DEF Idle
  <2> QED
    BY <1>6, <2>1, QuietInForce DEF ReloadFails
<1>7. CASE Restart
  <2>1. client' = BuildClient(CurrentConfig)' /\ inForce' = {client'}
    BY <1>7 DEF Restart
  <2>2. \A u \in Threads : thread'[u].pc = "idle"
    BY <1>7 DEF Restart, Idle
  <2> QED
    BY <2>1, <2>2 DEF InForce
<1>8. CASE UNCHANGED vars
  BY <1>8, SameServer DEF vars, InForce, Unfinished, CurrentConfig
<1> QED
  BY <1>1, <1>2, <1>3, <1>4, <1>5, <1>6, <1>7, <1>8 DEF Next

LEMMA InitInForce == Init => InForce
BY DEF Init, InForce, Unfinished, Idle

LEMMA Always == Spec => [](Settled /\ InForce)
<1>1. Init => Settled /\ InForce
  BY InitSettled, InitInForce
<1>2. Settled /\ InForce /\ [Next]_vars => (Settled /\ InForce)'
  BY NextSettled, NextInForce
<1> QED
  BY <1>1, <1>2, PTL DEF Spec
-----------------------------------------------------------------------------
(* The types hold: above all, a thread only ever saves a configuration that*)
(* came from a request and a stored key, never the key of the environment. *)
THEOREM SettingsTyped == Spec => []TypeOK
<1>1. Settled /\ InForce => TypeOK
  BY DEF Settled
<1> QED
  BY <1>1, Always, PTL

(* routes/llm.py:143-173, llm_config.py:149-175: what was saved can be     *)
(* called for as long as its key can be read.                              *)
THEOREM SavedStaysUsable == Spec => []SavedIsUsable
<1>1. Settled /\ InForce => SavedIsUsable
  <2> SUFFICES ASSUME Settled, row # NoRow, row.under \in {None, secret}
               PROVE  BuildClient(Get(row)) # NoConfig
    BY DEF SavedIsUsable
  <2>1. row \in Row /\ Complete(row)
    BY DEF Settled, TypeOK, Kept
  <2>2. Complete(Get(row)) /\ Get(row) \in Config
    BY <2>1, ReadTyped DEF Complete
  <2> QED
    BY <2>2, ClientOfComplete
<1> QED
  BY <1>1, Always, PTL

(* routes/llm.py:121-135: no key reaches a provider it is not from.        *)
THEOREM KeysStayHome == Spec => []KeyStaysWithItsProvider
<1>1. Settled /\ InForce => KeyStaysWithItsProvider
  <2> SUFFICES ASSUME Settled PROVE KeyStaysWithItsProvider
    OBVIOUS
  <2>1. Own(client)
    BY DEF Settled, Serves
  <2>2. ASSUME NEW b \in Bodies
        PROVE  Own(Trial(b))
    <3> DEFINE now == CurrentConfig
               cfg == Candidate(b, now)
    <3>1. now.key \in Keys => KeyFor[now.key] = now.provider
      <4>1. row \in Row /\ Kept(row) /\ ServerTyped
        BY DEF Settled, TypeOK, ServerTyped
      <4>2. CASE now = EnvConfig
        BY <4>1, <4>2, EnvServes DEF Own
      <4>3. CASE now = Get(row) /\ row # NoRow
        BY <4>1, <4>3, ReadTyped, SettingsAssumption DEF Kept, Own
      <4> QED
        BY <4>2, <4>3 DEF CurrentConfig, ConfigOf
    <3>2. /\ b \in [provider : Providers, key : Keys \cup {None}, url : Urls \cup {None}]
          /\ b.key # None => KeyFor[b.key] = b.provider
      BY DEF Bodies
    <3> HIDE DEF now
    <3>3. /\ cfg.provider = b.provider
          /\ cfg.key = IF b.key = None /\ now.provider = b.provider THEN now.key ELSE b.key
      BY <3>2 DEF Candidate
    <3>4. Own(cfg)
      BY <3>1, <3>2, <3>3, SettingsAssumption DEF Own
    <3> QED
      BY <3>4 DEF Trial, now
  <2> QED
    BY <2>1, <2>2 DEF KeyStaysWithItsProvider, Own
<1> QED
  BY <1>1, Always, PTL

(* llm.py:333-355: a key in the environment keeps enrichment on, whatever  *)
(* is stored and however changes of it overlap.                            *)
THEOREM EnvKeyKeepsItOn == Spec => []NeverOffWithAnEnvKey
<1>1. Settled /\ InForce => NeverOffWithAnEnvKey
  BY DEF Settled, Serves, NeverOffWithAnEnvKey
<1> QED
  BY <1>1, Always, PTL

(* llm.py:417-425: enrichment ends up with settings that were in force.    *)
THEOREM InUseWasSaved == Spec => []InUseIsSaved
<1>1. Settled /\ InForce => InUseIsSaved
  BY DEF InForce, InUseIsSaved, AtRest, Unfinished
<1> QED
  BY <1>1, Always, PTL

(* routes/llm.py:68-101: without an overlap, what the page says is so.     *)
THEOREM PageIsTrue == Spec => []PageTellsTheTruth
<1>1. Settled /\ InForce => PageTellsTheTruth
  <2> SUFFICES ASSUME Settled, InForce, AtRest, ~failed, inForce = {BuildClient(CurrentConfig)}
               PROVE  /\ PublicShape.configured <=> client # NoConfig
                      /\ PublicShape.source = "settings" => client.provider = row.provider
                      /\ PublicShape.unreadable => client.key \in {None, EnvKey}
    BY DEF PageTellsTheTruth
  <2>1. client = BuildClient(CurrentConfig)
    BY DEF InForce, AtRest, Unfinished
  <2>2. row \in Row /\ Kept(row) /\ ServerTyped
    BY DEF Settled, TypeOK, ServerTyped
  <2>3. PublicShape.configured <=> client # NoConfig
    BY <2>1 DEF PublicShape
  <2>4. ASSUME PublicShape.source = "settings"
        PROVE  client.provider = row.provider
    <3>1. CurrentConfig # NoConfig /\ row # NoRow /\ CurrentConfig = Get(row)
      BY <2>4 DEF PublicShape
    <3>2. BuildClient(Get(row)) # NoConfig
      <4>1. CASE Unreadable(row)
        <5>1. CASE BuildClient(Get(row)) = NoConfig
          <6>1. CurrentConfig = EnvConfig
            BY <4>1, <5>1 DEF CurrentConfig, ConfigOf
          <6>2. EnvConfig.key = EnvKey
            BY <2>2, <3>1, <6>1, EnvServes DEF EnvConfig
          <6> QED
            BY <2>2, <3>1, <4>1, <6>1, <6>2, ReadTyped, SettingsAssumption
        <5> QED
          BY <5>1
      <4>2. CASE ~Unreadable(row)
        <5>1. Get(row).key = row.key
          BY <4>2 DEF Unreadable, Get, Decrypt
        <5>2. Complete(Get(row))
          BY <2>2, <3>1, <5>1, ReadTyped DEF Kept, Complete
        <5> QED
          BY <2>2, <5>2, ReadTyped, ClientOfComplete
      <4> QED
        BY <4>1, <4>2
    <3> QED
      BY <2>1, <2>2, <3>1, <3>2, ReadTyped, ClientOfComplete
  <2>5. ASSUME PublicShape.unreadable
        PROVE  client.key \in {None, EnvKey}
    <3>1. Unreadable(row)
      BY <2>5 DEF PublicShape
    <3>2. CurrentConfig \in Config /\ CurrentConfig.key \in {None, EnvKey}
      BY <2>2, <3>1, ReadTyped, EnvServes DEF CurrentConfig, ConfigOf
    <3>3. NoConfig.key = None
      BY DEF NoConfig
    <3> QED
      BY <2>1, <3>2, <3>3, ClientOfComplete
  <2> QED
    BY <2>3, <2>4, <2>5
<1> QED
  BY <1>1, Always, PTL
=============================================================================
