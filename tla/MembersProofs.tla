--------------------------- MODULE MembersProofs ----------------------------
(***************************************************************************)
(* Theorems about the roster (Members), for any sets of names, accounts,   *)
(* invites, challenges and threads and any number of the operator's        *)
(* commands.                                                               *)
(***************************************************************************)
EXTENDS MembersProps, TLAPS

(* What a request carries from one lock hold to the next, by what it is    *)
(* about to do.                                                            *)
Fit(r) ==
    /\ r.pc \in {"claiming", "verified", "claim", "registering", "redeem", "enrolled",
                 "signing", "signed"} => r.ch \in Challenges
    /\ r.pc \in {"claiming", "verified", "claim", "new", "remove"} => r.name \in Names
    /\ r.pc \in {"found", "invite", "registering", "redeem", "enrolled", "signing", "signed"}
          => r.uid \in Uids
    /\ r.pc \in {"registering", "redeem"} => r.invite \in Invites

Sound ==
    /\ TypeOK
    /\ \A c \in Challenges :
          challenges[c].purpose = "register" => challenges[c].invite \in Invites
    /\ \A t \in Threads : Fit(thread[t])

FitThreads == thread \in [Threads -> Request] /\ \A t \in Threads : Fit(thread[t])
SoundChallenges ==
    /\ challenges \in [Challenges -> Challenge]
    /\ \A c \in Challenges :
          challenges[c].purpose = "register" => challenges[c].invite \in Invites

LEMMA IdleIsFit == Idle \in Request /\ Fit(Idle)
BY DEF Idle, Request, Fit

LEMMA GotoKeepsFit ==
    ASSUME Sound, NEW t \in Threads, NEW r \in Request, Fit(r), Goto(t, r)
    PROVE  FitThreads'
BY DEF Sound, TypeOK, Goto, FitThreads

LEMMA DoneKeepsFit ==
    ASSUME Sound, NEW t \in Threads, Done(t)
    PROVE  FitThreads'
BY IdleIsFit, GotoKeepsFit DEF Done

LEMMA StepKeepsFit ==
    ASSUME Sound, NEW t \in Threads,
           NEW pc \in {"invite", "verified", "redeem", "enrolled", "signed"},
           Step(t, pc), Fit([thread[t] EXCEPT !.pc = pc])
    PROVE  FitThreads'
<1>1. [thread[t] EXCEPT !.pc = pc] \in Request
  BY DEF Sound, TypeOK, Request
<1> QED
  BY <1>1, GotoKeepsFit DEF Step

LEMMA Staled ==
    ASSUME NEW ch \in Challenge
    PROVE  /\ [ch EXCEPT !.fresh = FALSE] \in Challenge
           /\ [ch EXCEPT !.fresh = FALSE].purpose = ch.purpose
           /\ [ch EXCEPT !.fresh = FALSE].invite = ch.invite
BY DEF Challenge

LEMMA ConsumeKeepsSound ==
    ASSUME Sound, NEW t \in Threads, NEW purpose, NEW next \in {"verified", "redeem", "signed"},
           Consume(t, purpose, next), thread[t].ch \in Challenges,
           Fit([thread[t] EXCEPT !.pc = next])
    PROVE  Sound'
<1>1. FitThreads'
  BY DoneKeepsFit, StepKeepsFit DEF Consume
<1>2. SoundChallenges'
  <2>1. CASE challenges' = challenges
    BY <2>1 DEF Sound, SoundChallenges, TypeOK
  <2>2. CASE challenges' = [challenges EXCEPT ![thread[t].ch].fresh = FALSE]
    BY <2>2, Staled DEF Sound, SoundChallenges, TypeOK
  <2> QED
    BY <2>1, <2>2 DEF Consume
<1>3. UNCHANGED <<users, creds, sessions, invites, reopened, spent, minted, claims, enrolments>>
  BY DEF Consume, history
<1> QED
  BY <1>1, <1>2, <1>3 DEF Sound, TypeOK, FitThreads, SoundChallenges

LEMMA SessionKeepsSound ==
    ASSUME Sound, NEW t \in Threads, NEW uid \in Uids, thread[t].ch \in Challenges,
           StartSession(t, uid)
    PROVE  Sound'
<1> DEFINE s == [ch |-> thread[t].ch, uid |-> uid, good |-> TRUE]
<1>1. FitThreads'
  BY DoneKeepsFit DEF StartSession
<1>2. s \in Session
  BY DEF Session
<1>3. sessions' = sessions \cup {s}
  BY DEF StartSession
<1>4. sessions' \subseteq Session
  <2> HIDE DEF s
  <2> QED
    BY <1>2, <1>3 DEF Sound, TypeOK
<1>5. UNCHANGED <<users, creds, invites, challenges, reopened, spent, minted, claims, enrolments>>
  BY DEF StartSession, history
<1> QED
  BY <1>1, <1>4, <1>5 DEF Sound, TypeOK, FitThreads

LEMMA OperatorCounts ==
    ASSUME Sound, Operator
    PROVE  spent' \in Nat
<1>1. spent \in Nat /\ spent' = spent + 1
  BY DEF Operator, Sound, TypeOK
<1> QED
  BY <1>1

(* A step that only moves a request on.                                    *)
LEMMA OnlyThreadKeepsSound ==
    ASSUME Sound, FitThreads', UNCHANGED <<tables, history>>, spent' \in Nat
    PROVE  Sound'
BY DEF Sound, TypeOK, FitThreads, tables, history

LEMMA EntryKeepsSound ==
    ASSUME Sound, NEW t \in Threads,
           \/ ReadReopen(t) \/ SeePasskeys(t) \/ Abandon(t)
           \/ \E n \in Names : LookUp(t, n) \/ RemoveMember(t, n) \/ RecoverInvite(t, n)
           \/ \E c \in Challenges :
                 \/ \E n \in Names : BootstrapVerify(t, c, n)
                 \/ RegisterVerify(t, c) \/ LoginVerify(t, c)
    PROVE  Sound'
<1>1. ASSUME NEW c \in Challenges, NEW n \in Names, BootstrapVerify(t, c, n)
      PROVE  Sound'
  <2> DEFINE r == [Idle EXCEPT !.pc = "claiming", !.ch = c, !.name = n]
  <2>1. r \in Request /\ Fit(r)
    BY DEF Idle, Request, Fit
  <2> QED
    BY <1>1, <2>1, GotoKeepsFit, OnlyThreadKeepsSound DEF BootstrapVerify, Sound, TypeOK
<1>2. ASSUME NEW c \in Challenges, RegisterVerify(t, c)
      PROVE  Sound'
  <2> DEFINE v == challenges[c].invite
             r == [Idle EXCEPT !.pc = "registering", !.ch = c, !.invite = v, !.uid = invites[v].uid]
  <2>1. v \in Invites /\ invites[v].uid \in Uids
    BY <1>2 DEF RegisterVerify, Valid, Row, Sound, TypeOK, Invite
  <2>2. r \in Request /\ Fit(r)
    BY <2>1 DEF Idle, Request, Fit
  <2> QED
    BY <1>2, <2>2, GotoKeepsFit, OnlyThreadKeepsSound DEF RegisterVerify, Sound, TypeOK
<1>3. ASSUME NEW c \in Challenges, LoginVerify(t, c)
      PROVE  Sound'
  <2>1. PICK k \in creds : Goto(t, [Idle EXCEPT !.pc = "signing", !.ch = c, !.uid = k.uid])
    BY <1>3 DEF LoginVerify
  <2> DEFINE r == [Idle EXCEPT !.pc = "signing", !.ch = c, !.uid = k.uid]
  <2>2. r \in Request /\ Fit(r)
    BY DEF Idle, Request, Fit, Sound, TypeOK, Passkey
  <2> QED
    BY <1>3, <2>1, <2>2, GotoKeepsFit, OnlyThreadKeepsSound DEF LoginVerify, Sound, TypeOK
<1>4. ASSUME NEW n \in Names, LookUp(t, n) \/ RecoverInvite(t, n)
      PROVE  Sound'
  <2>1. /\ [Idle EXCEPT !.pc = "new", !.name = n] \in Request
        /\ Fit([Idle EXCEPT !.pc = "new", !.name = n])
    BY DEF Idle, Request, Fit
  <2>2. ASSUME NEW u \in Uids, NEW pc \in {"found", "invite"}
        PROVE  /\ [Idle EXCEPT !.pc = pc, !.uid = u] \in Request
               /\ Fit([Idle EXCEPT !.pc = pc, !.uid = u])
    BY DEF Idle, Request, Fit
  <2>3. \/ Goto(t, [Idle EXCEPT !.pc = "new", !.name = n])
        \/ \E u \in Uids, pc \in {"found", "invite"} : Goto(t, [Idle EXCEPT !.pc = pc, !.uid = u])
    BY <1>4 DEF LookUp, RecoverInvite, AccountOf, Accounts
  <2>4. FitThreads'
    BY <2>1, <2>2, <2>3, GotoKeepsFit
  <2>5. UNCHANGED <<tables, history>> /\ spent' \in Nat
    <3>1. CASE LookUp(t, n)
      BY <3>1 DEF LookUp, Sound, TypeOK, tables, history
    <3>2. CASE RecoverInvite(t, n)
      <4>1. spent' \in Nat
        BY <3>2, OperatorCounts DEF RecoverInvite
      <4>2. UNCHANGED <<tables, history>>
        BY <3>2 DEF RecoverInvite
      <4> QED
        BY <4>1, <4>2
    <3> QED
      BY <1>4, <3>1, <3>2
  <2> QED
    BY <2>4, <2>5, OnlyThreadKeepsSound
<1>5. ASSUME NEW n \in Names, RemoveMember(t, n)
      PROVE  Sound'
  <2>1. /\ [Idle EXCEPT !.pc = "remove", !.name = n] \in Request
        /\ Fit([Idle EXCEPT !.pc = "remove", !.name = n])
    BY DEF Idle, Request, Fit
  <2> QED
    BY <1>5, <2>1, GotoKeepsFit, OnlyThreadKeepsSound DEF RemoveMember, Sound, TypeOK
<1>6. CASE ReadReopen(t)
  <2> DEFINE r == [thread[t] EXCEPT !.pc = "claim", !.reopen = reopened]
  <2>1. r \in Request /\ Fit(r)
    BY <1>6 DEF ReadReopen, At, Sound, TypeOK, Request, Fit
  <2> QED
    BY <1>6, <2>1, GotoKeepsFit, OnlyThreadKeepsSound DEF ReadReopen, Sound, TypeOK
<1>7. CASE Abandon(t)
  BY <1>7, DoneKeepsFit, OnlyThreadKeepsSound DEF Abandon, Sound, TypeOK
<1>8. CASE SeePasskeys(t)
  <2>1. Fit([thread[t] EXCEPT !.pc = "invite"])
    BY <1>8 DEF SeePasskeys, At, Sound, TypeOK, Request, Fit
  <2>2. FitThreads'
    BY <1>8, <2>1, DoneKeepsFit, StepKeepsFit DEF SeePasskeys
  <2> QED
    BY <1>8, <2>2, OnlyThreadKeepsSound DEF SeePasskeys, Sound, TypeOK
<1> QED
  BY <1>1, <1>2, <1>3, <1>4, <1>5, <1>6, <1>7, <1>8
-----------------------------------------------------------------------------
LEMMA ClaimKeepsSound ==
    ASSUME Sound, NEW t \in Threads, Claim(t)
    PROVE  Sound'
<1>1. FitThreads'
  BY DoneKeepsFit DEF Claim
<1>2. UNCHANGED <<invites, challenges, spent, enrolments>>
  BY DEF Claim
<1>3. CASE UNCHANGED <<users, minted, creds, sessions, reopened, claims>>
  BY <1>1, <1>2, <1>3 DEF Sound, TypeOK, FitThreads
<1>4. CASE ~UNCHANGED <<users, minted, creds, sessions, reopened, claims>>
  <2> DEFINE th == thread[t]
  <2>1. th.ch \in Challenges /\ th.name \in Names
    BY DEF Claim, At, Sound, Fit
  <2>2. PICK u \in Uids :
          /\ users' = [users EXCEPT ![u] = th.name]
          /\ minted' = minted \cup {u}
          /\ creds' = creds \cup {[ch |-> th.ch, uid |-> u]}
          /\ sessions' = sessions \cup {[ch |-> th.ch, uid |-> u, good |-> TRUE]}
          /\ reopened' = (reopened /\ ~th.reopen)
          /\ claims' = [claims EXCEPT !.taken = @ + 1]
    BY <1>4 DEF Claim, AccountOf, Accounts
  <2>3. [ch |-> th.ch, uid |-> u] \in Passkey
    BY <2>1 DEF Passkey
  <2>4. [ch |-> th.ch, uid |-> u, good |-> TRUE] \in Session
    BY <2>1 DEF Session
  <2>5. creds' \subseteq Passkey /\ sessions' \subseteq Session
    BY <2>2, <2>3, <2>4 DEF Sound, TypeOK
  <2>6. users' \in [Uids -> Names \cup {Nobody}] /\ minted' \subseteq Uids
    BY <2>1, <2>2 DEF Sound, TypeOK
  <2>7. reopened' \in BOOLEAN /\ claims' \in [granted : Nat, taken : Nat]
    BY <2>2 DEF Sound, TypeOK
  <2> QED
    BY <1>1, <1>2, <2>5, <2>6, <2>7 DEF Sound, TypeOK, FitThreads
<1> QED
  BY <1>3, <1>4

LEMMA AddAccountKeepsSound ==
    ASSUME Sound, NEW t \in Threads, AddAccount(t)
    PROVE  Sound'
<1>1. UNCHANGED <<creds, sessions, invites, challenges, reopened, spent, claims, enrolments>>
  BY DEF AddAccount
<1>2. CASE Done(t) /\ UNCHANGED <<users, minted>>
  BY <1>1, <1>2, DoneKeepsFit DEF Sound, TypeOK, FitThreads
<1>3. CASE ~(Done(t) /\ UNCHANGED <<users, minted>>)
  <2>1. PICK u \in Uids :
          /\ users' = [users EXCEPT ![u] = thread[t].name]
          /\ minted' = minted \cup {u}
          /\ Goto(t, [thread[t] EXCEPT !.pc = "invite", !.uid = u])
    BY <1>3 DEF AddAccount
  <2> DEFINE r == [thread[t] EXCEPT !.pc = "invite", !.uid = u]
  <2>2. r \in Request /\ Fit(r)
    BY DEF Sound, TypeOK, Request, Fit
  <2>3. FitThreads'
    BY <2>1, <2>2, GotoKeepsFit
  <2>4. thread[t].name \in Names
    BY DEF AddAccount, At, Sound, Fit
  <2>5. users' \in [Uids -> Names \cup {Nobody}] /\ minted' \subseteq Uids
    BY <2>1, <2>4 DEF Sound, TypeOK
  <2> QED
    BY <1>1, <2>3, <2>5 DEF Sound, TypeOK, FitThreads
<1> QED
  BY <1>2, <1>3

LEMMA CreateInviteKeepsSound ==
    ASSUME Sound, NEW t \in Threads, CreateInvite(t)
    PROVE  Sound'
<1>1. FitThreads'
  BY DoneKeepsFit DEF CreateInvite
<1>2. thread[t].uid \in Uids
  BY DEF CreateInvite, At, Sound, Fit
<1>3. invites' \in [Invites -> Invite]
  BY <1>2 DEF CreateInvite, Sound, TypeOK, Invite
<1>4. UNCHANGED <<users, creds, sessions, challenges, reopened, spent, minted, claims, enrolments>>
  BY DEF CreateInvite, history
<1> QED
  BY <1>1, <1>3, <1>4 DEF Sound, TypeOK, FitThreads

LEMMA RedeemKeepsSound ==
    ASSUME Sound, NEW t \in Threads, Redeem(t)
    PROVE  Sound'
<1> DEFINE v == thread[t].invite
<1>1. v \in Invites /\ thread[t].ch \in Challenges /\ thread[t].uid \in Uids
  BY DEF Redeem, At, Sound, Fit
<1>2. UNCHANGED <<users, sessions, reopened, spent, minted, claims>>
  BY DEF Redeem
<1>3. CASE Done(t) /\ UNCHANGED <<invites, challenges, creds, enrolments>>
  BY <1>2, <1>3, DoneKeepsFit DEF Sound, TypeOK, FitThreads
<1>4. CASE ~(Done(t) /\ UNCHANGED <<invites, challenges, creds, enrolments>>)
  <2>1. /\ Row(v)
        /\ invites' = [invites EXCEPT ![v].used = TRUE]
        /\ challenges' = [c \in Challenges |-> IF challenges[c].invite = v
                            THEN [challenges[c] EXCEPT !.fresh = FALSE] ELSE challenges[c]]
        /\ creds' = creds \cup {[ch |-> thread[t].ch, uid |-> invites[v].uid]}
        /\ enrolments' = [enrolments EXCEPT ![v] = @ + 1]
        /\ Step(t, "enrolled")
    BY <1>4 DEF Redeem
  <2>2. Fit([thread[t] EXCEPT !.pc = "enrolled"])
    BY <1>1 DEF Sound, TypeOK, Request, Fit
  <2>3. FitThreads'
    BY <2>1, <2>2, StepKeepsFit
  <2>4. [ch |-> thread[t].ch, uid |-> invites[v].uid] \in Passkey
    BY <1>1, <2>1 DEF Row, Sound, TypeOK, Invite, Passkey
  <2>5. creds' \subseteq Passkey
    BY <2>1, <2>4 DEF Sound, TypeOK
  <2>6. SoundChallenges'
    BY <2>1, Staled DEF Sound, TypeOK, SoundChallenges
  <2>7. invites' \in [Invites -> Invite]
    BY <1>1, <2>1 DEF Sound, TypeOK, Invite
  <2>8. enrolments' \in [Invites -> Nat]
    BY <1>1, <2>1 DEF Sound, TypeOK
  <2> QED
    BY <1>2, <2>3, <2>5, <2>6, <2>7, <2>8 DEF Sound, TypeOK, FitThreads, SoundChallenges
<1> QED
  BY <1>3, <1>4

LEMMA DeleteKeepsSound ==
    ASSUME Sound, NEW t \in Threads, Delete(t)
    PROVE  Sound'
<1>1. FitThreads'
  BY DoneKeepsFit DEF Delete
<1>2. PICK gone :
        /\ users' = [u \in Uids |-> IF u \in gone THEN Nobody ELSE users[u]]
        /\ creds' = {c \in creds : c.uid \notin gone}
        /\ sessions' = {s \in sessions : s.uid \notin gone}
        /\ invites' = [v \in Invites |-> IF invites[v].uid \in gone THEN DeletedInvite ELSE invites[v]]
  BY DEF Delete
<1>3. DeletedInvite \in Invite
  BY DEF DeletedInvite, NoInvite, Invite
<1>4. users' \in [Uids -> Names \cup {Nobody}] /\ creds' \subseteq Passkey /\ sessions' \subseteq Session
  BY <1>2 DEF Sound, TypeOK
<1>5. invites' \in [Invites -> Invite]
  BY <1>2, <1>3 DEF Sound, TypeOK
<1>6. UNCHANGED <<challenges, reopened, spent, minted, claims, enrolments>>
  BY DEF Delete, history
<1> QED
  BY <1>1, <1>4, <1>5, <1>6 DEF Sound, TypeOK, FitThreads
-----------------------------------------------------------------------------
LEMMA ServeKeepsSound ==
    ASSUME Sound, NEW t \in Threads, Serve(t)
    PROVE  Sound'
<1>1. CASE BootstrapConsume(t) \/ RegisterConsume(t) \/ LoginConsume(t)
  <2>1. thread[t].ch \in Challenges
    BY <1>1 DEF BootstrapConsume, RegisterConsume, LoginConsume, At, Sound, Fit
  <2>2. CASE BootstrapConsume(t)
    <3>1. Fit([thread[t] EXCEPT !.pc = "verified"])
      BY <2>2 DEF BootstrapConsume, At, Sound, TypeOK, Request, Fit
    <3> QED
      BY <2>1, <2>2, <3>1, ConsumeKeepsSound DEF BootstrapConsume
  <2>3. CASE RegisterConsume(t)
    <3>1. Fit([thread[t] EXCEPT !.pc = "redeem"])
      BY <2>3 DEF RegisterConsume, At, Sound, TypeOK, Request, Fit
    <3> QED
      BY <2>1, <2>3, <3>1, ConsumeKeepsSound DEF RegisterConsume
  <2>4. CASE LoginConsume(t)
    <3>1. Fit([thread[t] EXCEPT !.pc = "signed"])
      BY <2>4 DEF LoginConsume, At, Sound, TypeOK, Request, Fit
    <3> QED
      BY <2>1, <2>4, <3>1, ConsumeKeepsSound DEF LoginConsume
  <2> QED
    BY <1>1, <2>2, <2>3, <2>4
<1>2. CASE RegisterSession(t) \/ LoginSession(t)
  BY <1>2, SessionKeepsSound DEF RegisterSession, LoginSession, At, Sound, Fit
<1>3. CASE \/ ReadReopen(t) \/ SeePasskeys(t) \/ Abandon(t)
           \/ \E n \in Names : LookUp(t, n) \/ RemoveMember(t, n) \/ RecoverInvite(t, n)
           \/ \E c \in Challenges : \/ \E n \in Names : BootstrapVerify(t, c, n)
                                    \/ RegisterVerify(t, c) \/ LoginVerify(t, c)
  BY <1>3, EntryKeepsSound
<1> QED
  BY <1>1, <1>2, <1>3, ClaimKeepsSound, AddAccountKeepsSound, CreateInviteKeepsSound,
     RedeemKeepsSound, DeleteKeepsSound DEF Serve

LEMMA IssueKeepsSound ==
    ASSUME Sound, NEW c \in Challenges, NEW purpose \in {"bootstrap", "register", "auth"},
           NEW invite \in Invites \cup {Nobody}, purpose = "register" => invite \in Invites,
           Issue(c, purpose, invite)
    PROVE  Sound'
<1>1. [purpose |-> purpose, invite |-> invite, fresh |-> TRUE] \in Challenge
  BY DEF Challenge
<1>2. SoundChallenges'
  BY <1>1 DEF Issue, Sound, TypeOK, SoundChallenges
<1>3. UNCHANGED <<users, creds, sessions, invites, reopened, thread, spent, minted, claims, enrolments>>
  BY DEF Issue, history
<1> QED
  BY <1>2, <1>3 DEF Sound, TypeOK, SoundChallenges

LEMMA SignedOutTyped ==
    ASSUME Sound, NEW gone, sessions' = SignedOut(gone)
    PROVE  sessions' \subseteq Session
<1>1. \A s \in Session : [s EXCEPT !.good = FALSE] \in Session
  BY DEF Session
<1> QED
  BY <1>1 DEF SignedOut, Sound, TypeOK

LEMMA RestKeepsSound ==
    ASSUME Sound,
           \/ \E c \in Challenges : Browse(c) \/ ExpireChallenge(c)
           \/ \E s \in sessions : EndSession(s)
           \/ \E v \in Invites : ExpireInvite(v)
           \/ Reopen \/ CancelReset \/ RevokeAll
           \/ UNCHANGED vars
    PROVE  Sound'
<1>1. ASSUME NEW c \in Challenges, Browse(c)
      PROVE  Sound'
  BY <1>1, IssueKeepsSound DEF Browse, BootstrapOptions, LoginOptions, RegisterOptions
<1>2. ASSUME NEW c \in Challenges, ExpireChallenge(c)
      PROVE  Sound'
  <2>1. SoundChallenges'
    BY <1>2, Staled DEF ExpireChallenge, Sound, TypeOK, SoundChallenges
  <2>2. UNCHANGED <<users, creds, sessions, invites, reopened, thread, spent, minted, claims, enrolments>>
    BY <1>2 DEF ExpireChallenge, history
  <2> QED
    BY <2>1, <2>2 DEF Sound, TypeOK, SoundChallenges
<1>3. CASE (\E s \in sessions : EndSession(s)) \/ RevokeAll
  <2>1. sessions' \subseteq Session
    BY <1>3, SignedOutTyped DEF EndSession, RevokeAll
  <2>2. UNCHANGED <<users, creds, invites, challenges, reopened, thread, minted, claims, enrolments>>
    BY <1>3 DEF EndSession, RevokeAll, history
  <2>3. spent' \in Nat
    <3>1. CASE UNCHANGED spent
      BY <3>1 DEF Sound, TypeOK
    <3>2. CASE Operator
      BY <3>2, OperatorCounts
    <3> QED
      BY <1>3, <3>1, <3>2 DEF EndSession, RevokeAll
  <2> QED
    BY <2>1, <2>2, <2>3 DEF Sound, TypeOK
<1>4. ASSUME NEW v \in Invites, ExpireInvite(v)
      PROVE  Sound'
  <2>1. invites' \in [Invites -> Invite]
    BY <1>4 DEF ExpireInvite, Sound, TypeOK, Invite
  <2>2. UNCHANGED <<users, creds, sessions, challenges, reopened, thread, spent, minted, claims, enrolments>>
    BY <1>4 DEF ExpireInvite, history
  <2> QED
    BY <2>1, <2>2 DEF Sound, TypeOK
<1>5. CASE Reopen \/ CancelReset
  <2>1. spent' \in Nat
    BY <1>5, OperatorCounts DEF Reopen, CancelReset
  <2>3. reopened' \in BOOLEAN
    BY <1>5 DEF Reopen, CancelReset
  <2>4. claims' \in [granted : Nat, taken : Nat]
    <3>1. claims' = claims \/ claims' = [claims EXCEPT !.granted = @ + 1]
      BY <1>5 DEF Reopen, CancelReset, history
    <3> QED
      BY <3>1 DEF Sound, TypeOK
  <2>2. UNCHANGED <<users, creds, sessions, invites, challenges, thread, minted, enrolments>>
    BY <1>5 DEF Reopen, CancelReset, history
  <2> QED
    BY <2>1, <2>2, <2>3, <2>4 DEF Sound, TypeOK
<1>6. CASE UNCHANGED vars
  BY <1>6 DEF vars, tables, history, Sound, TypeOK
<1> QED
  BY <1>1, <1>2, <1>3, <1>4, <1>5, <1>6

LEMMA SoundInit == Init => Sound
<1>1. NoInvite \in Invite /\ NoChallenge \in Challenge /\ NoChallenge.purpose # "register"
  BY DEF NoInvite, Invite, NoChallenge, Challenge
<1> SUFFICES ASSUME Init
             PROVE  Sound
  OBVIOUS
<1>2. /\ users \in [Uids -> Names \cup {Nobody}]
      /\ creds \subseteq Passkey /\ sessions \subseteq Session
      /\ enrolments \in [Invites -> Nat]
  BY DEF Init
<1>3. reopened \in BOOLEAN /\ spent \in Nat /\ minted \subseteq Uids
  BY DEF Init
<1>4. claims \in [granted : Nat, taken : Nat]
  BY DEF Init
<1>5. /\ invites \in [Invites -> Invite]
      /\ SoundChallenges
      /\ FitThreads
  BY <1>1, IdleIsFit DEF Init, SoundChallenges, FitThreads
<1> QED
  BY <1>2, <1>3, <1>4, <1>5 DEF Sound, TypeOK, SoundChallenges, FitThreads

LEMMA SoundStep == Sound /\ [Next]_vars => Sound'
BY ServeKeepsSound, RestKeepsSound DEF Next

LEMMA SoundAlways == Spec => []Sound
BY SoundInit, SoundStep, PTL DEF Spec

(***************************************************************************)
(* Every table and every request in progress holds values of its type, for *)
(* any household and any number of requests at once (auth_repo.py 20-77,   *)
(* routes/authn.py 270-570).                                               *)
(***************************************************************************)
THEOREM RosterTyped == Spec => []TypeOK
<1>1. Sound => TypeOK
  BY DEF Sound
<1> QED
  BY <1>1, SoundAlways, PTL
-----------------------------------------------------------------------------
(* What changes the accounts, and nothing else does.                       *)

LEMMA UsersWriters ==
    ASSUME [Next]_vars
    PROVE  \/ UNCHANGED <<users, minted>>
           \/ \E t \in Threads : Claim(t) \/ AddAccount(t) \/ Delete(t)
<1>1. ASSUME NEW t \in Threads, Serve(t)
      PROVE  \/ UNCHANGED <<users, minted>>
             \/ Claim(t) \/ AddAccount(t) \/ Delete(t)
  BY <1>1 DEF Serve, BootstrapVerify, RegisterVerify, LoginVerify, BootstrapConsume, ReadReopen,
      LookUp, SeePasskeys, RemoveMember, CreateInvite, RegisterConsume, Redeem, RegisterSession,
      LoginConsume, LoginSession, RecoverInvite, Abandon, Consume, StartSession, tables, history
<1>2. ASSUME NEW c \in Challenges, Browse(c) \/ ExpireChallenge(c)
      PROVE  UNCHANGED <<users, minted>>
  BY <1>2 DEF Browse, BootstrapOptions, LoginOptions, RegisterOptions, Issue, ExpireChallenge,
      tables, history
<1>3. ASSUME \/ \E s \in sessions : EndSession(s)
             \/ \E v \in Invites : ExpireInvite(v)
             \/ Reopen \/ CancelReset \/ RevokeAll
             \/ UNCHANGED vars
      PROVE  UNCHANGED <<users, minted>>
  BY <1>3 DEF EndSession, ExpireInvite, Reopen, CancelReset, RevokeAll, vars, tables, history
<1> QED
  BY <1>1, <1>2, <1>3 DEF Next

LEMMA NamesStep == Sound /\ OneAccountPerName /\ [Next]_vars => OneAccountPerName'
<1> SUFFICES ASSUME Sound, OneAccountPerName, [Next]_vars
             PROVE  OneAccountPerName'
  OBVIOUS
<1>1. CASE UNCHANGED users
  BY <1>1 DEF OneAccountPerName, Accounts
<1>2. ASSUME NEW t \in Threads, Claim(t)
      PROVE  OneAccountPerName'
  <2>1. CASE users' = users
    BY <2>1 DEF OneAccountPerName, Accounts
  <2>2. ASSUME NEW u \in Uids, users' = [users EXCEPT ![u] = thread[t].name],
               AccountOf(thread[t].name) \subseteq {u} \/ Accounts = {}
        PROVE  OneAccountPerName'
    BY <2>2 DEF OneAccountPerName, Accounts, AccountOf, Sound, TypeOK
  <2>3. ASSUME ~UNCHANGED users
        PROVE  \E u \in Uids : /\ users' = [users EXCEPT ![u] = thread[t].name]
                               /\ AccountOf(thread[t].name) \subseteq {u} \/ Accounts = {}
    <3>1. MayClaim(thread[t].reopen)
      BY <1>2, <2>3 DEF Claim
    <3>2. CASE thread[t].reopen
      BY <1>2, <3>1, <3>2 DEF Claim, MayClaim, AccountOf, OneAccountPerName, Accounts
    <3>3. CASE ~thread[t].reopen
      BY <1>2, <3>1, <3>3 DEF Claim, MayClaim
    <3> QED
      BY <3>2, <3>3
  <2> QED
    BY <2>1, <2>2, <2>3
<1>3. ASSUME NEW t \in Threads, AddAccount(t)
      PROVE  OneAccountPerName'
  BY <1>3 DEF AddAccount, OneAccountPerName, Accounts, AccountOf, Sound, TypeOK
<1>4. ASSUME NEW t \in Threads, Delete(t)
      PROVE  OneAccountPerName'
  BY <1>4 DEF Delete, OneAccountPerName, Accounts, Sound, TypeOK
<1> QED
  BY <1>1, <1>2, <1>3, <1>4, UsersWriters

(***************************************************************************)
(* No two accounts share a name: the claim and the invitation look the     *)
(* name up again in the hold that inserts (auth_repo.py 329-360).          *)
(***************************************************************************)
THEOREM NamesAreUnique == Spec => []OneAccountPerName
<1>1. Init => OneAccountPerName
  BY DEF Init, OneAccountPerName, Accounts
<1> QED
  BY <1>1, NamesStep, SoundAlways, PTL DEF Spec
-----------------------------------------------------------------------------
(* Invites: one passkey each.                                              *)

LEMMA InviteWriters ==
    ASSUME [Next]_vars
    PROVE  \/ UNCHANGED <<invites, enrolments>>
           \/ \E t \in Threads : CreateInvite(t) \/ Redeem(t) \/ Delete(t)
           \/ \E v \in Invites : ExpireInvite(v)
<1>1. ASSUME NEW t \in Threads, Serve(t)
      PROVE  \/ UNCHANGED <<invites, enrolments>>
             \/ CreateInvite(t) \/ Redeem(t) \/ Delete(t)
  BY <1>1 DEF Serve, BootstrapVerify, RegisterVerify, LoginVerify, BootstrapConsume, ReadReopen,
      Claim, LookUp, SeePasskeys, RemoveMember, AddAccount, RegisterConsume, RegisterSession,
      LoginConsume, LoginSession, RecoverInvite, Abandon, Consume, StartSession, tables, history
<1>2. ASSUME NEW c \in Challenges, Browse(c) \/ ExpireChallenge(c)
      PROVE  UNCHANGED <<invites, enrolments>>
  BY <1>2 DEF Browse, BootstrapOptions, LoginOptions, RegisterOptions, Issue, ExpireChallenge,
      tables, history
<1>3. ASSUME \/ \E s \in sessions : EndSession(s)
             \/ Reopen \/ CancelReset \/ RevokeAll
             \/ UNCHANGED vars
      PROVE  UNCHANGED <<invites, enrolments>>
  BY <1>3 DEF EndSession, Reopen, CancelReset, RevokeAll, vars, tables, history
<1> QED
  BY <1>1, <1>2, <1>3 DEF Next

(* SpentMeansEnrolled says nothing of a token before it is drawn; the      *)
(* invariant must, or the row that draws it could start with a passkey.    *)
Ledger ==
    \A v \in Invites :
        Row(v) \/ invites[v] = NoInvite => enrolments[v] = IF invites[v].used THEN 1 ELSE 0

LEMMA LedgerStep == Sound /\ Ledger /\ [Next]_vars => Ledger'
<1> SUFFICES ASSUME Sound, Ledger, [Next]_vars
             PROVE  Ledger'
  OBVIOUS
<1>1. CASE UNCHANGED <<invites, enrolments>>
  BY <1>1 DEF Ledger, Row
<1>2. ASSUME NEW t \in Threads, CreateInvite(t)
      PROVE  Ledger'
  BY <1>2 DEF CreateInvite, Ledger, Row, NoInvite, Sound, TypeOK, Invite, history
<1>3. ASSUME NEW t \in Threads, Redeem(t)
      PROVE  Ledger'
  <2> DEFINE v == thread[t].invite
  <2>1. v \in Invites
    BY <1>3 DEF Redeem, At, Sound, Fit
  <2>2. CASE UNCHANGED <<invites, enrolments>>
    BY <2>2 DEF Ledger, Row
  <2>3. CASE /\ Row(v) /\ ~invites[v].used
             /\ invites' = [invites EXCEPT ![v].used = TRUE]
             /\ enrolments' = [enrolments EXCEPT ![v] = @ + 1]
    <3>1. invites'[v].used /\ enrolments'[v] = 1
      BY <2>1, <2>3 DEF Ledger, Sound, TypeOK, Invite
    <3>2. invites'[v] # NoInvite
      BY <3>1 DEF NoInvite
    <3>3. \A w \in Invites \ {v} : invites'[w] = invites[w] /\ enrolments'[w] = enrolments[w]
      BY <2>3 DEF Sound, TypeOK
    <3> QED
      BY <3>1, <3>3 DEF Ledger, Row
  <2> QED
    BY <1>3, <2>2, <2>3 DEF Redeem
<1>4. ASSUME NEW t \in Threads, Delete(t)
      PROVE  Ledger'
  <2>1. PICK gone : invites' = [v \in Invites |-> IF invites[v].uid \in gone THEN DeletedInvite
                                                  ELSE invites[v]]
    BY <1>4 DEF Delete
  <2>2. enrolments' = enrolments
    BY <1>4 DEF Delete, history
  <2>3. DeletedInvite # NoInvite /\ DeletedInvite.uid = Nobody
    BY DEF DeletedInvite, NoInvite
  <2> QED
    BY <2>1, <2>2, <2>3 DEF Ledger, Row
<1>5. ASSUME NEW v \in Invites, ExpireInvite(v)
      PROVE  Ledger'
  BY <1>5 DEF ExpireInvite, Ledger, Row, Valid, NoInvite, Sound, TypeOK, Invite, history
<1> QED
  BY <1>1, <1>2, <1>3, <1>4, <1>5, InviteWriters

(***************************************************************************)
(* An invite is spent exactly when its passkey is written, and once, in    *)
(* whichever tabs and at whatever time it is answered (auth_repo.py        *)
(* 618-650).                                                               *)
(***************************************************************************)
THEOREM InviteIsOnePasskey == Spec => []SpentMeansEnrolled
<1>1. Init => Ledger
  BY DEF Init, Ledger, NoInvite
<1>2. Ledger => SpentMeansEnrolled
  BY DEF Ledger, SpentMeansEnrolled
<1> QED
  BY <1>1, <1>2, LedgerStep, SoundAlways, PTL DEF Spec
-----------------------------------------------------------------------------
(* How one lock hold leaves the requests in progress.                      *)

LEMMA Moved ==
    ASSUME Sound, NEW t \in Threads, NEW r, Goto(t, r)
    PROVE  thread'[t] = r /\ \A w \in Threads \ {t} : thread'[w] = thread[w]
BY DEF Goto, Sound, TypeOK

LEMMA Stepped ==
    ASSUME Sound, NEW t \in Threads, NEW pc, Step(t, pc)
    PROVE  /\ thread'[t].pc = pc /\ thread'[t].ch = thread[t].ch
           /\ thread'[t].uid = thread[t].uid /\ thread'[t].invite = thread[t].invite
           /\ \A w \in Threads \ {t} : thread'[w] = thread[w]
BY DEF Step, Goto, Sound, TypeOK, Request

LEMMA Ended ==
    ASSUME Sound, NEW t \in Threads, Done(t)
    PROVE  thread'[t] = Idle /\ \A w \in Threads \ {t} : thread'[w] = thread[w]
BY Moved DEF Done

LEMMA SignedOutKeeps ==
    ASSUME Sound, NEW gone, sessions' = SignedOut(gone)
    PROVE  \A s \in sessions' : \E r \in sessions : r.uid = s.uid
<1>1. \A r \in sessions : [r EXCEPT !.good = FALSE].uid = r.uid
  BY DEF Sound, TypeOK, Session
<1> QED
  BY <1>1 DEF SignedOut
-----------------------------------------------------------------------------
(* No table or request names an account that was never made: an id drawn   *)
(* for a new account is nobody's yet.                                      *)

RequestsMinted == \A t \in Threads : thread[t].uid # Nobody => thread[t].uid \in minted
TablesMinted ==
    /\ Accounts \subseteq minted /\ Enrolled \subseteq minted
    /\ \A s \in sessions : s.uid \in minted
    /\ \A v \in Invites : Row(v) => invites[v].uid \in minted
UidsAreMinted == TablesMinted /\ RequestsMinted

LEMMA RequestsStayMinted ==
    ASSUME Sound, UidsAreMinted, [Next]_vars
    PROVE  RequestsMinted'
<1>0. minted \subseteq minted'
  BY UsersWriters DEF Claim, AddAccount, Delete, history
<1> DEFINE Fine(r) == r.uid # Nobody => r.uid \in minted'
<1>1. ASSUME NEW t \in Threads, NEW r, Goto(t, r), Fine(r)
      PROVE  RequestsMinted'
  BY <1>0, <1>1, Moved DEF UidsAreMinted, TablesMinted, RequestsMinted
<1>2. ASSUME NEW t \in Threads, Done(t)
      PROVE  RequestsMinted'
  BY <1>0, <1>2, Ended DEF UidsAreMinted, TablesMinted, RequestsMinted, Idle
<1>3. ASSUME NEW t \in Threads, NEW pc, Step(t, pc)
      PROVE  RequestsMinted'
  BY <1>0, <1>3, Stepped DEF UidsAreMinted, TablesMinted, RequestsMinted
<1>4. ASSUME UNCHANGED thread
      PROVE  RequestsMinted'
  BY <1>0, <1>4 DEF UidsAreMinted, TablesMinted, RequestsMinted
<1>5. ASSUME NEW t \in Threads, NEW n \in Names, NEW c \in Challenges, BootstrapVerify(t, c, n)
      PROVE  RequestsMinted'
  <2> DEFINE r == [Idle EXCEPT !.pc = "claiming", !.ch = c, !.name = n]
  <2>1. Fine(r)
    BY DEF Idle
  <2> QED
    BY <1>1, <1>5, <2>1 DEF BootstrapVerify
<1>6. ASSUME NEW t \in Threads, NEW n \in Names, RemoveMember(t, n)
      PROVE  RequestsMinted'
  <2> DEFINE r == [Idle EXCEPT !.pc = "remove", !.name = n]
  <2>1. Fine(r)
    BY DEF Idle
  <2> QED
    BY <1>1, <1>6, <2>1 DEF RemoveMember
<1>7. ASSUME NEW t \in Threads, NEW n \in Names, LookUp(t, n) \/ RecoverInvite(t, n)
      PROVE  RequestsMinted'
  <2>1. CASE Goto(t, [Idle EXCEPT !.pc = "new", !.name = n])
    <3>1. Fine([Idle EXCEPT !.pc = "new", !.name = n])
      BY DEF Idle
    <3> QED
      BY <1>1, <2>1, <3>1
  <2>2. ASSUME NEW u \in Accounts, NEW pc, Goto(t, [Idle EXCEPT !.pc = pc, !.uid = u])
        PROVE  RequestsMinted'
    <3>1. Fine([Idle EXCEPT !.pc = pc, !.uid = u])
      BY <1>0 DEF Idle, UidsAreMinted, TablesMinted
    <3> QED
      BY <1>1, <2>2, <3>1
  <2> QED
    BY <1>7, <2>1, <2>2 DEF LookUp, RecoverInvite, AccountOf
<1>8. ASSUME NEW t \in Threads, NEW c \in Challenges, RegisterVerify(t, c)
      PROVE  RequestsMinted'
  <2> DEFINE v == challenges[c].invite
             r == [Idle EXCEPT !.pc = "registering", !.ch = c, !.invite = v, !.uid = invites[v].uid]
  <2>1. v \in Invites /\ Row(v)
    BY <1>8 DEF RegisterVerify, Valid, Sound
  <2>2. invites[v].uid \in minted'
    BY <1>0, <2>1 DEF UidsAreMinted, TablesMinted, RequestsMinted
  <2>3. Fine(r)
    BY <2>2 DEF Idle
  <2> QED
    BY <1>1, <1>8, <2>3 DEF RegisterVerify
<1>9. ASSUME NEW t \in Threads, NEW c \in Challenges, LoginVerify(t, c)
      PROVE  RequestsMinted'
  <2>1. PICK k \in creds : Goto(t, [Idle EXCEPT !.pc = "signing", !.ch = c, !.uid = k.uid])
    BY <1>9 DEF LoginVerify
  <2> DEFINE r == [Idle EXCEPT !.pc = "signing", !.ch = c, !.uid = k.uid]
  <2>2. k.uid \in minted'
    BY <1>0 DEF UidsAreMinted, TablesMinted, RequestsMinted, Enrolled
  <2>3. Fine(r)
    BY <2>2 DEF Idle
  <2> QED
    BY <1>1, <2>1, <2>3
<1>10. ASSUME NEW t \in Threads, ReadReopen(t)
       PROVE  RequestsMinted'
  <2> DEFINE r == [thread[t] EXCEPT !.pc = "claim", !.reopen = reopened]
  <2>1. r.uid = thread[t].uid
    BY DEF Sound, TypeOK, Request
  <2>2. Fine(r)
    BY <1>0, <2>1 DEF UidsAreMinted, TablesMinted, RequestsMinted
  <2> QED
    BY <1>1, <1>10, <2>2 DEF ReadReopen
<1>11. ASSUME NEW t \in Threads, AddAccount(t)
       PROVE  RequestsMinted'
  <2>1. CASE Done(t)
    BY <1>2, <2>1
  <2>2. ASSUME NEW u \in Uids, minted' = minted \cup {u},
               Goto(t, [thread[t] EXCEPT !.pc = "invite", !.uid = u])
        PROVE  RequestsMinted'
    <3> DEFINE r == [thread[t] EXCEPT !.pc = "invite", !.uid = u]
    <3>1. r.uid = u
      BY DEF Sound, TypeOK, Request
    <3>2. Fine(r)
      BY <2>2, <3>1
    <3> QED
      BY <1>1, <2>2, <3>2
  <2> QED
    BY <1>11, <2>1, <2>2 DEF AddAccount
<1>12. ASSUME NEW t \in Threads,
              \/ BootstrapConsume(t) \/ RegisterConsume(t) \/ LoginConsume(t) \/ Claim(t)
              \/ CreateInvite(t) \/ Redeem(t) \/ RegisterSession(t) \/ LoginSession(t)
              \/ Delete(t) \/ SeePasskeys(t) \/ Abandon(t)
       PROVE  RequestsMinted'
  <2>1. Done(t) \/ \E pc : Step(t, pc)
    BY <1>12 DEF SeePasskeys, BootstrapConsume, RegisterConsume, LoginConsume, Consume, Claim,
       CreateInvite, Redeem, RegisterSession, LoginSession, StartSession, Delete, Abandon
  <2> QED
    BY <1>2, <1>3, <2>1
<1>13. ASSUME \/ \E c \in Challenges : Browse(c) \/ ExpireChallenge(c)
              \/ \E s \in sessions : EndSession(s)
              \/ \E v \in Invites : ExpireInvite(v)
              \/ Reopen \/ CancelReset \/ RevokeAll
              \/ UNCHANGED vars
       PROVE  RequestsMinted'
  <2>1. UNCHANGED thread
    BY <1>13 DEF Browse, BootstrapOptions, LoginOptions, RegisterOptions, Issue, ExpireChallenge,
       EndSession, ExpireInvite, Reopen, CancelReset, RevokeAll, vars
  <2> QED
    BY <1>4, <2>1
<1> QED
  BY <1>5, <1>6, <1>7, <1>8, <1>9, <1>10, <1>11, <1>12, <1>13 DEF Next, Serve

LEMMA CredWriters ==
    ASSUME [Next]_vars
    PROVE  \/ UNCHANGED creds
           \/ \E t \in Threads : Claim(t) \/ Redeem(t) \/ Delete(t)
<1>1. ASSUME NEW t \in Threads, Serve(t)
      PROVE  UNCHANGED creds \/ Claim(t) \/ Redeem(t) \/ Delete(t)
  BY <1>1 DEF Serve, BootstrapVerify, RegisterVerify, LoginVerify, BootstrapConsume, ReadReopen,
      LookUp, SeePasskeys, RemoveMember, AddAccount, CreateInvite, RegisterConsume, RegisterSession,
      LoginConsume, LoginSession, RecoverInvite, Abandon, Consume, StartSession, tables
<1>2. ASSUME \/ \E c \in Challenges : Browse(c) \/ ExpireChallenge(c)
             \/ \E s \in sessions : EndSession(s)
             \/ \E v \in Invites : ExpireInvite(v)
             \/ Reopen \/ CancelReset \/ RevokeAll
             \/ UNCHANGED vars
      PROVE  UNCHANGED creds
  BY <1>2 DEF Browse, BootstrapOptions, LoginOptions, RegisterOptions, Issue, ExpireChallenge,
      EndSession, ExpireInvite, Reopen, CancelReset, RevokeAll, vars, tables
<1> QED
  BY <1>1, <1>2 DEF Next

LEMMA SessionWriters ==
    ASSUME [Next]_vars
    PROVE  \/ UNCHANGED sessions
           \/ \E gone : sessions' = SignedOut(gone)
           \/ \E t \in Threads : Claim(t) \/ RegisterSession(t) \/ LoginSession(t) \/ Delete(t)
<1>1. ASSUME NEW t \in Threads, Serve(t)
      PROVE  UNCHANGED sessions \/ Claim(t) \/ RegisterSession(t) \/ LoginSession(t) \/ Delete(t)
  BY <1>1 DEF Serve, BootstrapVerify, RegisterVerify, LoginVerify, BootstrapConsume, ReadReopen,
      LookUp, SeePasskeys, RemoveMember, AddAccount, CreateInvite, RegisterConsume, Redeem,
      LoginConsume, RecoverInvite, Abandon, Consume, tables
<1>2. ASSUME \/ \E c \in Challenges : Browse(c) \/ ExpireChallenge(c)
             \/ \E v \in Invites : ExpireInvite(v)
             \/ Reopen \/ CancelReset
             \/ UNCHANGED vars
      PROVE  UNCHANGED sessions
  BY <1>2 DEF Browse, BootstrapOptions, LoginOptions, RegisterOptions, Issue, ExpireChallenge,
      ExpireInvite, Reopen, CancelReset, vars, tables
<1>3. ASSUME (\E s \in sessions : EndSession(s)) \/ RevokeAll
      PROVE  \E gone : sessions' = SignedOut(gone)
  BY <1>3 DEF EndSession, RevokeAll
<1> QED
  BY <1>1, <1>2, <1>3 DEF Next

(* What a claim that is granted writes.                                    *)
LEMMA Claimed ==
    ASSUME Sound, NEW t \in Threads, Claim(t), ~UNCHANGED <<users, minted, creds, sessions, reopened, claims>>
    PROVE  \E u \in Uids :
             /\ users' = [users EXCEPT ![u] = thread[t].name]
             /\ minted' = minted \cup {u}
             /\ creds' = creds \cup {[ch |-> thread[t].ch, uid |-> u]}
             /\ sessions' = sessions \cup {[ch |-> thread[t].ch, uid |-> u, good |-> TRUE]}
             /\ reopened' = (reopened /\ ~thread[t].reopen)
             /\ claims' = [claims EXCEPT !.taken = @ + 1]
             /\ MayClaim(thread[t].reopen)
BY DEF Claim, AccountOf, Accounts

(* What a redemption that succeeds writes.                                 *)
LEMMA Redeemed ==
    ASSUME Sound, NEW t \in Threads, Redeem(t),
           ~Done(t) \/ ~UNCHANGED <<invites, challenges, creds, enrolments>>
    PROVE  /\ thread[t].invite \in Invites
           /\ Row(thread[t].invite) /\ ~invites[thread[t].invite].used
           /\ invites' = [invites EXCEPT ![thread[t].invite].used = TRUE]
           /\ \A v \in Invites : /\ invites'[v].uid = invites[v].uid
                                 /\ invites'[v] = NoInvite => invites[v] = NoInvite
           /\ challenges' = [c \in Challenges |-> IF challenges[c].invite = thread[t].invite
                              THEN [challenges[c] EXCEPT !.fresh = FALSE] ELSE challenges[c]]
           /\ creds' = creds \cup {[ch |-> thread[t].ch, uid |-> invites[thread[t].invite].uid]}
           /\ Step(t, "enrolled")
<1>1. /\ thread[t].invite \in Invites
      /\ Row(thread[t].invite) /\ ~invites[thread[t].invite].used
      /\ invites' = [invites EXCEPT ![thread[t].invite].used = TRUE]
      /\ challenges' = [c \in Challenges |-> IF challenges[c].invite = thread[t].invite
                              THEN [challenges[c] EXCEPT !.fresh = FALSE] ELSE challenges[c]]
      /\ creds' = creds \cup {[ch |-> thread[t].ch, uid |-> invites[thread[t].invite].uid]}
      /\ Step(t, "enrolled")
  BY DEF Redeem, At, Sound, Fit
<1>2. \A v \in Invites : /\ invites'[v].uid = invites[v].uid
                         /\ invites'[v] = NoInvite => invites[v] = NoInvite
  BY <1>1 DEF NoInvite, Sound, TypeOK, Invite
<1> QED
  BY <1>1, <1>2

(* What a removal takes.                                                   *)
LEMMA Deleted ==
    ASSUME Sound, NEW t \in Threads, Delete(t)
    PROVE  \E gone \in SUBSET Accounts :
             /\ gone = {u \in AccountOf(thread[t].name) : ~LastEnrolled(u)}
             /\ Accounts' = Accounts \ gone
             /\ creds' = {c \in creds : c.uid \notin gone}
             /\ Enrolled' = Enrolled \ gone
             /\ sessions' = {s \in sessions : s.uid \notin gone}
             /\ \A v \in Invites : invites'[v] = IF invites[v].uid \in gone THEN DeletedInvite ELSE invites[v]
             /\ UNCHANGED <<challenges, reopened, spent, minted, claims, enrolments>>
             /\ Done(t)
<1>1. PICK gone \in SUBSET Accounts :
        /\ gone = {u \in AccountOf(thread[t].name) : ~LastEnrolled(u)}
        /\ users' = [u \in Uids |-> IF u \in gone THEN Nobody ELSE users[u]]
        /\ creds' = {c \in creds : c.uid \notin gone}
        /\ sessions' = {s \in sessions : s.uid \notin gone}
        /\ invites' = [v \in Invites |-> IF invites[v].uid \in gone THEN DeletedInvite ELSE invites[v]]
        /\ Done(t)
  BY DEF Delete, AccountOf
<1>2. Accounts' = Accounts \ gone
  BY <1>1 DEF Accounts, Sound, TypeOK
<1>3. Enrolled' = Enrolled \ gone
  BY <1>1 DEF Enrolled
<1>4. UNCHANGED <<challenges, reopened, spent, minted, claims, enrolments>>
  BY DEF Delete, history
<1> QED
  BY <1>1, <1>2, <1>3, <1>4

LEMMA TablesStayMinted ==
    ASSUME Sound, UidsAreMinted, [Next]_vars
    PROVE  TablesMinted'
<1>1. ASSUME NEW t \in Threads, Claim(t)
      PROVE  TablesMinted'
  <2>1. UNCHANGED invites
    BY <1>1 DEF Claim
  <2>2. CASE UNCHANGED <<users, minted, creds, sessions, reopened, claims>>
    BY <2>1, <2>2 DEF UidsAreMinted, TablesMinted, Accounts, Enrolled, Row
  <2>3. CASE ~UNCHANGED <<users, minted, creds, sessions, reopened, claims>>
    <3>1. PICK u \in Uids :
             /\ users' = [users EXCEPT ![u] = thread[t].name]
             /\ minted' = minted \cup {u}
             /\ creds' = creds \cup {[ch |-> thread[t].ch, uid |-> u]}
             /\ sessions' = sessions \cup {[ch |-> thread[t].ch, uid |-> u, good |-> TRUE]}
      BY <1>1, <2>3, Claimed
    <3>2. Accounts' \subseteq minted'
      BY <3>1 DEF Accounts, UidsAreMinted, TablesMinted, Sound, TypeOK
    <3>3. Enrolled' \subseteq minted'
      BY <3>1 DEF Enrolled, UidsAreMinted, TablesMinted
    <3>4. \A s \in sessions' : s.uid \in minted'
      BY <3>1 DEF UidsAreMinted, TablesMinted
    <3> QED
      BY <2>1, <3>1, <3>2, <3>3, <3>4 DEF UidsAreMinted, TablesMinted, Row
  <2> QED
    BY <2>2, <2>3
<1>2. ASSUME NEW t \in Threads, AddAccount(t)
      PROVE  TablesMinted'
  <2>1. UNCHANGED <<creds, sessions, invites>>
    BY <1>2 DEF AddAccount
  <2>2. minted \subseteq minted' /\ Accounts' \subseteq minted'
    BY <1>2 DEF AddAccount, Accounts, UidsAreMinted, TablesMinted, Sound, TypeOK
  <2> QED
    BY <2>1, <2>2 DEF UidsAreMinted, TablesMinted, Enrolled, Row
<1>3. ASSUME NEW t \in Threads, CreateInvite(t)
      PROVE  TablesMinted'
  <2>1. UNCHANGED <<users, minted, creds, sessions>>
    BY <1>3 DEF CreateInvite, history
  <2>2. thread[t].uid \in minted
    BY <1>3, MembersAssumption DEF CreateInvite, At, Sound, Fit, UidsAreMinted, RequestsMinted
  <2>3. \A v \in Invites : invites'[v].uid \in {invites[v].uid, thread[t].uid}
    BY <1>3 DEF CreateInvite, Sound, TypeOK, Invite
  <2> QED
    BY <2>1, <2>2, <2>3 DEF UidsAreMinted, TablesMinted, Accounts, Enrolled, Row
<1>4. ASSUME NEW t \in Threads, Redeem(t)
      PROVE  TablesMinted'
  <2>1. UNCHANGED <<users, minted, sessions>>
    BY <1>4 DEF Redeem
  <2>2. CASE UNCHANGED <<invites, challenges, creds, enrolments>>
    BY <2>1, <2>2 DEF UidsAreMinted, TablesMinted, Accounts, Enrolled, Row
  <2>3. CASE ~UNCHANGED <<invites, challenges, creds, enrolments>>
    <3>1. /\ thread[t].invite \in Invites /\ Row(thread[t].invite)
          /\ creds' = creds \cup {[ch |-> thread[t].ch, uid |-> invites[thread[t].invite].uid]}
          /\ \A v \in Invites : invites'[v].uid = invites[v].uid
      BY <1>4, <2>3, Redeemed
    <3>2. Enrolled' \subseteq minted
      BY <3>1 DEF UidsAreMinted, TablesMinted, Enrolled
    <3> QED
      BY <2>1, <3>1, <3>2 DEF UidsAreMinted, TablesMinted, Accounts, Row
  <2> QED
    BY <2>2, <2>3
<1>5. ASSUME NEW t \in Threads, Delete(t)
      PROVE  TablesMinted'
  <2>1. PICK gone \in SUBSET Accounts :
          /\ Accounts' = Accounts \ gone
          /\ Enrolled' = Enrolled \ gone
          /\ sessions' = {s \in sessions : s.uid \notin gone}
          /\ \A v \in Invites : invites'[v] = IF invites[v].uid \in gone THEN DeletedInvite ELSE invites[v]
          /\ UNCHANGED minted
    BY <1>5, Deleted
  <2>2. DeletedInvite.uid = Nobody
    BY DEF DeletedInvite, NoInvite
  <2> QED
    BY <2>1, <2>2 DEF UidsAreMinted, TablesMinted, Row
<1>6. ASSUME NEW t \in Threads, RegisterSession(t) \/ LoginSession(t)
      PROVE  TablesMinted'
  <2>1. UNCHANGED <<users, minted, creds, invites>>
    BY <1>6 DEF RegisterSession, LoginSession, StartSession, history
  <2>2. thread[t].uid \in minted
    BY <1>6, MembersAssumption DEF RegisterSession, LoginSession, At, Sound, Fit, UidsAreMinted,
       RequestsMinted
  <2>3. sessions' = sessions \cup {[ch |-> thread[t].ch, uid |-> thread[t].uid, good |-> TRUE]}
    BY <1>6 DEF RegisterSession, LoginSession, StartSession
  <2> QED
    BY <2>1, <2>2, <2>3 DEF UidsAreMinted, TablesMinted, Accounts, Enrolled, Row
<1>7. ASSUME UNCHANGED <<users, minted, creds>>,
             UNCHANGED sessions \/ \E gone : sessions' = SignedOut(gone),
             UNCHANGED invites \/ \E v \in Invites : ExpireInvite(v)
      PROVE  TablesMinted'
  <2>1. \A s \in sessions' : \E r \in sessions : r.uid = s.uid
    BY <1>7, SignedOutKeeps
  <2>2. \A v \in Invites : invites'[v].uid = invites[v].uid
    BY <1>7 DEF ExpireInvite, Sound, TypeOK, Invite
  <2> QED
    BY <1>7, <2>1, <2>2 DEF UidsAreMinted, TablesMinted, Accounts, Enrolled, Row
<1> QED
  BY <1>1, <1>2, <1>3, <1>4, <1>5, <1>6, <1>7, UsersWriters, CredWriters, SessionWriters,
     InviteWriters

LEMMA MintedAlways == Spec => []UidsAreMinted
<1>1. Init => UidsAreMinted
  BY DEF Init, UidsAreMinted, TablesMinted, RequestsMinted, Accounts, Enrolled, Row, NoInvite, Idle
<1>2. Sound /\ UidsAreMinted /\ [Next]_vars => UidsAreMinted'
  BY TablesStayMinted, RequestsStayMinted DEF UidsAreMinted
<1> QED
  BY <1>1, <1>2, SoundAlways, PTL DEF Spec
-----------------------------------------------------------------------------
(* Where a request stands after a step, and what it took to get there.     *)

Spends(t) ==
    /\ thread'[t].ch = thread[t].ch
    /\ thread[t].ch \in Challenges
    /\ challenges[thread[t].ch].fresh /\ challenges[thread[t].ch].purpose # "none"
    /\ challenges' = [challenges EXCEPT ![thread[t].ch].fresh = FALSE]
KeepsAccount(t) == thread'[t].uid = thread[t].uid

Outcome(t) ==
    \/ thread'[t].pc \in {"idle", "claiming", "found", "invite"}
    \/ At(t, "claiming") /\ thread'[t].pc = "verified" /\ Spends(t)
    \/ At(t, "verified") /\ thread'[t].pc = "claim" /\ thread'[t].ch = thread[t].ch
         /\ UNCHANGED challenges
    \/ thread'[t].pc = "new" /\ ((\E u \in Uids : Member(u)) \/ Operator)
    \/ thread'[t].pc = "remove" /\ \E u \in Uids : Member(u)
    \/ thread'[t].pc = "registering"
         /\ \E c \in Challenges : /\ thread'[t].invite = challenges[c].invite
                                  /\ challenges[c].invite \in Invites
         /\ thread'[t].uid = invites[thread'[t].invite].uid
    \/ At(t, "registering") /\ thread'[t].pc = "redeem" /\ KeepsAccount(t) /\ Spends(t)
         /\ thread'[t].invite = thread[t].invite
    \/ thread'[t].pc = "enrolled" /\ KeepsAccount(t) /\ Redeem(t) /\ ~Done(t)
    \/ thread'[t].pc = "signing" /\ \E k \in creds : thread'[t].uid = k.uid
    \/ At(t, "signing") /\ thread'[t].pc = "signed" /\ KeepsAccount(t)

Progress(t) == Outcome(t) /\ \A w \in Threads \ {t} : thread'[w] = thread[w]

LEMMA ConsumeProgress ==
    ASSUME Sound, NEW t \in Threads, NEW purpose, purpose # "none", NEW next,
           Consume(t, purpose, next),
           thread[t].ch \in Challenges
    PROVE  \/ thread'[t] = Idle
           \/ Step(t, next) /\ thread'[t].pc = next /\ thread'[t].ch = thread[t].ch
              /\ KeepsAccount(t) /\ thread'[t].invite = thread[t].invite
              /\ challenges[thread[t].ch].fresh /\ challenges[thread[t].ch].purpose # "none"
              /\ challenges' = [challenges EXCEPT ![thread[t].ch].fresh = FALSE]
<1>1. CASE Done(t)
  BY <1>1, Ended
<1>2. CASE ~Done(t)
  <2>1. /\ Step(t, next)
        /\ challenges[thread[t].ch].fresh /\ challenges[thread[t].ch].purpose # "none"
        /\ challenges' = [challenges EXCEPT ![thread[t].ch].fresh = FALSE]
    BY <1>2 DEF Consume
  <2> QED
    BY <2>1, Stepped DEF KeepsAccount
<1> QED
  BY <1>1, <1>2

LEMMA ServeProgress ==
    ASSUME Sound, NEW t \in Threads, Serve(t)
    PROVE  Progress(t)
<1>0. ASSUME Done(t) \/ \E pc : Step(t, pc) \/ \E r : Goto(t, r)
      PROVE  \A w \in Threads \ {t} : thread'[w] = thread[w]
  BY <1>0, Moved, Stepped, Ended
<1>1. ASSUME Done(t)
      PROVE  Progress(t)
  BY <1>1, Ended DEF Progress, Outcome, Idle
<1>2. ASSUME NEW n \in Names, NEW c \in Challenges, BootstrapVerify(t, c, n)
      PROVE  Progress(t)
  <2> DEFINE r == [Idle EXCEPT !.pc = "claiming", !.ch = c, !.name = n]
  <2>1. Goto(t, r) /\ r.pc = "claiming"
    BY <1>2 DEF BootstrapVerify, Idle
  <2> QED
    BY <2>1, Moved DEF Progress, Outcome
<1>3. ASSUME NEW n \in Names, RemoveMember(t, n)
      PROVE  Progress(t)
  <2> DEFINE r == [Idle EXCEPT !.pc = "remove", !.name = n]
  <2>1. Goto(t, r) /\ r.pc = "remove" /\ \E u \in Uids : Member(u)
    BY <1>3 DEF RemoveMember, Idle
  <2>2. thread'[t] = r /\ \A w \in Threads \ {t} : thread'[w] = thread[w]
    BY <2>1, Moved
  <2> QED
    BY <2>1, <2>2 DEF Progress, Outcome
<1>4. ASSUME NEW n \in Names, LookUp(t, n) \/ RecoverInvite(t, n)
      PROVE  Progress(t)
  <2> DEFINE r == [Idle EXCEPT !.pc = "new", !.name = n]
  <2>1. (\E u \in Uids : Member(u)) \/ Operator
    BY <1>4 DEF LookUp, RecoverInvite
  <2>2. CASE Goto(t, r)
    <3>1. r.pc = "new"
      BY DEF Idle
    <3>2. thread'[t] = r /\ \A w \in Threads \ {t} : thread'[w] = thread[w]
      BY <2>2, Moved
    <3> QED
      BY <2>1, <3>1, <3>2 DEF Progress, Outcome
  <2>3. ASSUME NEW u \in AccountOf(n), NEW pc \in {"found", "invite"},
               Goto(t, [Idle EXCEPT !.pc = pc, !.uid = u])
        PROVE  Progress(t)
    <3> DEFINE q == [Idle EXCEPT !.pc = pc, !.uid = u]
    <3>1. q.pc = pc
      BY DEF Idle
    <3>2. thread'[t] = q /\ \A w \in Threads \ {t} : thread'[w] = thread[w]
      BY <2>3, Moved
    <3> QED
      BY <3>1, <3>2 DEF Progress, Outcome
  <2> QED
    BY <1>4, <2>2, <2>3 DEF LookUp, RecoverInvite
<1>5. ASSUME NEW c \in Challenges, RegisterVerify(t, c)
      PROVE  Progress(t)
  <2> DEFINE v == challenges[c].invite
             r == [Idle EXCEPT !.pc = "registering", !.ch = c, !.invite = v, !.uid = invites[v].uid]
  <2>1. v \in Invites
    BY <1>5 DEF RegisterVerify, Sound
  <2>2. r.pc = "registering" /\ r.invite = v /\ r.uid = invites[v].uid
    BY DEF Idle
  <2>3. thread'[t] = r /\ \A w \in Threads \ {t} : thread'[w] = thread[w]
    BY <1>5, Moved DEF RegisterVerify
  <2> QED
    BY <2>1, <2>2, <2>3 DEF Progress, Outcome
<1>6. ASSUME NEW c \in Challenges, LoginVerify(t, c)
      PROVE  Progress(t)
  <2>1. PICK k \in creds : Goto(t, [Idle EXCEPT !.pc = "signing", !.ch = c, !.uid = k.uid])
    BY <1>6 DEF LoginVerify
  <2> DEFINE r == [Idle EXCEPT !.pc = "signing", !.ch = c, !.uid = k.uid]
  <2>2. r.pc = "signing" /\ r.uid = k.uid
    BY DEF Idle
  <2>3. thread'[t] = r /\ \A w \in Threads \ {t} : thread'[w] = thread[w]
    BY <2>1, Moved
  <2> QED
    BY <2>2, <2>3 DEF Progress, Outcome
<1>7. ASSUME ReadReopen(t)
      PROVE  Progress(t)
  <2> DEFINE r == [thread[t] EXCEPT !.pc = "claim", !.reopen = reopened]
  <2>1. r.pc = "claim" /\ r.ch = thread[t].ch
    BY DEF Sound, TypeOK, Request
  <2>2. thread'[t] = r /\ \A w \in Threads \ {t} : thread'[w] = thread[w]
    BY <1>7, Moved DEF ReadReopen
  <2>3. At(t, "verified") /\ UNCHANGED challenges
    BY <1>7 DEF ReadReopen, tables
  <2> QED
    BY <2>1, <2>2, <2>3 DEF Progress, Outcome
<1>8. ASSUME AddAccount(t), ~Done(t)
      PROVE  Progress(t)
  <2>1. PICK u \in Uids : Goto(t, [thread[t] EXCEPT !.pc = "invite", !.uid = u])
    BY <1>8 DEF AddAccount
  <2> DEFINE r == [thread[t] EXCEPT !.pc = "invite", !.uid = u]
  <2>2. r.pc = "invite"
    BY DEF Sound, TypeOK, Request
  <2>3. thread'[t] = r /\ \A w \in Threads \ {t} : thread'[w] = thread[w]
    BY <2>1, Moved
  <2> QED
    BY <2>2, <2>3 DEF Progress, Outcome
<1>9. ASSUME BootstrapConsume(t) \/ RegisterConsume(t) \/ LoginConsume(t)
      PROVE  Progress(t)
  <2>1. thread[t].ch \in Challenges
    BY <1>9 DEF BootstrapConsume, RegisterConsume, LoginConsume, At, Sound, Fit
  <2>2. \A w \in Threads \ {t} : thread'[w] = thread[w]
    BY <1>0, <1>9 DEF BootstrapConsume, RegisterConsume, LoginConsume, Consume
  <2>3. CASE thread'[t] = Idle
    BY <2>2, <2>3 DEF Progress, Outcome, Idle
  <2>4. CASE BootstrapConsume(t)
    BY <2>1, <2>2, <2>3, <2>4, ConsumeProgress DEF BootstrapConsume, Progress, Outcome, Spends
  <2>5. CASE RegisterConsume(t)
    BY <2>1, <2>2, <2>3, <2>5, ConsumeProgress DEF RegisterConsume, Progress, Outcome, Spends
  <2>6. CASE LoginConsume(t)
    <3>1. At(t, "signing") /\ Consume(t, "auth", "signed")
      BY <2>6 DEF LoginConsume
    <3>2. thread'[t] = Idle \/ (thread'[t].pc = "signed" /\ KeepsAccount(t))
      BY <2>1, <3>1, ConsumeProgress
    <3> QED
      BY <2>2, <2>3, <3>1, <3>2 DEF Progress, Outcome
  <2> QED
    BY <1>9, <2>4, <2>5, <2>6
<1>10. ASSUME Redeem(t), ~Done(t)
       PROVE  Progress(t)
  <2>1. Step(t, "enrolled")
    BY <1>10 DEF Redeem
  <2> QED
    BY <1>10, <2>1, Stepped DEF Progress, Outcome, KeepsAccount
<1>11. ASSUME \/ Claim(t) \/ CreateInvite(t) \/ RegisterSession(t) \/ LoginSession(t)
              \/ Delete(t) \/ Abandon(t)
       PROVE  Done(t)
  BY <1>11 DEF Claim, CreateInvite, RegisterSession, LoginSession, StartSession, Delete, Abandon
<1>12. ASSUME SeePasskeys(t), ~Done(t)
       PROVE  Progress(t)
  BY <1>12, Stepped DEF SeePasskeys, Progress, Outcome
<1> QED
  BY <1>1, <1>2, <1>3, <1>4, <1>5, <1>6, <1>7, <1>8, <1>9, <1>10, <1>11, <1>12 DEF Serve

LEMMA NextProgress ==
    ASSUME Sound, [Next]_vars
    PROVE  UNCHANGED thread \/ \E t \in Threads : Progress(t)
<1>1. ASSUME \/ \E c \in Challenges : Browse(c) \/ ExpireChallenge(c)
             \/ \E s \in sessions : EndSession(s)
             \/ \E v \in Invites : ExpireInvite(v)
             \/ Reopen \/ CancelReset \/ RevokeAll
             \/ UNCHANGED vars
      PROVE  UNCHANGED thread
  BY <1>1 DEF Browse, BootstrapOptions, LoginOptions, RegisterOptions, Issue, ExpireChallenge,
       EndSession, ExpireInvite, Reopen, CancelReset, RevokeAll, vars
<1> QED
  BY <1>1, ServeProgress DEF Next
-----------------------------------------------------------------------------
(* Invites that a challenge or a request names stay drawn, for an account  *)
(* that is there as long as their row is.                                  *)

LEMMA AccountsGrow ==
    ASSUME Sound, NEW t \in Threads, Claim(t) \/ AddAccount(t)
    PROVE  Accounts \subseteq Accounts'
<1>1. thread[t].name \in Names /\ thread[t].name # Nobody
  BY MembersAssumption DEF Claim, AddAccount, At, Sound, Fit
<1>2. users' = users \/ \E u \in Uids : users' = [users EXCEPT ![u] = thread[t].name]
  BY Claimed DEF Claim, AddAccount
<1> QED
  BY <1>1, <1>2 DEF Accounts, Sound, TypeOK

Issued(v) == invites[v] # NoInvite /\ (Row(v) => invites[v].uid \in Accounts)

LEMMA IssuedStays ==
    ASSUME Sound, [Next]_vars, NEW v \in Invites, Issued(v)
    PROVE  Issued(v)' /\ (Row(v)' => Row(v) /\ invites'[v].uid = invites[v].uid)
<1>1. CASE UNCHANGED invites /\ Accounts \subseteq Accounts'
  BY <1>1 DEF Issued, Row
<1>2. ASSUME NEW t \in Threads, CreateInvite(t)
      PROVE  Issued(v)' /\ (Row(v)' => Row(v) /\ invites'[v].uid = invites[v].uid)
  BY <1>2 DEF CreateInvite, Issued, Row, Accounts, history, Sound, TypeOK
<1>3. ASSUME NEW t \in Threads, Redeem(t)
      PROVE  Issued(v)' /\ (Row(v)' => Row(v) /\ invites'[v].uid = invites[v].uid)
  <2>1. UNCHANGED users
    BY <1>3 DEF Redeem
  <2>2. invites'[v].uid = invites[v].uid /\ (invites'[v] = NoInvite => invites[v] = NoInvite)
    BY <1>3, Redeemed
  <2> QED
    BY <2>1, <2>2 DEF Issued, Row, Accounts
<1>4. ASSUME NEW t \in Threads, Delete(t)
      PROVE  Issued(v)' /\ (Row(v)' => Row(v) /\ invites'[v].uid = invites[v].uid)
  <2>1. PICK gone : /\ Accounts' = Accounts \ gone
                    /\ invites'[v] = IF invites[v].uid \in gone THEN DeletedInvite ELSE invites[v]
    BY <1>4, Deleted
  <2>2. DeletedInvite.uid = Nobody /\ DeletedInvite # NoInvite
    BY DEF DeletedInvite, NoInvite
  <2> QED
    BY <2>1, <2>2 DEF Issued, Row
<1>5. ASSUME NEW x \in Invites, ExpireInvite(x)
      PROVE  Issued(v)' /\ (Row(v)' => Row(v) /\ invites'[v].uid = invites[v].uid)
  BY <1>5 DEF ExpireInvite, Issued, Row, Accounts, NoInvite, Sound, TypeOK, Invite
<1>6. UNCHANGED users => Accounts' = Accounts
  BY DEF Accounts
<1> QED
  BY <1>1, <1>2, <1>3, <1>4, <1>5, <1>6, InviteWriters, UsersWriters, AccountsGrow

Tied(r) ==
    r.pc \in {"registering", "redeem"} =>
        /\ Issued(r.invite)
        /\ Row(r.invite) => r.uid = invites[r.invite].uid

InvitesInUse ==
    /\ \A c \in Challenges : challenges[c].invite # Nobody => Issued(challenges[c].invite)
    /\ \A t \in Threads : Tied(thread[t])

LEMMA ChallengeInvite ==
    ASSUME Sound, [Next]_vars, NEW c \in Challenges, challenges'[c].invite # Nobody
    PROVE  \/ challenges'[c].invite = challenges[c].invite
           \/ Issued(challenges'[c].invite) /\ challenges'[c].invite \in Invites
<1>1. ASSUME NEW d \in Challenges, Browse(d)
      PROVE  \/ challenges'[c].invite \in {challenges[c].invite, Nobody}
             \/ Issued(challenges'[c].invite) /\ challenges'[c].invite \in Invites
  <2>1. CASE BootstrapOptions(d) \/ LoginOptions(d)
    BY <2>1 DEF BootstrapOptions, LoginOptions, Issue, Sound, TypeOK, Challenge
  <2>2. ASSUME NEW v \in Invites, RegisterOptions(d, v)
        PROVE  \/ challenges'[c].invite = challenges[c].invite
               \/ Issued(challenges'[c].invite) /\ challenges'[c].invite \in Invites
    <3>1. Issued(v)
      BY <2>2 DEF RegisterOptions, Valid, Issued, Row, NoInvite
    <3> QED
      BY <2>2, <3>1 DEF RegisterOptions, Issue, Sound, TypeOK, Challenge
  <2> QED
    BY <1>1, <2>1, <2>2 DEF Browse
<1>2. ASSUME NEW d \in Challenges, challenges' = [challenges EXCEPT ![d].fresh = FALSE]
      PROVE  challenges'[c].invite = challenges[c].invite
  BY <1>2 DEF Sound, TypeOK, Challenge
<1>3. ASSUME NEW t \in Threads, Redeem(t)
      PROVE  challenges'[c].invite = challenges[c].invite
  <2>1. \/ UNCHANGED challenges
        \/ challenges'[c] = [challenges[c] EXCEPT !.fresh = FALSE] \/ challenges'[c] = challenges[c]
    BY <1>3, Redeemed
  <2> QED
    BY <2>1, Staled DEF Sound, TypeOK
<1>4. ASSUME NEW t \in Threads, Serve(t), ~Redeem(t)
      PROVE  UNCHANGED challenges \/ \E d \in Challenges : challenges' = [challenges EXCEPT ![d].fresh = FALSE]
  BY <1>4 DEF Serve, BootstrapVerify, RegisterVerify, LoginVerify, BootstrapConsume, ReadReopen,
      Claim, LookUp, SeePasskeys, RemoveMember, AddAccount, CreateInvite, RegisterConsume,
      RegisterSession, LoginConsume, LoginSession, Delete, RecoverInvite, Abandon, Consume,
      StartSession, tables, At, Sound, Fit
<1>5. ASSUME \/ \E s \in sessions : EndSession(s)
             \/ \E v \in Invites : ExpireInvite(v)
             \/ Reopen \/ CancelReset \/ RevokeAll
             \/ UNCHANGED vars
      PROVE  UNCHANGED challenges
  BY <1>5 DEF EndSession, ExpireInvite, Reopen, CancelReset, RevokeAll, vars, tables
<1>6. ASSUME NEW d \in Challenges, ExpireChallenge(d)
      PROVE  challenges' = [challenges EXCEPT ![d].fresh = FALSE]
  BY <1>6 DEF ExpireChallenge
<1> QED
  BY <1>1, <1>2, <1>3, <1>4, <1>5, <1>6 DEF Next

LEMMA InvitesInUseStep == Sound /\ InvitesInUse /\ [Next]_vars => InvitesInUse'
<1> SUFFICES ASSUME Sound, InvitesInUse, [Next]_vars
             PROVE  InvitesInUse'
  OBVIOUS
<1>0. \A c \in Challenges : challenges[c].invite \in Invites \cup {Nobody}
  BY DEF Sound, TypeOK, Challenge
<1>1. ASSUME NEW c \in Challenges, challenges'[c].invite # Nobody
      PROVE  Issued(challenges[c].invite)'
  <2>1. PICK v \in Invites : challenges'[c].invite = v /\ Issued(v)
    BY <1>0, <1>1, ChallengeInvite DEF InvitesInUse
  <2>2. Issued(v)'
    BY <2>1, IssuedStays
  <2> QED
    BY <2>1, <2>2 DEF Issued, Row
<1>2. ASSUME NEW t \in Threads, thread'[t] = thread[t]
      PROVE  Tied(thread[t])'
  <2>1. thread[t].pc \in {"registering", "redeem"} => thread[t].invite \in Invites
    BY DEF Sound, Fit
  <2> QED
    BY <1>2, <2>1, IssuedStays DEF InvitesInUse, Tied
<1>3. ASSUME NEW t \in Threads, Outcome(t)
      PROVE  Tied(thread[t])'
  <2>1. CASE thread'[t].pc \notin {"registering", "redeem"}
    BY <2>1 DEF Tied
  <2>2. CASE thread'[t].pc = "registering"
    <3>1. PICK v \in Invites : /\ thread'[t].invite = v
                               /\ thread'[t].uid = invites[v].uid
                               /\ \E c \in Challenges : challenges[c].invite = v
      BY <1>3, <2>2 DEF Outcome
    <3>2. Issued(v)
      BY <3>1, MembersAssumption DEF InvitesInUse
    <3> QED
      BY <3>1, <3>2, IssuedStays DEF Tied
  <2>3. CASE thread'[t].pc = "redeem"
    <3>1. /\ At(t, "registering")
          /\ thread'[t].invite = thread[t].invite /\ thread'[t].uid = thread[t].uid
      BY <1>3, <2>3 DEF Outcome, KeepsAccount
    <3>2. thread[t].invite \in Invites /\ Tied(thread[t])
      BY <3>1 DEF At, Sound, Fit, InvitesInUse
    <3> QED
      BY <3>1, <3>2, IssuedStays DEF Tied, At
  <2> QED
    BY <2>1, <2>2, <2>3
<1>4. \A t \in Threads : thread'[t] = thread[t] \/ Outcome(t)
  BY NextProgress DEF Progress
<1>5. \A t \in Threads : Tied(thread[t])'
  BY <1>2, <1>3, <1>4
<1> QED
  BY <1>1, <1>5 DEF InvitesInUse

LEMMA InvitesInUseAlways == Spec => []InvitesInUse
<1>1. Init => InvitesInUse
  BY DEF Init, InvitesInUse, Tied, Idle, NoChallenge
<1> QED
  BY <1>1, InvitesInUseStep, SoundAlways, PTL DEF Spec
-----------------------------------------------------------------------------
(* A passkey's account is there, and who may sign in has a passkey.        *)

AsGoodAsEnrolled(u) == u \in Accounts => u \in Enrolled

SignedInAreEnrolled ==
    /\ Enrolled \subseteq Accounts
    /\ \A s \in sessions : AsGoodAsEnrolled(s.uid)
    /\ \A t \in Threads :
          thread[t].pc \in {"enrolled", "signing", "signed"} => AsGoodAsEnrolled(thread[t].uid)

LEMMA PasskeyAdded ==
    ASSUME NEW ch, NEW u, creds' = creds \cup {[ch |-> ch, uid |-> u]}
    PROVE  Enrolled' = Enrolled \cup {u}
<1> DEFINE k == [ch |-> ch, uid |-> u]
<1>1. k.uid = u
  OBVIOUS
<1>2. creds' = creds \cup {k}
  OBVIOUS
<1> QED
  <2> HIDE DEF k
  <2> QED
    BY <1>1, <1>2 DEF Enrolled

LEMMA EnrolledStays ==
    ASSUME Sound, UidsAreMinted, InvitesInUse, Enrolled \subseteq Accounts, [Next]_vars
    PROVE  /\ Enrolled' \subseteq Accounts'
           /\ \A u \in minted : AsGoodAsEnrolled(u) => AsGoodAsEnrolled(u)'
<1>1. ASSUME NEW t \in Threads, Claim(t)
      PROVE  /\ Enrolled' \subseteq Accounts'
             /\ \A u \in minted : AsGoodAsEnrolled(u) => AsGoodAsEnrolled(u)'
  <2>1. CASE UNCHANGED <<users, creds>>
    BY <2>1 DEF Accounts, Enrolled, AsGoodAsEnrolled
  <2>2. CASE ~UNCHANGED <<users, creds>>
    <3>1. PICK u \in Uids : /\ users' = [users EXCEPT ![u] = thread[t].name]
                            /\ creds' = creds \cup {[ch |-> thread[t].ch, uid |-> u]}
      BY <1>1, <2>2, Claimed
    <3>2. thread[t].name # Nobody
      BY <1>1, MembersAssumption DEF Claim, At, Sound, Fit
    <3>3. Accounts' = Accounts \cup {u}
      BY <3>1, <3>2 DEF Accounts, Sound, TypeOK
    <3>4. Enrolled' = Enrolled \cup {u}
      BY <3>1, PasskeyAdded
    <3> QED
      BY <3>3, <3>4 DEF AsGoodAsEnrolled
  <2> QED
    BY <2>1, <2>2
<1>2. ASSUME NEW t \in Threads, AddAccount(t)
      PROVE  /\ Enrolled' \subseteq Accounts'
             /\ \A u \in minted : AsGoodAsEnrolled(u) => AsGoodAsEnrolled(u)'
  <2>1. Enrolled' = Enrolled
    BY <1>2 DEF AddAccount, Enrolled
  <2>2. Accounts' \cap minted \subseteq Accounts
    BY <1>2 DEF AddAccount, Accounts, Sound, TypeOK
  <2> QED
    BY <1>2, <2>1, <2>2, AccountsGrow DEF AsGoodAsEnrolled
<1>3. ASSUME NEW t \in Threads, Redeem(t)
      PROVE  /\ Enrolled' \subseteq Accounts'
             /\ \A u \in minted : AsGoodAsEnrolled(u) => AsGoodAsEnrolled(u)'
  <2>1. Accounts' = Accounts
    BY <1>3 DEF Redeem, Accounts
  <2>2. CASE UNCHANGED creds
    BY <2>1, <2>2 DEF Enrolled, AsGoodAsEnrolled
  <2>3. CASE ~UNCHANGED creds
    <3>1. /\ Row(thread[t].invite)
          /\ creds' = creds \cup {[ch |-> thread[t].ch, uid |-> invites[thread[t].invite].uid]}
      BY <1>3, <2>3, Redeemed
    <3>2. invites[thread[t].invite].uid \in Accounts
      BY <1>3, <3>1 DEF Redeem, At, InvitesInUse, Tied, Issued
    <3>3. Enrolled' = Enrolled \cup {invites[thread[t].invite].uid}
      BY <3>1, PasskeyAdded
    <3> QED
      BY <2>1, <3>2, <3>3 DEF AsGoodAsEnrolled
  <2> QED
    BY <2>2, <2>3
<1>4. ASSUME NEW t \in Threads, Delete(t)
      PROVE  /\ Enrolled' \subseteq Accounts'
             /\ \A u \in minted : AsGoodAsEnrolled(u) => AsGoodAsEnrolled(u)'
  <2>1. PICK gone : Accounts' = Accounts \ gone /\ Enrolled' = Enrolled \ gone
    BY <1>4, Deleted
  <2> QED
    BY <2>1 DEF AsGoodAsEnrolled
<1>5. CASE UNCHANGED <<users, creds>>
  BY <1>5 DEF Accounts, Enrolled, AsGoodAsEnrolled
<1> QED
  BY <1>1, <1>2, <1>3, <1>4, <1>5, UsersWriters, CredWriters

LEMMA SignedInStep ==
    Sound /\ UidsAreMinted /\ InvitesInUse /\ SignedInAreEnrolled /\ [Next]_vars
        => SignedInAreEnrolled'
<1> SUFFICES ASSUME Sound, UidsAreMinted, InvitesInUse, SignedInAreEnrolled, [Next]_vars
             PROVE  SignedInAreEnrolled'
  OBVIOUS
<1>0. \A u \in minted : AsGoodAsEnrolled(u) => AsGoodAsEnrolled(u)'
  BY EnrolledStays DEF SignedInAreEnrolled
<1>1. ASSUME NEW t \in Threads, thread[t].pc \in {"enrolled", "signing", "signed"}
      PROVE  thread[t].uid \in minted /\ AsGoodAsEnrolled(thread[t].uid)
  BY <1>1, MembersAssumption DEF Sound, Fit, UidsAreMinted, RequestsMinted, SignedInAreEnrolled
<1>2. ASSUME NEW s \in sessions'
      PROVE  AsGoodAsEnrolled(s.uid)'
  <2>1. CASE \E r \in sessions : r.uid = s.uid
    BY <1>0, <2>1 DEF UidsAreMinted, TablesMinted, SignedInAreEnrolled
  <2>2. ASSUME NEW t \in Threads, Claim(t), ~\E r \in sessions : r.uid = s.uid
        PROVE  AsGoodAsEnrolled(s.uid)'
    <3>1. ~UNCHANGED sessions
      BY <1>2, <2>2
    <3>2. PICK u \in Uids :
             /\ creds' = creds \cup {[ch |-> thread[t].ch, uid |-> u]}
             /\ sessions' = sessions \cup {[ch |-> thread[t].ch, uid |-> u, good |-> TRUE]}
      BY <2>2, <3>1, Claimed
    <3>3. s.uid = u
      BY <1>2, <2>2, <3>2
    <3>4. u \in Enrolled'
      BY <3>2, PasskeyAdded
    <3> QED
      BY <3>3, <3>4 DEF AsGoodAsEnrolled
  <2>3. ASSUME NEW t \in Threads, RegisterSession(t) \/ LoginSession(t),
               ~\E r \in sessions : r.uid = s.uid
        PROVE  AsGoodAsEnrolled(s.uid)'
    <3>1. sessions' = sessions \cup {[ch |-> thread[t].ch, uid |-> thread[t].uid, good |-> TRUE]}
      BY <2>3 DEF RegisterSession, LoginSession, StartSession
    <3>2. s.uid = thread[t].uid
      BY <1>2, <2>3, <3>1
    <3>3. thread[t].pc \in {"enrolled", "signed"}
      BY <2>3 DEF RegisterSession, LoginSession, At
    <3> QED
      BY <1>0, <1>1, <3>2, <3>3
  <2>4. ASSUME NEW t \in Threads, Delete(t)
        PROVE  \E r \in sessions : r.uid = s.uid
    BY <1>2, <2>4, Deleted
  <2> QED
    BY <1>2, <2>1, <2>2, <2>3, <2>4, SessionWriters, SignedOutKeeps
<1>3. ASSUME NEW t \in Threads, thread'[t].pc \in {"enrolled", "signing", "signed"},
             thread'[t] = thread[t] \/ Outcome(t)
      PROVE  AsGoodAsEnrolled(thread[t].uid)'
  <2>1. CASE thread'[t] = thread[t]
    <3>1. AsGoodAsEnrolled(thread[t].uid) /\ thread[t].uid \in minted /\ thread'[t].uid = thread[t].uid
      BY <1>1, <1>3, <2>1
    <3> QED
      BY <1>0, <3>1 DEF AsGoodAsEnrolled
  <2>2. CASE thread'[t].pc = "enrolled" /\ Outcome(t)
    <3>1. Redeem(t) /\ ~Done(t) /\ thread'[t].uid = thread[t].uid
      BY <2>2 DEF Outcome, KeepsAccount
    <3>2. /\ Row(thread[t].invite)
          /\ creds' = creds \cup {[ch |-> thread[t].ch, uid |-> invites[thread[t].invite].uid]}
      BY <3>1, Redeemed
    <3>3. thread[t].uid = invites[thread[t].invite].uid
      BY <3>1, <3>2 DEF Redeem, At, InvitesInUse, Tied
    <3>4. thread[t].uid \in Enrolled'
      BY <3>2, <3>3, PasskeyAdded
    <3> QED
      BY <3>1, <3>4 DEF AsGoodAsEnrolled
  <2>3. CASE thread'[t].pc = "signing" /\ Outcome(t)
    <3>1. PICK k \in creds : thread'[t].uid = k.uid
      BY <2>3 DEF Outcome
    <3>2. k.uid \in minted /\ AsGoodAsEnrolled(k.uid)
      BY DEF UidsAreMinted, TablesMinted, Enrolled, AsGoodAsEnrolled
    <3> QED
      BY <1>0, <3>1, <3>2 DEF AsGoodAsEnrolled
  <2>4. CASE thread'[t].pc = "signed" /\ Outcome(t)
    <3>1. thread[t].pc = "signing" /\ thread'[t].uid = thread[t].uid
      BY <2>4 DEF Outcome, KeepsAccount, At
    <3> QED
      BY <1>0, <1>1, <3>1 DEF AsGoodAsEnrolled
  <2> QED
    BY <1>3, <2>1, <2>2, <2>3, <2>4
<1>4. \A t \in Threads : thread'[t] = thread[t] \/ Outcome(t)
  BY NextProgress DEF Progress
<1>5. Enrolled' \subseteq Accounts'
  BY EnrolledStays DEF SignedInAreEnrolled
<1>6. (\A s \in sessions : AsGoodAsEnrolled(s.uid))'
  BY <1>2
<1>7. (\A t \in Threads :
          thread[t].pc \in {"enrolled", "signing", "signed"} => AsGoodAsEnrolled(thread[t].uid))'
  BY <1>3, <1>4
<1> QED
  BY <1>5, <1>6, <1>7 DEF SignedInAreEnrolled

LEMMA SignedInAlways == Spec => []SignedInAreEnrolled
<1>1. Init => SignedInAreEnrolled
  BY DEF Init, SignedInAreEnrolled, Enrolled, Idle
<1> QED
  BY <1>1, SignedInStep, SoundAlways, MintedAlways, InvitesInUseAlways, PTL DEF Spec

(***************************************************************************)
(* A good session of an account implies a passkey, though an account may   *)
(* be removed, and its name invited anew, between any two lock holds of a  *)
(* registration or a sign-in (routes/authn.py:363).                        *)
(***************************************************************************)
THEOREM SessionsHavePasskeys == Spec => []SessionMeansPasskey
<1>1. SignedInAreEnrolled => SessionMeansPasskey
  BY DEF SignedInAreEnrolled, SessionMeansPasskey, Member, AsGoodAsEnrolled
<1> QED
  BY <1>1, SignedInAlways, PTL
-----------------------------------------------------------------------------
(* Somebody can sign in.                                                   *)

SomebodyCanSignIn ==
    /\ claims.taken > 0 \/ (\E v \in Invites : enrolments[v] > 0) => Enrolled # {}
    /\ spent = 0 /\ (Accounts # {} \/ \E t \in Threads : At(t, "new")) => Enrolled # {}
    /\ (\E t \in Threads : At(t, "remove")) => Enrolled # {}

(* The last enrolled member cannot be removed, and of two that remove each *)
(* other one is the last when the second removal takes the lock.           *)
LEMMA EnrolledNeverEmpties ==
    ASSUME Sound, OneAccountPerName, [Next]_vars, Enrolled # {}
    PROVE  Enrolled' # {}
<1>1. ASSUME NEW t \in Threads, Claim(t), ~UNCHANGED creds
      PROVE  Enrolled' # {}
  BY <1>1, Claimed, PasskeyAdded
<1>2. ASSUME NEW t \in Threads, Redeem(t), ~UNCHANGED creds
      PROVE  Enrolled' # {}
  BY <1>2, Redeemed, PasskeyAdded
<1>3. ASSUME NEW t \in Threads, Delete(t)
      PROVE  Enrolled' # {}
  <2>1. PICK gone \in SUBSET Accounts :
          /\ gone = {u \in AccountOf(thread[t].name) : ~LastEnrolled(u)}
          /\ Enrolled' = Enrolled \ gone
    BY <1>3, Deleted
  <2>2. \A u, w \in gone : u = w
    BY <2>1 DEF AccountOf, OneAccountPerName
  <2>3. \A u \in gone : Enrolled # {u}
    BY <2>1 DEF LastEnrolled
  <2> QED
    BY <2>1, <2>2, <2>3
<1>4. CASE UNCHANGED creds
  BY <1>4 DEF Enrolled
<1> QED
  BY <1>1, <1>2, <1>3, <1>4, CredWriters

LEMMA EnrolmentsWriters ==
    ASSUME Sound, [Next]_vars
    PROVE  \/ UNCHANGED enrolments
           \/ \E t \in Threads : Redeem(t) /\ ~UNCHANGED enrolments
BY InviteWriters DEF CreateInvite, Delete, ExpireInvite, history

LEMMA ClaimsWriters ==
    ASSUME [Next]_vars
    PROVE  \/ UNCHANGED claims
           \/ \E t \in Threads : Claim(t)
           \/ Reopen
<1>1. ASSUME NEW t \in Threads, Serve(t), ~Claim(t)
      PROVE  UNCHANGED claims
  BY <1>1 DEF Serve, BootstrapVerify, RegisterVerify, LoginVerify, BootstrapConsume, ReadReopen,
      LookUp, SeePasskeys, RemoveMember, AddAccount, CreateInvite, RegisterConsume, Redeem,
      RegisterSession, LoginConsume, LoginSession, Delete, RecoverInvite, Abandon, Consume,
      StartSession, history
<1>2. ASSUME \/ \E c \in Challenges : Browse(c) \/ ExpireChallenge(c)
             \/ \E s \in sessions : EndSession(s)
             \/ \E v \in Invites : ExpireInvite(v)
             \/ CancelReset \/ RevokeAll
             \/ UNCHANGED vars
      PROVE  UNCHANGED claims
  BY <1>2 DEF Browse, BootstrapOptions, LoginOptions, RegisterOptions, Issue, ExpireChallenge,
      EndSession, ExpireInvite, CancelReset, RevokeAll, vars, history
<1> QED
  BY <1>1, <1>2 DEF Next

LEMMA SpentGrows ==
    ASSUME Sound, [Next]_vars
    PROVE  (spent' = 0 => spent = 0) /\ (Operator => spent' # 0)
<1>1. ASSUME Operator
      PROVE  spent' # 0
  <2>1. spent \in Nat /\ spent' = spent + 1
    BY <1>1 DEF Operator, Sound, TypeOK
  <2> QED
    BY <2>1
<1>2. ASSUME NEW t \in Threads, Serve(t), ~Operator
      PROVE  UNCHANGED spent
  BY <1>2 DEF Serve, BootstrapVerify, RegisterVerify, LoginVerify, BootstrapConsume, ReadReopen,
      Claim, LookUp, SeePasskeys, RemoveMember, AddAccount, CreateInvite, RegisterConsume, Redeem,
      RegisterSession, LoginConsume, LoginSession, Delete, RecoverInvite, Abandon, Consume,
      StartSession
<1>3. ASSUME \/ \E c \in Challenges : Browse(c) \/ ExpireChallenge(c)
             \/ \E s \in sessions : EndSession(s)
             \/ \E v \in Invites : ExpireInvite(v)
             \/ UNCHANGED vars
      PROVE  UNCHANGED spent
  BY <1>3 DEF Browse, BootstrapOptions, LoginOptions, RegisterOptions, Issue, ExpireChallenge,
      EndSession, ExpireInvite, vars
<1>4. ASSUME Reopen \/ CancelReset \/ RevokeAll
      PROVE  Operator
  BY <1>4 DEF Reopen, CancelReset, RevokeAll
<1> QED
  BY <1>1, <1>2, <1>3, <1>4 DEF Next

LEMMA MembersAreEnrolled ==
    ASSUME SignedInAreEnrolled, NEW u \in Uids, Member(u)
    PROVE  Enrolled # {}
BY DEF SignedInAreEnrolled, Member, AsGoodAsEnrolled

LEMMA SomebodyStep ==
    Sound /\ OneAccountPerName /\ SignedInAreEnrolled /\ SomebodyCanSignIn /\ [Next]_vars
        => SomebodyCanSignIn'
<1> SUFFICES ASSUME Sound, OneAccountPerName, SignedInAreEnrolled, SomebodyCanSignIn,
                    [Next]_vars, Enrolled' = {}
             PROVE  /\ ~(claims'.taken > 0) /\ \A v \in Invites : ~(enrolments'[v] > 0)
                    /\ spent' = 0 => Accounts' = {} /\ \A t \in Threads : ~At(t, "new")'
                    /\ \A t \in Threads : ~At(t, "remove")'
  BY DEF SomebodyCanSignIn
<1>0. Enrolled = {} /\ \A u \in Uids : ~Member(u)
  BY EnrolledNeverEmpties, MembersAreEnrolled
<1>1. ASSUME NEW t \in Threads, Claim(t)
      PROVE  UNCHANGED <<claims, users>>
  BY <1>1, Claimed, PasskeyAdded
<1>2. ASSUME NEW t \in Threads, Redeem(t)
      PROVE  UNCHANGED enrolments
  BY <1>2, Redeemed, PasskeyAdded
<1>3. ~(claims'.taken > 0)
  <2>1. claims'.taken = claims.taken
    BY <1>1, ClaimsWriters DEF Reopen, Sound, TypeOK
  <2> QED
    BY <1>0, <2>1 DEF SomebodyCanSignIn
<1>4. \A v \in Invites : ~(enrolments'[v] > 0)
  BY <1>0, <1>2, EnrolmentsWriters DEF SomebodyCanSignIn
<1>5. ASSUME NEW t \in Threads, thread'[t].pc \in {"new", "remove"}
      PROVE  (thread'[t] = thread[t]) \/ (Operator /\ thread'[t].pc = "new")
  <2>1. thread'[t] = thread[t] \/ Outcome(t)
    BY NextProgress DEF Progress
  <2> QED
    BY <1>0, <1>5, <2>1 DEF Outcome
<1>6. \A t \in Threads : ~At(t, "remove")'
  BY <1>0, <1>5 DEF SomebodyCanSignIn, At
<1>7. ASSUME spent' = 0
      PROVE  \A t \in Threads : ~At(t, "new")'
  BY <1>0, <1>5, <1>7, SpentGrows DEF SomebodyCanSignIn, At
<1>8. ASSUME spent' = 0
      PROVE  Accounts' = {}
  <2>1. Accounts = {} /\ \A t \in Threads : ~At(t, "new")
    BY <1>0, <1>8, SpentGrows DEF SomebodyCanSignIn
  <2>2. \A t \in Threads : ~AddAccount(t)
    BY <2>1 DEF AddAccount
  <2>3. ASSUME NEW t \in Threads, Delete(t)
        PROVE  Accounts' = {}
    BY <2>1, <2>3, Deleted
  <2> QED
    BY <1>1, <2>1, <2>2, <2>3, UsersWriters DEF Accounts
<1> QED
  BY <1>3, <1>4, <1>6, <1>7, <1>8

LEMMA SomebodyAlways == Spec => []SomebodyCanSignIn
<1>1. Init => SomebodyCanSignIn
  BY DEF Init, SomebodyCanSignIn, Accounts, At, Idle
<1> QED
  BY <1>1, SomebodyStep, SoundAlways, NamesAreUnique, SignedInAlways, PTL DEF Spec

(***************************************************************************)
(* However many claims, invitations and removals overlap, and whatever     *)
(* requests end half-way, a household in which anyone has enrolled keeps   *)
(* somebody who can sign in, and one that nobody operated on never has     *)
(* accounts and no passkey (auth_repo.py:308-313 and 421-460).             *)
(***************************************************************************)
THEOREM HouseholdIsNeverLockedOut == Spec => []NeverLockedOut
<1>1. SomebodyCanSignIn => NeverLockedOut
  BY DEF SomebodyCanSignIn, NeverLockedOut
<1> QED
  BY <1>1, SomebodyAlways, PTL
-----------------------------------------------------------------------------
(* Chances to claim the household, and claims.                             *)

One(b) == IF b THEN 1 ELSE 0

(* A chance is taken, is open as the operator's flag or is open because    *)
(* the household has no account yet.                                       *)
ClaimsLeft == claims.taken + One(reopened) + One(Accounts = {}) <= claims.granted

LEMMA AccountsNeverEmpty ==
    ASSUME Sound, OneAccountPerName, SignedInAreEnrolled, SignedInAreEnrolled', SomebodyCanSignIn,
           [Next]_vars, Accounts # {}
    PROVE  Accounts' # {}
<1>1. ASSUME NEW t \in Threads, Delete(t)
      PROVE  Accounts' # {}
  <2>1. Enrolled # {}
    BY <1>1 DEF Delete, SomebodyCanSignIn
  <2> QED
    BY <2>1, EnrolledNeverEmpties DEF SignedInAreEnrolled
<1>2. CASE UNCHANGED users
  BY <1>2 DEF Accounts
<1> QED
  BY <1>1, <1>2, UsersWriters, AccountsGrow

LEMMA ReopenedWriters ==
    ASSUME [Next]_vars
    PROVE  UNCHANGED reopened \/ (\E t \in Threads : Claim(t)) \/ Reopen \/ CancelReset
<1>1. ASSUME NEW t \in Threads, Serve(t), ~Claim(t)
      PROVE  UNCHANGED reopened
  BY <1>1 DEF Serve, BootstrapVerify, RegisterVerify, LoginVerify, BootstrapConsume, ReadReopen,
      LookUp, SeePasskeys, RemoveMember, AddAccount, CreateInvite, RegisterConsume, Redeem,
      RegisterSession, LoginConsume, LoginSession, Delete, RecoverInvite, Abandon, Consume,
      StartSession, tables
<1>2. ASSUME \/ \E c \in Challenges : Browse(c) \/ ExpireChallenge(c)
             \/ \E s \in sessions : EndSession(s)
             \/ \E v \in Invites : ExpireInvite(v)
             \/ RevokeAll
             \/ UNCHANGED vars
      PROVE  UNCHANGED reopened
  BY <1>2 DEF Browse, BootstrapOptions, LoginOptions, RegisterOptions, Issue, ExpireChallenge,
      EndSession, ExpireInvite, RevokeAll, vars, tables
<1> QED
  BY <1>1, <1>2 DEF Next

LEMMA ClaimsStep ==
    Sound /\ OneAccountPerName /\ SignedInAreEnrolled /\ SignedInAreEnrolled' /\ SomebodyCanSignIn
      /\ ClaimsLeft /\ [Next]_vars => ClaimsLeft'
<1> SUFFICES ASSUME Sound, OneAccountPerName, SignedInAreEnrolled, SignedInAreEnrolled',
                    SomebodyCanSignIn, ClaimsLeft, [Next]_vars
             PROVE  ClaimsLeft'
  OBVIOUS
<1>0. /\ claims.taken \in Nat /\ claims.granted \in Nat
      /\ claims.taken + One(reopened) + One(Accounts = {}) <= claims.granted
  BY DEF Sound, TypeOK, ClaimsLeft
<1>1. One(Accounts' = {}) <= One(Accounts = {})
  BY AccountsNeverEmpty DEF One
<1>2. ASSUME NEW t \in Threads, Claim(t), ~UNCHANGED <<users, minted, creds, sessions, reopened, claims>>
      PROVE  ClaimsLeft'
  <2>1. PICK u \in Uids :
          /\ users' = [users EXCEPT ![u] = thread[t].name]
          /\ reopened' = (reopened /\ ~thread[t].reopen)
          /\ claims' = [claims EXCEPT !.taken = @ + 1]
          /\ MayClaim(thread[t].reopen)
    BY <1>2, Claimed
  <2>2. claims'.taken = claims.taken + 1 /\ claims'.granted = claims.granted
    BY <2>1 DEF Sound, TypeOK
  <2>3. Accounts' # {}
    <3>1. thread[t].name # Nobody
      BY <1>2, MembersAssumption DEF Claim, At, Sound, Fit
    <3> QED
      BY <2>1, <3>1 DEF Accounts, Sound, TypeOK
  <2>4. CASE thread[t].reopen
    <3>1. reopened /\ ~reopened'
      BY <2>1, <2>4 DEF MayClaim
    <3> QED
      BY <1>0, <2>2, <2>3, <3>1 DEF ClaimsLeft, One
  <2>5. CASE ~thread[t].reopen
    <3>1. Accounts = {} /\ reopened' = reopened
      BY <2>1, <2>5 DEF MayClaim, Sound, TypeOK
    <3> QED
      BY <1>0, <2>2, <2>3, <3>1 DEF ClaimsLeft, One
  <2> QED
    BY <2>4, <2>5
<1>3. CASE Reopen
  <2>1. reopened' /\ Accounts' = Accounts
    BY <1>3 DEF Reopen, Accounts
  <2>2. CASE reopened
    <3>1. claims' = claims
      BY <1>3, <2>2 DEF Reopen
    <3> QED
      BY <1>0, <2>1, <2>2, <3>1 DEF ClaimsLeft, One
  <2>3. CASE ~reopened
    <3>1. claims' = [claims EXCEPT !.granted = @ + 1]
      BY <1>3, <2>3 DEF Reopen
    <3>2. claims'.taken = claims.taken /\ claims'.granted = claims.granted + 1
      BY <3>1 DEF Sound, TypeOK
    <3> QED
      BY <1>0, <2>1, <2>3, <3>2 DEF ClaimsLeft, One
  <2> QED
    BY <2>2, <2>3
<1>4. CASE UNCHANGED claims /\ (reopened' => reopened)
  BY <1>0, <1>1, <1>4 DEF ClaimsLeft, One
<1>5. CancelReset => ~reopened'
  BY DEF CancelReset
<1> QED
  BY <1>2, <1>3, <1>4, <1>5, ClaimsWriters, ReopenedWriters

LEMMA ClaimsAlways == Spec => []ClaimsLeft
<1>1. Init => ClaimsLeft
  BY DEF Init, ClaimsLeft, One, Accounts
<1> QED
  BY <1>1, ClaimsStep, SoundAlways, NamesAreUnique, SignedInAlways, SomebodyAlways, PTL DEF Spec

(***************************************************************************)
(* The household is claimed once when it is new and once each time the     *)
(* operator reopens it, however many claims raced past the guard before    *)
(* the lock (auth_repo.py 299-307, 329-345).                               *)
(***************************************************************************)
THEOREM OneClaimForEachGrant == Spec => []ClaimedOncePerGrant
<1>1. Sound /\ ClaimsLeft => ClaimedOncePerGrant
  BY DEF Sound, TypeOK, ClaimsLeft, ClaimedOncePerGrant, One
<1> QED
  BY <1>1, SoundAlways, ClaimsAlways, PTL
-----------------------------------------------------------------------------
(* Challenges: one passkey each.                                           *)

(* A challenge nobody has answered; a request that has used one up and has *)
(* not written its passkey; a passkey it made.                             *)
Unanswered(c) == challenges[c].fresh \/ challenges[c] = NoChallenge
Holds(t, c) == thread[t].pc \in {"verified", "claim", "redeem"} /\ thread[t].ch = c
Made(c) == \E k \in creds : k.ch = c

PasskeysApart ==
    /\ \A c \in Challenges : Unanswered(c) => ~Made(c) /\ \A t \in Threads : ~Holds(t, c)
    /\ \A c \in Challenges, t, w \in Threads : Holds(t, c) /\ Holds(w, c) => t = w
    /\ \A c \in Challenges, t \in Threads : Holds(t, c) => ~Made(c)
    /\ ChallengeEnrolsOnce

LEMMA UnansweredBefore ==
    ASSUME Sound, [Next]_vars, NEW c \in Challenges, Unanswered(c)'
    PROVE  Unanswered(c)
<1>0. ASSUME challenges'[c] = [challenges[c] EXCEPT !.fresh = FALSE]
      PROVE  Unanswered(c)
  BY <1>0 DEF Unanswered, NoChallenge, Sound, TypeOK, Challenge
<1>1. ASSUME NEW d \in Challenges, Browse(d)
      PROVE  Unanswered(c)
  BY <1>1 DEF Browse, BootstrapOptions, LoginOptions, RegisterOptions, Issue, Unanswered, Sound,
     TypeOK
<1>2. ASSUME NEW t \in Threads, Serve(t)
      PROVE  Unanswered(c)
  <2>1. CASE Redeem(t)
    <3>1. challenges'[c] = challenges[c] \/ challenges'[c] = [challenges[c] EXCEPT !.fresh = FALSE]
      BY <2>1, Redeemed
    <3> QED
      BY <1>0, <3>1 DEF Unanswered
  <2>2. CASE ~Redeem(t)
    <3>1. UNCHANGED challenges \/ challenges' = [challenges EXCEPT ![thread[t].ch].fresh = FALSE]
      BY <1>2, <2>2 DEF Serve, BootstrapVerify, RegisterVerify, LoginVerify, BootstrapConsume,
         ReadReopen, Claim, LookUp, SeePasskeys, RemoveMember, AddAccount, CreateInvite,
         RegisterConsume, RegisterSession, LoginConsume, LoginSession, Delete, RecoverInvite,
         Abandon, Consume, StartSession, tables
    <3>2. challenges'[c] = challenges[c] \/ challenges'[c] = [challenges[c] EXCEPT !.fresh = FALSE]
      BY <3>1 DEF Sound, TypeOK
    <3> QED
      BY <1>0, <3>2 DEF Unanswered
  <2> QED
    BY <2>1, <2>2
<1>3. ASSUME NEW d \in Challenges, ExpireChallenge(d)
      PROVE  Unanswered(c)
  <2>1. challenges'[c] = challenges[c] \/ challenges'[c] = [challenges[c] EXCEPT !.fresh = FALSE]
    BY <1>3 DEF ExpireChallenge, Sound, TypeOK
  <2> QED
    BY <1>0, <2>1 DEF Unanswered
<1>4. CASE UNCHANGED challenges
  BY <1>4 DEF Unanswered
<1> QED
  BY <1>1, <1>2, <1>3, <1>4 DEF Next, EndSession, ExpireInvite, Reopen, CancelReset, RevokeAll,
     vars, tables

LEMMA HoldsBefore ==
    ASSUME Sound, NEW t \in Threads, NEW c \in Challenges,
           thread'[t] = thread[t] \/ Outcome(t), Holds(t, c)'
    PROVE  Holds(t, c) \/ (Unanswered(c) /\ ~Unanswered(c)')
<1>1. CASE thread'[t] = thread[t]
  BY <1>1 DEF Holds
<1>2. CASE Spends(t)
  <2>1. thread[t].ch = c
    BY <1>2 DEF Spends, Holds
  <2>2. challenges[c].fresh /\ challenges[c].purpose # "none"
    BY <1>2, <2>1 DEF Spends
  <2>3. ~challenges'[c].fresh /\ challenges'[c].purpose # "none"
    BY <1>2, <2>1, <2>2 DEF Spends, Sound, TypeOK, Challenge
  <2> QED
    BY <2>2, <2>3 DEF Unanswered, NoChallenge
<1>3. CASE At(t, "verified") /\ thread'[t].ch = thread[t].ch
  BY <1>3 DEF At, Holds
<1> QED
  BY <1>1, <1>2, <1>3 DEF Outcome, Holds

LEMMA MadeBefore ==
    ASSUME Sound, [Next]_vars
    PROVE  \/ creds' \subseteq creds
           \/ \E t \in Threads, c \in Challenges, u \in Uids :
                 /\ Holds(t, c) /\ ~Holds(t, c)'
                 /\ creds' = creds \cup {[ch |-> c, uid |-> u]}
                 /\ \A w \in Threads \ {t} : thread'[w] = thread[w]
<1>1. ASSUME NEW t \in Threads, Claim(t), ~UNCHANGED creds
      PROVE  \E c \in Challenges, u \in Uids :
                 /\ Holds(t, c) /\ ~Holds(t, c)'
                 /\ creds' = creds \cup {[ch |-> c, uid |-> u]}
                 /\ \A w \in Threads \ {t} : thread'[w] = thread[w]
  <2>1. PICK u \in Uids : creds' = creds \cup {[ch |-> thread[t].ch, uid |-> u]}
    BY <1>1, Claimed
  <2>2. thread[t].ch \in Challenges /\ Holds(t, thread[t].ch)
    BY <1>1 DEF Claim, At, Holds, Sound, Fit
  <2>3. thread'[t] = Idle /\ \A w \in Threads \ {t} : thread'[w] = thread[w]
    BY <1>1, Ended DEF Claim
  <2> QED
    BY <2>1, <2>2, <2>3 DEF Holds, Idle
<1>2. ASSUME NEW t \in Threads, Redeem(t), ~UNCHANGED creds
      PROVE  \E c \in Challenges, u \in Uids :
                 /\ Holds(t, c) /\ ~Holds(t, c)'
                 /\ creds' = creds \cup {[ch |-> c, uid |-> u]}
                 /\ \A w \in Threads \ {t} : thread'[w] = thread[w]
  <2> DEFINE u == invites[thread[t].invite].uid
  <2>1. creds' = creds \cup {[ch |-> thread[t].ch, uid |-> u]} /\ Step(t, "enrolled")
    BY <1>2, Redeemed
  <2>2. u \in Uids
    BY <1>2, Redeemed DEF Row, Sound, TypeOK, Invite
  <2>3. thread[t].ch \in Challenges /\ Holds(t, thread[t].ch)
    BY <1>2 DEF Redeem, At, Holds, Sound, Fit
  <2>4. thread'[t].pc = "enrolled" /\ \A w \in Threads \ {t} : thread'[w] = thread[w]
    BY <2>1, Stepped
  <2> QED
    BY <2>1, <2>2, <2>3, <2>4 DEF Holds
<1>3. ASSUME NEW t \in Threads, Delete(t)
      PROVE  creds' \subseteq creds
  BY <1>3, Deleted
<1> QED
  BY <1>1, <1>2, <1>3, CredWriters

LEMMA PasskeysApartStep == Sound /\ PasskeysApart /\ [Next]_vars => PasskeysApart'
<1> SUFFICES ASSUME Sound, PasskeysApart, [Next]_vars
             PROVE  PasskeysApart'
  OBVIOUS
<1>1. \A t \in Threads, c \in Challenges :
         Holds(t, c)' => Holds(t, c) \/ (Unanswered(c) /\ ~Unanswered(c)')
  BY HoldsBefore, NextProgress DEF Progress
<1>2. ASSUME NEW c \in Challenges, Made(c)'
      PROVE  Made(c) \/ \E t \in Threads : /\ Holds(t, c) /\ ~Holds(t, c)'
                                          /\ \A w \in Threads \ {t} : thread'[w] = thread[w]
  BY <1>2, MadeBefore DEF Made
<1>3. ASSUME NEW c \in Challenges, Unanswered(c)'
      PROVE  ~Made(c)' /\ \A t \in Threads : ~Holds(t, c)'
  BY <1>1, <1>2, <1>3, UnansweredBefore DEF PasskeysApart
<1>4. ASSUME NEW c \in Challenges, NEW t \in Threads, NEW w \in Threads,
             Holds(t, c)', Holds(w, c)', t # w
      PROVE  FALSE
  <2>1. thread'[t] = thread[t] \/ thread'[w] = thread[w]
    BY <1>4, NextProgress DEF Progress
  <2>2. Holds(t, c) \/ Holds(w, c)
    BY <1>4, <2>1 DEF Holds
  <2>3. ~Unanswered(c)
    BY <2>2 DEF PasskeysApart
  <2> QED
    BY <1>1, <1>4, <2>3 DEF PasskeysApart
<1>5. ASSUME NEW c \in Challenges, NEW t \in Threads, Holds(t, c)', Made(c)'
      PROVE  FALSE
  <2>1. CASE Made(c)
    BY <1>1, <1>5, <2>1 DEF PasskeysApart
  <2>2. ASSUME NEW w \in Threads, Holds(w, c), ~Holds(w, c)'
        PROVE  FALSE
    BY <1>1, <1>5, <2>2 DEF PasskeysApart
  <2> QED
    BY <1>2, <1>5, <2>1, <2>2
<1>6. ChallengeEnrolsOnce'
  <2>1. CASE creds' \subseteq creds
    BY <2>1 DEF PasskeysApart, ChallengeEnrolsOnce
  <2>2. ASSUME NEW t \in Threads, NEW c \in Challenges, NEW u \in Uids, Holds(t, c),
               creds' = creds \cup {[ch |-> c, uid |-> u]}
        PROVE  ChallengeEnrolsOnce'
    <3>1. \A k \in creds : k.ch # c
      BY <2>2 DEF PasskeysApart, Made
    <3> QED
      BY <2>2, <3>1 DEF PasskeysApart, ChallengeEnrolsOnce
  <2> QED
    BY <2>1, <2>2, MadeBefore
<1> QED
  BY <1>3, <1>4, <1>5, <1>6 DEF PasskeysApart

(***************************************************************************)
(* A challenge makes one passkey at most, answered twice, late or from two *)
(* tabs (auth_repo.py:539-560).                                            *)
(***************************************************************************)
THEOREM ChallengesMakeOnePasskey == Spec => []ChallengeEnrolsOnce
<1>1. Init => PasskeysApart
  BY DEF Init, PasskeysApart, Made, Holds, Idle, ChallengeEnrolsOnce
<1>2. PasskeysApart => ChallengeEnrolsOnce
  BY DEF PasskeysApart
<1> QED
  BY <1>1, <1>2, PasskeysApartStep, SoundAlways, PTL DEF Spec
=============================================================================
