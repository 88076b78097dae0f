------------------------------ MODULE Members -------------------------------
(***************************************************************************)
(* The household's roster: accounts, passkeys, sessions, invites and       *)
(* challenges (auth_repo.py), the ceremonies that change them              *)
(* (routes/authn.py) and the operator's recovery commands (doctor.py).     *)
(*                                                                         *)
(* A request is several commits with nothing held between them; each       *)
(* action is one holding of the repository's lock, and a request may end   *)
(* between any two.  Browsers are honest: a ceremony is answered with its  *)
(* own challenge and invite, though it may be answered twice, late, or     *)
(* from two tabs.  A passkey and a session are named by the challenge of   *)
(* the ceremony that made them.                                            *)
(***************************************************************************)
EXTENDS Integers

CONSTANTS
    Names,          \* names of members
    Uids,           \* ids of accounts
    Invites,        \* invite tokens
    Challenges,     \* challenges of ceremonies
    Threads,        \* request threads
    MaxOperator,    \* bound on the operator's commands
    Nobody          \* not a uid, an invite, a challenge or a name

ASSUME MembersAssumption ==
    /\ Nobody \notin Uids \cup Invites \cup Challenges \cup Names
    /\ MaxOperator \in Nat

VARIABLES
    users,      \* users[u]: the name of account u, or Nobody
    creds,      \* the passkeys: the ceremony each was made in and its account
    sessions,   \* the sessions: likewise, and whether each is still good
    invites,    \* invites[v]: its account and whether it is spent and expired
    challenges, \* challenges[c]: what it was issued for and whether it is fresh
    reopened,   \* the operator's flag
    thread,     \* what each thread is serving
    spent,      \* the operator's commands so far
    \* history
    minted,     \* accounts ever made
    claims,     \* [granted, taken]: chances to claim the household, and claims
    enrolments  \* enrolments[v]: passkeys enrolled by invite v

tables == <<users, creds, sessions, invites, challenges, reopened>>
history == <<minted, claims, enrolments>>
vars == <<tables, thread, spent, history>>
-----------------------------------------------------------------------------
Accounts == {u \in Uids : users[u] # Nobody}
AccountOf(name) == {u \in Accounts : users[u] = name}
Enrolled == {c.uid : c \in creds}
Member(u) == u \in Accounts /\ \E s \in sessions : s.uid = u /\ s.good

(* A token not drawn, and one whose row is deleted: none is drawn twice.   *)
NoInvite == [uid |-> Nobody, used |-> FALSE, expired |-> FALSE]
DeletedInvite == [NoInvite EXCEPT !.used = TRUE]
NoChallenge == [purpose |-> "none", invite |-> Nobody, fresh |-> FALSE]
Idle == [pc |-> "idle", ch |-> Nobody, name |-> Nobody, uid |-> Nobody, invite |-> Nobody,
         reopen |-> FALSE]

At(t, pc) == thread[t].pc = pc
Goto(t, state) == thread' = [thread EXCEPT ![t] = state]
Step(t, pc) == Goto(t, [thread[t] EXCEPT !.pc = pc])
Done(t) == Goto(t, Idle)
-----------------------------------------------------------------------------
(* Challenges.                                                             *)

Issue(c, purpose, invite) ==
    /\ challenges[c] = NoChallenge
    /\ challenges' = [challenges EXCEPT ![c] =
                        [purpose |-> purpose, invite |-> invite, fresh |-> TRUE]]
    /\ UNCHANGED <<users, creds, sessions, invites, reopened, thread, spent, history>>

(* Mutant: a used challenge stays good.                                    *)
ConsumeAgain(t, purpose, next) ==
    /\ IF challenges[thread[t].ch].purpose = purpose /\ challenges[thread[t].ch].fresh
       THEN Step(t, next) ELSE Done(t)
    /\ UNCHANGED <<tables, spent, history>>
(* consume_challenge: once, and only for its purpose.                      *)
Consume(t, purpose, next) ==
    /\ IF challenges[thread[t].ch].purpose = purpose /\ challenges[thread[t].ch].fresh
       THEN /\ challenges' = [challenges EXCEPT ![thread[t].ch].fresh = FALSE]
            /\ Step(t, next)
       ELSE Done(t) /\ UNCHANGED challenges
    /\ UNCHANGED <<users, creds, sessions, invites, reopened, spent, history>>

StartSession(t, uid) ==
    /\ sessions' = sessions \cup {[ch |-> thread[t].ch, uid |-> uid, good |-> TRUE]}
    /\ Done(t)
    /\ UNCHANGED <<users, creds, invites, challenges, reopened, spent, history>>
-----------------------------------------------------------------------------
(* The first account.                                                      *)

Claimable == Accounts = {} \/ reopened

BootstrapOptions(c) == Claimable /\ Issue(c, "bootstrap", Nobody)

BootstrapVerify(t, c, name) ==
    /\ At(t, "idle") /\ challenges[c].purpose = "bootstrap"
    /\ Claimable
    /\ Goto(t, [Idle EXCEPT !.pc = "claiming", !.ch = c, !.name = name])
    /\ UNCHANGED <<tables, spent, history>>

BootstrapConsume(t) == At(t, "claiming") /\ Consume(t, "bootstrap", "verified")

ReadReopen(t) ==
    /\ At(t, "verified")
    /\ Goto(t, [thread[t] EXCEPT !.pc = "claim", !.reopen = reopened])
    /\ UNCHANGED <<tables, spent, history>>

(* Mutant: the guard before the lock is trusted.                           *)
MayClaimOnGuard(reopen) == TRUE
MayClaim(reopen) == IF reopen THEN reopened ELSE Accounts = {}

(* claim_first_user: account, passkey and session in one commit, the flag  *)
(* cleared with them.                                                      *)
Claim(t) ==
    /\ At(t, "claim")
    /\ LET th == thread[t]
           old == IF th.reopen THEN AccountOf(th.name) ELSE {}
       IN IF MayClaim(th.reopen)
          THEN \E u \in IF old # {} THEN old ELSE Uids \ minted :
                 /\ users' = [users EXCEPT ![u] = th.name]
                 /\ minted' = minted \cup {u}
                 /\ creds' = creds \cup {[ch |-> th.ch, uid |-> u]}
                 /\ sessions' = sessions \cup {[ch |-> th.ch, uid |-> u, good |-> TRUE]}
                 /\ reopened' = (reopened /\ ~th.reopen)
                 /\ claims' = [claims EXCEPT !.taken = @ + 1]
          ELSE UNCHANGED <<users, minted, creds, sessions, reopened, claims>>
    /\ Done(t)
    /\ UNCHANGED <<invites, challenges, spent, enrolments>>
-----------------------------------------------------------------------------
(* Inviting and enrolling.                                                 *)

(* create_invite: look the name up, make the account or see whether it has *)
(* a passkey, mint the link.                                               *)
LookUp(t, name) ==
    /\ At(t, "idle")
    /\ \E u \in Uids : Member(u)
    /\ IF AccountOf(name) = {}
       THEN Goto(t, [Idle EXCEPT !.pc = "new", !.name = name])
       ELSE \E u \in AccountOf(name) : Goto(t, [Idle EXCEPT !.pc = "found", !.uid = u])
    /\ UNCHANGED <<tables, spent, history>>

(* credentials_for_user: whoever has a passkey is not invited.             *)
SeePasskeys(t) ==
    /\ At(t, "found")
    /\ IF thread[t].uid \in Enrolled THEN Done(t) ELSE Step(t, "invite")
    /\ UNCHANGED <<tables, spent, history>>

(* Mutant: the name is not looked up again under the lock.                 *)
AddAccountBlind(t) ==
    /\ At(t, "new")
    /\ \E u \in Uids \ minted :
          /\ users' = [users EXCEPT ![u] = thread[t].name]
          /\ minted' = minted \cup {u}
          /\ Goto(t, [thread[t] EXCEPT !.pc = "invite", !.uid = u])
    /\ UNCHANGED <<creds, sessions, invites, challenges, reopened, spent, claims, enrolments>>
(* create_user refuses a name that has come to be in the meantime.         *)
AddAccount(t) ==
    /\ At(t, "new")
    /\ IF AccountOf(thread[t].name) # {} THEN Done(t) /\ UNCHANGED <<users, minted>>
       ELSE \E u \in Uids \ minted :
              /\ users' = [users EXCEPT ![u] = thread[t].name]
              /\ minted' = minted \cup {u}
              /\ Goto(t, [thread[t] EXCEPT !.pc = "invite", !.uid = u])
    /\ UNCHANGED <<creds, sessions, invites, challenges, reopened, spent, claims, enrolments>>

CreateInvite(t) ==
    /\ At(t, "invite")
    /\ \E v \in Invites :
          /\ invites[v] = NoInvite
          /\ invites' = [invites EXCEPT ![v].uid = thread[t].uid]
    /\ Done(t)
    /\ UNCHANGED <<users, creds, sessions, challenges, reopened, spent, history>>

Row(v) == invites[v].uid # Nobody
Valid(v) == Row(v) /\ ~invites[v].used /\ ~invites[v].expired

(* register_options needs the account: without one the request fails.      *)
RegisterOptions(c, v) ==
    /\ Valid(v) /\ invites[v].uid \in Accounts
    /\ Issue(c, "register", v)

RegisterVerify(t, c) ==
    /\ At(t, "idle") /\ challenges[c].purpose = "register"
    /\ Valid(challenges[c].invite)
    /\ Goto(t, [Idle EXCEPT !.pc = "registering", !.ch = c, !.invite = challenges[c].invite,
                            !.uid = invites[challenges[c].invite].uid])
    /\ UNCHANGED <<tables, spent, history>>

RegisterConsume(t) == At(t, "registering") /\ Consume(t, "register", "redeem")

(* Mutant: the invite is spent without the passkey in the same commit.     *)
RedeemOnly(t) ==
    /\ At(t, "redeem")
    /\ LET v == thread[t].invite
       IN IF ~Row(v) \/ invites[v].used THEN Done(t) /\ UNCHANGED <<invites, challenges>>
          ELSE /\ invites' = [invites EXCEPT ![v].used = TRUE]
               /\ challenges' = [c \in Challenges |-> IF challenges[c].invite = v
                                  THEN [challenges[c] EXCEPT !.fresh = FALSE] ELSE challenges[c]]
               /\ Step(t, "enrolled")
    /\ UNCHANGED <<users, creds, sessions, reopened, spent, history>>
(* redeem_invite_with_credential: invite, its challenges and the passkey   *)
(* in one commit, for one caller.                                          *)
Redeem(t) ==
    /\ At(t, "redeem")
    /\ LET v == thread[t].invite
       IN IF ~Row(v) \/ invites[v].used
          THEN Done(t) /\ UNCHANGED <<invites, challenges, creds, enrolments>>
          ELSE /\ invites' = [invites EXCEPT ![v].used = TRUE]
               /\ challenges' = [c \in Challenges |-> IF challenges[c].invite = v
                                  THEN [challenges[c] EXCEPT !.fresh = FALSE] ELSE challenges[c]]
               /\ creds' = creds \cup {[ch |-> thread[t].ch, uid |-> invites[v].uid]}
               /\ enrolments' = [enrolments EXCEPT ![v] = @ + 1]
               /\ Step(t, "enrolled")
    /\ UNCHANGED <<users, sessions, reopened, spent, minted, claims>>

RegisterSession(t) == At(t, "enrolled") /\ StartSession(t, thread[t].uid)
-----------------------------------------------------------------------------
(* Signing in and out, and leaving.                                        *)

LoginOptions(c) == Issue(c, "auth", Nobody)

LoginVerify(t, c) ==
    /\ At(t, "idle") /\ challenges[c].purpose = "auth"
    /\ \E k \in creds : Goto(t, [Idle EXCEPT !.pc = "signing", !.ch = c, !.uid = k.uid])
    /\ UNCHANGED <<tables, spent, history>>

LoginConsume(t) == At(t, "signing") /\ Consume(t, "auth", "signed")

LoginSession(t) == At(t, "signed") /\ StartSession(t, thread[t].uid)

SignedOut(gone) == {IF s \in gone THEN [s EXCEPT !.good = FALSE] ELSE s : s \in sessions}

(* Logging out, revoking one device, or a session running out.             *)
EndSession(s) ==
    /\ s.good
    /\ sessions' = SignedOut({s})
    /\ UNCHANGED <<users, creds, invites, challenges, reopened, thread, spent, history>>

RemoveMember(t, name) ==
    /\ At(t, "idle")
    /\ \E u \in Uids : Member(u)
    /\ Goto(t, [Idle EXCEPT !.pc = "remove", !.name = name])
    /\ UNCHANGED <<tables, spent, history>>

(* Mutant: a pending account counts as somebody who can sign in.           *)
LastAccount(u) == Accounts = {u}
LastEnrolled(u) == Enrolled = {u}

(* delete_member_unless_last_enrolled: check and cascade in one commit.    *)
Delete(t) ==
    /\ At(t, "remove")
    /\ LET gone == {u \in AccountOf(thread[t].name) : ~LastEnrolled(u)}
       IN /\ users' = [u \in Uids |-> IF u \in gone THEN Nobody ELSE users[u]]
          /\ creds' = {c \in creds : c.uid \notin gone}
          /\ sessions' = {s \in sessions : s.uid \notin gone}
          /\ invites' = [v \in Invites |-> IF invites[v].uid \in gone THEN DeletedInvite ELSE invites[v]]
    /\ Done(t)
    /\ UNCHANGED <<challenges, reopened, spent, history>>
-----------------------------------------------------------------------------
(* Time, the operator, and the server going down.                          *)

ExpireInvite(v) ==
    /\ Valid(v)
    /\ invites' = [invites EXCEPT ![v].expired = TRUE]
    /\ UNCHANGED <<users, creds, sessions, challenges, reopened, thread, spent, history>>

ExpireChallenge(c) ==
    /\ challenges[c].fresh
    /\ challenges' = [challenges EXCEPT ![c].fresh = FALSE]
    /\ UNCHANGED <<users, creds, sessions, invites, reopened, thread, spent, history>>

Operator == spent < MaxOperator /\ spent' = spent + 1

(* recover --reset-bootstrap, with or without --force.                     *)
Reopen ==
    /\ Operator
    /\ claims' = IF reopened THEN claims ELSE [claims EXCEPT !.granted = @ + 1]
    /\ reopened' = TRUE
    /\ UNCHANGED <<users, creds, sessions, invites, challenges, thread, minted, enrolments>>

CancelReset ==
    /\ Operator
    /\ reopened' = FALSE
    /\ UNCHANGED <<users, creds, sessions, invites, challenges, thread, history>>

RevokeAll ==
    /\ Operator
    /\ sessions' = SignedOut(sessions)
    /\ UNCHANGED <<users, creds, invites, challenges, reopened, thread, history>>

(* recover --invite NAME: as create_invite, with nobody signed in and for  *)
(* any name; the doctor is a process of its own, another thread here.      *)
RecoverInvite(t, name) ==
    /\ Operator
    /\ At(t, "idle")
    /\ IF AccountOf(name) = {}
       THEN Goto(t, [Idle EXCEPT !.pc = "new", !.name = name])
       ELSE \E u \in AccountOf(name) : Goto(t, [Idle EXCEPT !.pc = "invite", !.uid = u])
    /\ UNCHANGED <<tables, history>>

(* A request ends where it stands: the ceremony's answer does not verify,  *)
(* or its process stops.                                                   *)
Abandon(t) ==
    /\ ~At(t, "idle")
    /\ Done(t)
    /\ UNCHANGED <<tables, spent, history>>
-----------------------------------------------------------------------------
Init ==
    /\ users = [u \in Uids |-> Nobody]
    /\ creds = {} /\ sessions = {}
    /\ invites = [v \in Invites |-> NoInvite]
    /\ challenges = [c \in Challenges |-> NoChallenge]
    /\ reopened = FALSE
    /\ thread = [t \in Threads |-> Idle]
    /\ spent = 0 /\ minted = {}
    /\ claims = [granted |-> 1, taken |-> 0]
    /\ enrolments = [v \in Invites |-> 0]

Serve(t) ==
    \/ \E c \in Challenges :
          \/ \E n \in Names : BootstrapVerify(t, c, n)
          \/ RegisterVerify(t, c)
          \/ LoginVerify(t, c)
    \/ BootstrapConsume(t) \/ ReadReopen(t) \/ Claim(t)
    \/ \E n \in Names : LookUp(t, n) \/ RemoveMember(t, n)
    \/ SeePasskeys(t) \/ AddAccount(t) \/ CreateInvite(t)
    \/ RegisterConsume(t) \/ Redeem(t) \/ RegisterSession(t)
    \/ LoginConsume(t) \/ LoginSession(t)
    \/ Delete(t)
    \/ \E n \in Names : RecoverInvite(t, n)
    \/ Abandon(t)

Browse(c) ==
    \/ BootstrapOptions(c) \/ LoginOptions(c)
    \/ \E v \in Invites : RegisterOptions(c, v)

Next ==
    \/ \E t \in Threads : Serve(t)
    \/ \E c \in Challenges : Browse(c) \/ ExpireChallenge(c)
    \/ \E s \in sessions : EndSession(s)
    \/ \E v \in Invites : ExpireInvite(v)
    \/ Reopen \/ CancelReset \/ RevokeAll

Spec == Init /\ [][Next]_vars
=============================================================================
