---------------------------- MODULE MembersProps ----------------------------
(***************************************************************************)
(* What the roster promises, whatever ceremonies overlap and wherever the  *)
(* server stops.                                                           *)
(***************************************************************************)
EXTENDS Members

Passkey == [ch : Challenges, uid : Uids]
Session == [ch : Challenges, uid : Uids, good : BOOLEAN]
Invite == [uid : Uids \cup {Nobody}, used : BOOLEAN, expired : BOOLEAN]
Challenge == [purpose : {"none", "bootstrap", "register", "auth"},
              invite : Invites \cup {Nobody}, fresh : BOOLEAN]
Request == [pc : {"idle", "claiming", "verified", "claim", "new", "found", "invite",
                  "registering", "redeem", "enrolled", "signing", "signed", "remove"},
            ch : Challenges \cup {Nobody}, name : Names \cup {Nobody}, uid : Uids \cup {Nobody},
            invite : Invites \cup {Nobody}, reopen : BOOLEAN]

(* Every table and every request in progress holds values of its type.     *)
TypeOK ==
    /\ users \in [Uids -> Names \cup {Nobody}]
    /\ creds \subseteq Passkey
    /\ sessions \subseteq Session
    /\ invites \in [Invites -> Invite]
    /\ challenges \in [Challenges -> Challenge]
    /\ reopened \in BOOLEAN
    /\ thread \in [Threads -> Request]
    /\ spent \in Nat /\ minted \subseteq Uids
    /\ claims \in [granted : Nat, taken : Nat]
    /\ enrolments \in [Invites -> Nat]

(* Once anyone has enrolled somebody can sign in for good, and a household *)
(* nobody operated on never has accounts and no passkey, which would close *)
(* the first claim: no claim, invitation or removal, however many overlap, *)
(* ends there (auth_repo.py:308-313 and 421-427).                          *)
NeverLockedOut ==
    /\ claims.taken > 0 \/ (\E v \in Invites : enrolments[v] > 0) => Enrolled # {}
    /\ spent = 0 /\ Accounts # {} => Enrolled # {}

(* An invite is spent exactly when its passkey is written, once: never     *)
(* spent-but-useless, never used by two tabs (auth_repo.py 618-630).       *)
SpentMeansEnrolled ==
    \A v \in Invites :
        Row(v) => enrolments[v] = IF invites[v].used THEN 1 ELSE 0

(* The household is claimed once when new and once per reopening, however  *)
(* many claims raced past the guard (auth_repo.py 299-307).                *)
ClaimedOncePerGrant == claims.taken <= claims.granted

(* No name has two accounts, though both places that make one look the     *)
(* name up earlier as well (users.name is UNIQUE: the second insert would  *)
(* be a failed request).                                                   *)
OneAccountPerName ==
    \A u, w \in Accounts : users[u] = users[w] => u = w

(* A good session of an account implies a passkey (routes/authn.py:363: "a *)
(* valid session cookie implies one").                                     *)
SessionMeansPasskey == \A u \in Uids : Member(u) => u \in Enrolled

(* One challenge makes at most one passkey.                                *)
ChallengeEnrolsOnce == \A c, d \in creds : c.ch = d.ch => c = d
=============================================================================
