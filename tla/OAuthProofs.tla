---------------------------- MODULE OAuthProofs -----------------------------
(***************************************************************************)
(* Theorems about the authorization server (OAuth), for any sets of        *)
(* members, clients, addresses, codes, token pairs and consent pages and   *)
(* any number of events.                                                   *)
(***************************************************************************)
EXTENDS OAuthProps, TLAPS

(* What a request carries from one commit to the next, by what it is about *)
(* to do.                                                                  *)
Fits(r) ==
    /\ r.pc # "idle" => r.client \in Clients
    /\ r.pc = "fetched" => r.client \in Cimd
    /\ r.pc \in {"resolve", "fetched", "checked", "create"}
          => r.name \in Names /\ r.uri \in Uris /\ r.secret \in Secrets
    /\ r.pc \in {"create", "access", "refresh"} => r.uid \in Uids
    /\ r.pc \in {"access", "refresh"} => r.from \in Codes
    /\ r.pc = "refresh" => r.pair \in Issues

LoopFits == loop \in Request /\ Fits(loop)
PagesFit ==
    /\ page \in [Pages -> PageRequest]
    /\ \A p \in Pages : page[p].pc = "fetched" => page[p].client \in Cimd
WorldTyped ==
    /\ users \in [Uids -> Names \cup {Nobody}] /\ named \in [Uids -> Names \cup {Nobody}]
    /\ published \in [Cimd -> SUBSET Uris] /\ versions \in [Cimd -> SUBSET SUBSET Uris]
ClientsTyped ==
    /\ clients \in [Registrable -> SUBSET Uris]
    /\ cache \in [Cimd -> [uris : SUBSET Uris, fresh : BOOLEAN]]
CodesTyped ==
    /\ codes \in [Codes -> Code] /\ approver \in [Codes -> Names \cup {Nobody}]
    /\ proof \in [Codes -> Secrets \cup {Nobody}] /\ upset \subseteq Codes
TokensTyped ==
    /\ access \in [Issues -> TokenRow] /\ refresh \in [Issues -> TokenRow]
    /\ answers \subseteq Issues /\ received \subseteq Issues

Sound == WorldTyped /\ ClientsTyped /\ CodesTyped /\ TokensTyped /\ LoopFits /\ PagesFit /\ events \in Nat

(* The two tokens of a pair, and the answer that carries them.             *)
Paired ==
    /\ \A i \in answers \cup received : refresh[i].state # "none"
    /\ \A i \in Issues : refresh[i].state # "none"
          => access[i].state # "none" /\ access[i].from = refresh[i].from
    /\ loop.pc = "refresh" =>
          /\ access[loop.pair].state # "none" /\ access[loop.pair].from = loop.from
          /\ refresh[loop.pair].state = "none"

LEMMA SoundIsTyped == Sound => TypeOK
BY DEF Sound, TypeOK, WorldTyped, ClientsTyped, CodesTyped, TokensTyped, LoopFits, PagesFit

LEMMA Distinct ==
    /\ Nobody \notin Uids /\ Nobody \notin Names /\ Nobody \notin Clients
    /\ Nobody \notin Secrets /\ Nobody \notin Codes /\ Nobody \notin Uris
    /\ Documents \subseteq SUBSET Uris /\ MaxEvents \in Nat
BY OAuthAssumption

LEMMA Resourced == Nobody \in Resources /\ Mcp \in Resources /\ Other \in Resources
BY DEF Resources

LEMMA IdleFits == Idle \in Request /\ Fits(Idle)
BY Resourced DEF Idle, Request, Fits

LEMMA PageIdle == NoPage \in PageRequest /\ NoPage.pc = "idle"
BY DEF NoPage, PageRequest

(* A row of a table that is not empty names a client, an account, ...      *)
LEMMA CodeRow ==
    ASSUME NEW row \in Code, row.state # "none"
    PROVE  /\ row.client \in Clients /\ row.uid \in Uids /\ row.uri \in Uris
           /\ row.secret \in Secrets /\ row.resource \in Resources
           /\ row.state \in {"fresh", "used", "expired"}
BY DEF Code, NoCode

LEMMA CodeIsNoCode ==
    ASSUME NEW row \in Code, row.state = "none"
    PROVE  row = NoCode
BY DEF Code, NoCode

LEMMA TokenRowFits ==
    ASSUME NEW row \in TokenRow, row.state # "none"
    PROVE  /\ row.client \in Clients /\ row.uid \in Uids /\ row.resource \in Resources
           /\ row.from \in Codes /\ row.state \in {"live", "rotated", "expired"}
BY DEF TokenRow, NoToken

SameGrant(row, old) ==
    /\ row.client = old.client /\ row.uid = old.uid /\ row.uri = old.uri
    /\ row.secret = old.secret /\ row.resource = old.resource
SameToken(row, old) ==
    /\ row.client = old.client /\ row.uid = old.uid
    /\ row.resource = old.resource /\ row.from = old.from

LEMMA CodeRestated ==
    ASSUME NEW row \in Code, row.state # "none", NEW s \in {"fresh", "used", "expired"}
    PROVE  /\ [row EXCEPT !.state = s] \in Code
           /\ [row EXCEPT !.state = s].state = s
           /\ SameGrant([row EXCEPT !.state = s], row)
BY DEF Code, NoCode, SameGrant

LEMMA CodeRestatedAt ==
    ASSUME NEW k \in Codes, codes \in [Codes -> Code], codes[k].state # "none",
           NEW s \in {"fresh", "used", "expired"},
           codes' = [codes EXCEPT ![k] = [codes[k] EXCEPT !.state = s]]
    PROVE  /\ codes'[k].state = s /\ SameGrant(codes'[k], codes[k])
           /\ \A l \in Codes : l # k => codes'[l] = codes[l]
<1> DEFINE row == [codes[k] EXCEPT !.state = s]
<1>1. row.state = s /\ SameGrant(row, codes[k])
  BY CodeRestated
<1>2. codes' = [codes EXCEPT ![k] = row]
  OBVIOUS
<1> HIDE DEF row
<1> QED
  BY <1>1, <1>2

LEMMA TokenRestated ==
    ASSUME NEW row \in TokenRow, row.state # "none", NEW s \in {"live", "rotated", "expired"}
    PROVE  /\ [row EXCEPT !.state = s] \in TokenRow
           /\ [row EXCEPT !.state = s].state = s
           /\ SameToken([row EXCEPT !.state = s], row)
           /\ [row EXCEPT !.state = s].from = row.from
BY DEF TokenRow, NoToken, SameToken
-----------------------------------------------------------------------------
(* The request on the loop.                                                *)

LEMMA FinishFits == Finish => LoopFits'
BY IdleFits DEF Finish, LoopFits

LEMMA GotoFits ==
    ASSUME LoopFits, Goto("checked"), loop.pc \in {"resolve", "fetched"}
    PROVE  LoopFits'
BY DEF LoopFits, Goto, Fits, Request

LEMMA CheckFits ==
    ASSUME LoopFits, NEW uris, CheckRedirect(uris), loop.pc \in {"resolve", "fetched"}
    PROVE  LoopFits'
BY FinishFits, GotoFits DEF CheckRedirect

LEMMA IssuingFits ==
    ASSUME NEW row, NEW from \in Codes, NEW resource \in Resources, Issuing(row, from, resource),
           row.client \in Clients, row.uid \in Uids
    PROVE  LoopFits'
BY IdleFits DEF Issuing, Idle, LoopFits, Fits, Request

LEMMA IssuingCarries ==
    ASSUME NEW row, NEW from, NEW resource, Issuing(row, from, resource)
    PROVE  /\ loop'.pc = "access" /\ loop'.from = from /\ loop'.client = row.client
           /\ loop'.uid = row.uid /\ loop'.resource = resource
BY DEF Issuing, Idle

LEMMA TokenTyped ==
    ASSUME LoopFits, loop.pc \in {"access", "refresh"}
    PROVE  /\ Token \in TokenRow /\ Token.state = "live" /\ Token.from = loop.from
           /\ Token.client = loop.client /\ Token.uid = loop.uid
           /\ Token.resource = loop.resource
BY DEF LoopFits, Fits, Token, TokenRow, Request

LEMMA Counted == Sound /\ Happens => events' \in Nat
BY DEF Sound, Happens
-----------------------------------------------------------------------------
(* Every step keeps every component in its type.                           *)

LEMMA ClientsKeepSound ==
    ASSUME Sound,
           \/ \E c \in Registrable, uris \in Documents : Register(c, uris)
           \/ \E p \in Pages : PageCaches(p) \/ \E c \in Cimd : AuthorizePage(p, c)
           \/ \E c \in Cimd, uris \in Documents \cup {{}} : Publish(c, uris)
    PROVE  Sound'
<1>1. ASSUME NEW c \in Registrable, NEW uris \in Documents, Register(c, uris)
      PROVE  Sound'
  BY <1>1, Counted, Distinct
     DEF Sound, Register, WorldTyped, ClientsTyped, CodesTyped, TokensTyped, LoopFits, PagesFit,
         world, client, history
<1>2. ASSUME NEW p \in Pages, PageCaches(p)
      PROVE  Sound'
  <2>1. page[p] \in PageRequest /\ page[p].client \in Cimd /\ page[p].uris \in SUBSET Uris
    BY <1>2 DEF Sound, PageCaches, PagesFit, PageRequest
  <2>2. ClientsTyped'
    BY <1>2, <2>1 DEF Sound, ClientsTyped, PageCaches, CacheCimd
  <2>3. PagesFit'
    BY <1>2, PageIdle DEF Sound, PagesFit, PageCaches
  <2> QED
    BY <1>2, <2>2, <2>3
       DEF Sound, PageCaches, WorldTyped, CodesTyped, TokensTyped, LoopFits, world, client, history
<1>3. ASSUME NEW p \in Pages, NEW c \in Cimd, AuthorizePage(p, c)
      PROVE  Sound'
  <2> DEFINE r == [pc |-> "fetched", client |-> c, uris |-> published[c]]
  <2>1. r \in PageRequest /\ r.client \in Cimd
    BY DEF Sound, WorldTyped, PageRequest
  <2>2. page' = [page EXCEPT ![p] = r]
    BY <1>3 DEF AuthorizePage
  <2>3. PagesFit'
    <3> HIDE DEF r
    <3> QED
      BY <2>1, <2>2 DEF Sound, PagesFit
  <2> QED
    BY <1>3, <2>3, Counted
       DEF Sound, AuthorizePage, WorldTyped, ClientsTyped, CodesTyped, TokensTyped, LoopFits,
           world, tables, client, history
<1>4. ASSUME NEW c \in Cimd, NEW uris \in Documents \cup {{}}, Publish(c, uris)
      PROVE  Sound'
  <2>1. uris \in SUBSET Uris
    BY Distinct
  <2>2. WorldTyped'
    BY <1>4, <2>1 DEF Sound, WorldTyped, Publish
  <2> QED
    BY <1>4, <2>2, Counted
       DEF Sound, Publish, ClientsTyped, CodesTyped, TokensTyped, LoopFits, PagesFit, tables, client
<1> QED
  BY <1>1, <1>2, <1>3, <1>4

LEMMA FormKeepsSound ==
    ASSUME Sound,
           \/ \E u \in Uids, c \in Clients, uri \in Uris, s \in Secrets, r \in Resources :
                Approve(u, c, uri, s, r)
           \/ Resolve \/ FormCaches \/ Decline \/ LookUpUser \/ \E k \in Codes : CreateCode(k)
    PROVE  Sound'
<1>1. ASSUME NEW u \in Uids, NEW c \in Clients, NEW uri \in Uris, NEW s \in Secrets,
             NEW r \in Resources, Approve(u, c, uri, s, r)
      PROVE  Sound'
  <2>1. users[u] \in Names
    BY <1>1 DEF Approve, Sound, WorldTyped
  <2>2. LoopFits'
    BY <1>1, <2>1, IdleFits DEF Approve, LoopFits, Fits, Request, Idle
  <2> QED
    BY <1>1, <2>2
       DEF Sound, Approve, WorldTyped, ClientsTyped, CodesTyped, TokensTyped, PagesFit,
           world, tables, client, history
<1>2. ASSUME Resolve
      PROVE  Sound'
  <2>1. CASE Stored(loop.client) # {}
    BY <1>2, <2>1, CheckFits
       DEF Sound, Resolve, WorldTyped, ClientsTyped, CodesTyped, TokensTyped, PagesFit,
           world, tables, client, history
  <2>2. CASE Stored(loop.client) = {} /\ loop.client \in Cimd /\ published[loop.client] # {}
    <3> DEFINE uris == published[loop.client]
    <3>1. uris \in SUBSET Uris
      BY <2>2 DEF Sound, WorldTyped
    <3>2. loop' = [loop EXCEPT !.pc = "fetched", !.uris = uris]
      BY <1>2, <2>2 DEF Resolve
    <3>3. LoopFits'
      <4> HIDE DEF uris
      <4> QED
        BY <1>2, <2>2, <3>1, <3>2 DEF Sound, LoopFits, Fits, Request, Resolve
    <3> QED
      BY <1>2, <3>3
         DEF Sound, Resolve, WorldTyped, ClientsTyped, CodesTyped, TokensTyped, PagesFit,
             world, tables, client, history
  <2>3. CASE Stored(loop.client) = {} /\ ~(loop.client \in Cimd /\ published[loop.client] # {})
    BY <1>2, <2>3, FinishFits
       DEF Sound, Resolve, WorldTyped, ClientsTyped, CodesTyped, TokensTyped, PagesFit,
           world, tables, client, history
  <2> QED
    BY <2>1, <2>2, <2>3
<1>3. ASSUME FormCaches
      PROVE  Sound'
  <2>1. loop.client \in Cimd /\ loop.uris \in SUBSET Uris
    BY <1>3 DEF Sound, LoopFits, Fits, Request, FormCaches
  <2>2. ClientsTyped'
    BY <1>3, <2>1 DEF Sound, ClientsTyped, FormCaches, CacheCimd
  <2>3. LoopFits'
    BY <1>3, CheckFits DEF FormCaches, Sound
  <2> QED
    BY <1>3, <2>2, <2>3
       DEF Sound, FormCaches, WorldTyped, CodesTyped, TokensTyped, PagesFit, world, client, history
<1>4. ASSUME Decline
      PROVE  Sound'
  BY <1>4, FinishFits
     DEF Sound, Decline, WorldTyped, ClientsTyped, CodesTyped, TokensTyped, PagesFit,
         world, tables, client, history
<1>5. ASSUME LookUpUser
      PROVE  Sound'
  <2>1. LoopFits'
    <3>1. CASE Finish
      BY <3>1, FinishFits
    <3>2. ASSUME NEW u \in Uids, loop' = [loop EXCEPT !.pc = "create", !.uid = u]
          PROVE  LoopFits'
      BY <1>5, <3>2 DEF LookUpUser, Sound, LoopFits, Fits, Request
    <3> QED
      BY <1>5, <3>1, <3>2 DEF LookUpUser
  <2> QED
    BY <1>5, <2>1
       DEF Sound, LookUpUser, WorldTyped, ClientsTyped, CodesTyped, TokensTyped, PagesFit,
           world, tables, client, history
<1>6. ASSUME NEW k \in Codes, CreateCode(k)
      PROVE  Sound'
  <2> DEFINE row == [client |-> loop.client, uid |-> loop.uid, uri |-> loop.uri,
                     secret |-> loop.secret, resource |-> loop.resource, state |-> "fresh"]
  <2>1. row \in Code /\ loop.name \in Names
    BY <1>6 DEF Sound, LoopFits, Fits, Request, CreateCode, Code
  <2>2. codes' = [codes EXCEPT ![k] = row]
    BY <1>6 DEF CreateCode
  <2>3. CodesTyped'
    <3> HIDE DEF row
    <3> QED
      BY <1>6, <2>1, <2>2 DEF Sound, CodesTyped, CreateCode
  <2> QED
    BY <1>6, <2>3, FinishFits
       DEF Sound, CreateCode, WorldTyped, ClientsTyped, TokensTyped, PagesFit, world, client
<1> QED
  BY <1>1, <1>2, <1>3, <1>4, <1>5, <1>6

LEMMA TokensKeepSound ==
    ASSUME Sound,
           \/ \E k \in Codes, c \in Clients \cup {Nobody}, uri \in Uris, s \in Secrets,
                r \in Resources : GrantAuthorizationCode(k, c, uri, s, r)
           \/ \E i \in Issues : \E c \in Clients \cup {Nobody} : GrantRefreshToken(i, c)
           \/ \E i \in Issues : CreateAccessToken(i) \/ Deliver(i)
           \/ CreateRefreshToken
    PROVE  Sound'
<1>1. ASSUME NEW k \in Codes, NEW c \in Clients \cup {Nobody}, NEW uri \in Uris,
             NEW s \in Secrets, NEW r \in Resources, GrantAuthorizationCode(k, c, uri, s, r)
      PROVE  Sound'
  <2> DEFINE row == [codes[k] EXCEPT !.state = "used"]
             resource == IF codes[k].resource # Nobody THEN codes[k].resource ELSE r
  <2>1. codes[k] \in Code /\ codes[k].state = "fresh"
    BY <1>1 DEF Sound, CodesTyped, GrantAuthorizationCode, ConsumeCode
  <2>2. row \in Code
    BY <2>1, CodeRestated
  <2>3. codes' = [codes EXCEPT ![k] = row]
    BY <1>1 DEF GrantAuthorizationCode, ConsumeCode
  <2>4. codes[k].client \in Clients /\ codes[k].uid \in Uids /\ resource \in Resources
    BY <2>1, CodeRow
  <2>5. LoopFits'
    <3>1. CASE Accepts(codes[k], c, uri, s, r)
      <4>1. Issuing(codes[k], k, resource)
        BY <1>1, <3>1 DEF GrantAuthorizationCode
      <4> HIDE DEF resource
      <4> QED
        BY <2>4, <4>1, IssuingFits
    <3>2. CASE ~Accepts(codes[k], c, uri, s, r)
      BY <1>1, <3>2 DEF GrantAuthorizationCode, Sound, LoopFits
    <3> QED
      BY <3>1, <3>2
  <2>6. CodesTyped'
    <3>1. codes' \in [Codes -> Code]
      <4> HIDE DEF row
      <4> QED
        BY <2>2, <2>3 DEF Sound, CodesTyped
    <3>2. proof' \in [Codes -> Secrets \cup {Nobody}] /\ upset' \subseteq Codes
      BY <1>1 DEF Sound, CodesTyped, GrantAuthorizationCode
    <3> QED
      BY <1>1, <3>1, <3>2 DEF Sound, CodesTyped, GrantAuthorizationCode
  <2> QED
    BY <1>1, <2>5, <2>6
       DEF Sound, GrantAuthorizationCode, WorldTyped, ClientsTyped, TokensTyped, PagesFit,
           world, client
<1>2. ASSUME NEW i \in Issues, NEW c \in Clients \cup {Nobody}, GrantRefreshToken(i, c)
      PROVE  Sound'
  <2> DEFINE row == [refresh[i] EXCEPT !.state = "rotated"]
  <2>1. refresh[i] \in TokenRow /\ refresh[i].state = "live"
    BY <1>2 DEF Sound, TokensTyped, GrantRefreshToken, RotateRefreshToken
  <2>2. row \in TokenRow
    BY <2>1, TokenRestated
  <2>3. refresh' = [refresh EXCEPT ![i] = row]
    BY <1>2 DEF GrantRefreshToken, RotateRefreshToken
  <2>4. /\ refresh[i].client \in Clients /\ refresh[i].uid \in Uids
        /\ refresh[i].resource \in Resources /\ refresh[i].from \in Codes
    BY <2>1, TokenRowFits
  <2>5. LoopFits'
    BY <1>2, <2>4, IssuingFits DEF GrantRefreshToken, Sound, LoopFits
  <2>6. TokensTyped'
    <3> HIDE DEF row
    <3> QED
      BY <1>2, <2>2, <2>3 DEF Sound, TokensTyped, GrantRefreshToken, client
  <2>7. upset' \subseteq Codes
    BY <1>2, <2>4 DEF GrantRefreshToken, Sound, CodesTyped
  <2> QED
    BY <1>2, <2>5, <2>6, <2>7
       DEF Sound, GrantRefreshToken, WorldTyped, ClientsTyped, CodesTyped, PagesFit, world
<1>3. ASSUME NEW i \in Issues, CreateAccessToken(i)
      PROVE  Sound'
  <2>1. Token \in TokenRow
    BY <1>3, TokenTyped DEF Sound, CreateAccessToken
  <2>2. TokensTyped'
    BY <1>3, <2>1 DEF Sound, TokensTyped, CreateAccessToken, client
  <2>3. LoopFits'
    BY <1>3 DEF Sound, LoopFits, Fits, Request, CreateAccessToken
  <2> QED
    BY <1>3, <2>2, <2>3
       DEF Sound, CreateAccessToken, WorldTyped, ClientsTyped, CodesTyped, PagesFit, world, history
<1>4. ASSUME CreateRefreshToken
      PROVE  Sound'
  <2>1. Token \in TokenRow /\ loop.pair \in Issues
    BY <1>4, TokenTyped DEF Sound, CreateRefreshToken, LoopFits, Fits
  <2>2. TokensTyped'
    BY <1>4, <2>1 DEF Sound, TokensTyped, CreateRefreshToken
  <2> QED
    BY <1>4, <2>2, FinishFits
       DEF Sound, CreateRefreshToken, WorldTyped, ClientsTyped, CodesTyped, PagesFit, world, history
<1>5. ASSUME NEW i \in Issues, Deliver(i)
      PROVE  Sound'
  BY <1>5
     DEF Sound, Deliver, WorldTyped, ClientsTyped, CodesTyped, TokensTyped, LoopFits, PagesFit,
         world, tables, history
<1> QED
  BY <1>1, <1>2, <1>3, <1>4, <1>5

LEMMA WorldKeepsSound ==
    ASSUME Sound,
           \/ \E u \in Uids : Leave(u) \/ \E n \in Names : Join(u, n)
           \/ Expire \/ Restart
    PROVE  Sound'
<1>1. ASSUME NEW u \in Uids, NEW n \in Names, Join(u, n)
      PROVE  Sound'
  BY <1>1, Counted
     DEF Sound, Join, WorldTyped, ClientsTyped, CodesTyped, TokensTyped, LoopFits, PagesFit,
         tables, client, history
<1>2. ASSUME NEW u \in Uids, Leave(u)
      PROVE  Sound'
  BY <1>2, Counted
     DEF Sound, Leave, WorldTyped, ClientsTyped, CodesTyped, TokensTyped, LoopFits, PagesFit,
         tables, client, history
<1>3. ASSUME Expire
      PROVE  Sound'
  <2>1. /\ UNCHANGED <<world, clients, loop, page, client, history>> /\ events' \in Nat
    BY <1>3, Counted DEF Expire
  <2>2. codes' \in [Codes -> Code]
    <3>1. ASSUME NEW k \in Codes, codes[k].state = "fresh",
                 codes' = [codes EXCEPT ![k].state = "expired"]
          PROVE  codes' \in [Codes -> Code]
      BY <3>1, CodeRestated DEF Sound, CodesTyped
    <3> QED
      BY <1>3, <3>1 DEF Expire, Sound, CodesTyped
  <2>3. access' \in [Issues -> TokenRow] /\ refresh' \in [Issues -> TokenRow]
    <3>1. ASSUME NEW i \in Issues, access[i].state = "live",
                 access' = [access EXCEPT ![i].state = "expired"]
          PROVE  access' \in [Issues -> TokenRow]
      BY <3>1, TokenRestated DEF Sound, TokensTyped
    <3>2. ASSUME NEW i \in Issues, refresh[i].state = "live",
                 refresh' = [refresh EXCEPT ![i].state = "expired"]
          PROVE  refresh' \in [Issues -> TokenRow]
      BY <3>2, TokenRestated DEF Sound, TokensTyped
    <3> QED
      BY <1>3, <3>1, <3>2 DEF Expire, Sound, TokensTyped
  <2>4. ClientsTyped'
    <3>1. ASSUME NEW c \in Cimd, cache' = [cache EXCEPT ![c].fresh = FALSE]
          PROVE  cache' \in [Cimd -> [uris : SUBSET Uris, fresh : BOOLEAN]]
      BY <3>1 DEF Sound, ClientsTyped
    <3> QED
      BY <1>3, <2>1, <3>1 DEF Expire, Sound, ClientsTyped
  <2> QED
    BY <2>1, <2>2, <2>3, <2>4
       DEF Sound, WorldTyped, CodesTyped, TokensTyped, LoopFits, PagesFit, world, client, history
<1>4. ASSUME Restart
      PROVE  Sound'
  <2>1. upset' \subseteq Codes
    BY <1>4 DEF Restart, Sound, CodesTyped, LoopFits, Fits
  <2>2. PagesFit'
    BY <1>4, PageIdle DEF Restart, PagesFit
  <2> QED
    BY <1>4, <2>1, <2>2, FinishFits, Counted
       DEF Sound, Restart, WorldTyped, ClientsTyped, CodesTyped, TokensTyped, world, tables, client
<1> QED
  BY <1>1, <1>2, <1>3, <1>4

LEMMA LoseKeepsSound ==
    ASSUME Sound, Paired, NEW i \in Issues, Lose(i)
    PROVE  Sound'
<1>1. access[i] \in TokenRow /\ access[i].state # "none"
  BY DEF Sound, TokensTyped, Paired, Lose
<1>2. upset' \subseteq Codes
  BY <1>1, TokenRowFits DEF Lose, Sound, CodesTyped
<1> QED
  BY <1>2, Counted
     DEF Sound, Lose, WorldTyped, ClientsTyped, CodesTyped, TokensTyped, LoopFits, PagesFit,
         world, tables

(* Everything else leaves the token tables and the answers alone.          *)
Elsewhere ==
    \/ \E c \in Registrable, uris \in Documents : Register(c, uris)
    \/ \E p \in Pages : PageCaches(p) \/ \E c \in Cimd : AuthorizePage(p, c)
    \/ \E u \in Uids, c \in Clients, uri \in Uris, s \in Secrets, r \in Resources :
         Approve(u, c, uri, s, r)
    \/ Resolve \/ FormCaches \/ Decline \/ LookUpUser
    \/ \E c \in Cimd, uris \in Documents \cup {{}} : Publish(c, uris)
    \/ \E u \in Uids : Leave(u) \/ \E n \in Names : Join(u, n)

LEMMA ElsewhereKeeps ==
    ASSUME Sound, Elsewhere
    PROVE  /\ UNCHANGED <<codes, access, refresh, answers, received, approver, proof, upset>>
           /\ \/ UNCHANGED loop
              \/ ~(loop.pc \in {"access", "refresh"}) /\ ~(loop'.pc \in {"access", "refresh"})
<1>1. UNCHANGED <<codes, access, refresh, answers, received, approver, proof, upset>>
  BY DEF Elsewhere, Register, PageCaches, AuthorizePage, Approve, Resolve, FormCaches, Decline,
         LookUpUser, Publish, Leave, Join, tables, client, history
<1>2. CASE Resolve \/ FormCaches
  <2>1. loop.pc \in {"resolve", "fetched"}
    BY <1>2 DEF Resolve, FormCaches
  <2>2. loop \in Request
    BY DEF Sound, LoopFits
  <2>3. ASSUME NEW uris, CheckRedirect(uris)
        PROVE  loop'.pc \in {"checked", "idle"}
    BY <2>2, <2>3 DEF CheckRedirect, Goto, Finish, Idle, Request
  <2>4. CASE loop' = [loop EXCEPT !.pc = "fetched", !.uris = published[loop.client]]
    BY <1>1, <2>1, <2>2, <2>4 DEF Request
  <2>5. CASE Finish
    BY <1>1, <2>1, <2>5 DEF Finish, Idle
  <2> QED
    BY <1>1, <1>2, <2>1, <2>3, <2>4, <2>5 DEF Resolve, FormCaches
<1>3. CASE Decline \/ LookUpUser
  <2>1. loop.pc = "checked" /\ loop \in Request
    BY <1>3 DEF Decline, LookUpUser, Sound, LoopFits
  <2>2. ASSUME NEW u, loop' = [loop EXCEPT !.pc = "create", !.uid = u]
        PROVE  loop'.pc = "create"
    BY <2>1, <2>2 DEF Request
  <2>3. CASE Finish
    BY <1>1, <2>1, <2>3 DEF Finish, Idle
  <2> QED
    BY <1>1, <1>3, <2>1, <2>2, <2>3 DEF Decline, LookUpUser
<1>4. CASE \E u \in Uids, c \in Clients, uri \in Uris, s \in Secrets, r \in Resources :
             Approve(u, c, uri, s, r)
  BY <1>1, <1>4 DEF Approve, Idle
<1>5. CASE ~(Resolve \/ FormCaches \/ Decline \/ LookUpUser)
           /\ ~\E u \in Uids, c \in Clients, uri \in Uris, s \in Secrets, r \in Resources :
                 Approve(u, c, uri, s, r)
  BY <1>1, <1>5 DEF Elsewhere, Register, PageCaches, AuthorizePage, Publish, Leave, Join
<1> QED
  BY <1>2, <1>3, <1>4, <1>5

LEMMA NextCases ==
    ASSUME Next
    PROVE  \/ Elsewhere
           \/ \E k \in Codes : CreateCode(k)
           \/ \E k \in Codes, c \in Clients \cup {Nobody}, uri \in Uris, s \in Secrets,
                r \in Resources : GrantAuthorizationCode(k, c, uri, s, r)
           \/ \E i \in Issues : \E c \in Clients \cup {Nobody} : GrantRefreshToken(i, c)
           \/ \E i \in Issues : CreateAccessToken(i) \/ Deliver(i) \/ Lose(i)
           \/ CreateRefreshToken \/ Expire \/ Restart
BY DEF Next, Elsewhere

LEMMA SoundKept ==
    ASSUME Sound, Paired, [Next]_vars
    PROVE  Sound'
<1>1. CASE UNCHANGED vars
  BY <1>1
     DEF Sound, WorldTyped, ClientsTyped, CodesTyped, TokensTyped, LoopFits, PagesFit,
         vars, world, tables, client, history
<1>2. CASE Next
  BY <1>2, ClientsKeepSound, FormKeepsSound, TokensKeepSound, WorldKeepsSound, LoseKeepsSound
     DEF Next
<1> QED
  BY <1>1, <1>2
-----------------------------------------------------------------------------
(* What the token actions do to the two token tables.                      *)

LEMMA RotatedStep ==
    ASSUME Sound, NEW i \in Issues, NEW c, GrantRefreshToken(i, c)
    PROVE  /\ loop = Idle /\ i \in received /\ refresh[i].state = "live"
           /\ UNCHANGED <<codes, access, answers, received, approver, proof>>
           /\ refresh'[i].state = "rotated" /\ refresh'[i].from = refresh[i].from
           /\ \A j \in Issues : j # i => refresh'[j] = refresh[j]
           /\ \/ UNCHANGED loop /\ upset' = upset \cup {refresh[i].from}
              \/ Issuing(refresh[i], refresh[i].from, refresh[i].resource) /\ UNCHANGED upset
<1>1. refresh[i] \in TokenRow /\ refresh \in [Issues -> TokenRow]
  BY DEF Sound, TokensTyped
<1>2. refresh[i].state = "live"
  BY DEF GrantRefreshToken, RotateRefreshToken
<1> DEFINE row == [refresh[i] EXCEPT !.state = "rotated"]
<1>3. row.state = "rotated" /\ row.from = refresh[i].from
  BY <1>1, <1>2, TokenRestated
<1>4. refresh' = [refresh EXCEPT ![i] = row]
  BY DEF GrantRefreshToken, RotateRefreshToken
<1>5. refresh'[i] = row /\ \A j \in Issues : j # i => refresh'[j] = refresh[j]
  <2> HIDE DEF row
  <2> QED
    BY <1>1, <1>4
<1>6. UNCHANGED <<codes, access, answers, received, approver, proof>>
  BY DEF GrantRefreshToken, client
<1> QED
  BY <1>2, <1>3, <1>5, <1>6 DEF GrantRefreshToken

LEMMA GrantedStep ==
    ASSUME Sound, NEW k \in Codes, NEW c, NEW uri, NEW s, NEW r,
           GrantAuthorizationCode(k, c, uri, s, r)
    PROVE  /\ loop = Idle /\ codes[k].state = "fresh"
           /\ UNCHANGED <<access, refresh, answers, received, approver>>
           /\ codes' = [codes EXCEPT ![k] = [codes[k] EXCEPT !.state = "used"]]
           /\ \/ UNCHANGED <<loop, proof>> /\ upset' = upset \cup {k}
              \/ /\ Accepts(codes[k], c, uri, s, r)
                 /\ Issuing(codes[k], k, IF codes[k].resource # Nobody THEN codes[k].resource
                                          ELSE r)
                 /\ proof' = [proof EXCEPT ![k] = s] /\ UNCHANGED upset
BY DEF GrantAuthorizationCode, ConsumeCode, client

LEMMA AccessStep ==
    ASSUME Sound, NEW i \in Issues, CreateAccessToken(i)
    PROVE  /\ loop.pc = "access" /\ access[i].state = "none"
           /\ UNCHANGED <<codes, refresh, answers, received, approver, proof, upset>>
           /\ access' = [access EXCEPT ![i] = Token]
           /\ loop'.pc = "refresh" /\ loop'.pair = i /\ loop'.from = loop.from
           /\ loop'.client = loop.client /\ loop'.uid = loop.uid
           /\ loop'.resource = loop.resource
<1>1. loop \in Request
  BY DEF Sound, LoopFits
<1>2. loop' = [loop EXCEPT !.pc = "refresh", !.pair = i]
  BY DEF CreateAccessToken
<1>3. /\ loop'.pc = "refresh" /\ loop'.pair = i /\ loop'.from = loop.from
      /\ loop'.client = loop.client /\ loop'.uid = loop.uid /\ loop'.resource = loop.resource
  BY <1>1, <1>2 DEF Request
<1> QED
  BY <1>3 DEF CreateAccessToken, NoToken, client, history

LEMMA RefreshStep ==
    ASSUME Sound, CreateRefreshToken
    PROVE  /\ loop.pc = "refresh" /\ loop.pair \in Issues
           /\ UNCHANGED <<codes, access, received, approver, proof, upset>>
           /\ refresh' = [refresh EXCEPT ![loop.pair] = Token]
           /\ answers' = answers \cup {loop.pair} /\ loop' = Idle
BY DEF CreateRefreshToken, Finish, history, Sound, LoopFits, Fits

LEMMA ExpireStep ==
    ASSUME Sound, Expire
    PROVE  /\ UNCHANGED <<loop, answers, received, approver, proof, upset>>
           /\ \/ /\ UNCHANGED <<access, refresh>>
                 /\ \E k \in Codes : /\ codes[k].state = "fresh"
                                      /\ codes' = [codes EXCEPT ![k] =
                                                      [codes[k] EXCEPT !.state = "expired"]]
              \/ /\ UNCHANGED <<codes, refresh>>
                 /\ \E i \in Issues : /\ access[i].state = "live"
                                       /\ access' = [access EXCEPT ![i] =
                                                      [access[i] EXCEPT !.state = "expired"]]
              \/ /\ UNCHANGED <<codes, access>>
                 /\ \E i \in Issues : /\ refresh[i].state = "live"
                                       /\ refresh' = [refresh EXCEPT ![i] =
                                                      [refresh[i] EXCEPT !.state = "expired"]]
              \/ UNCHANGED <<codes, access, refresh>>
BY DEF Expire, client, history

LEMMA PairedKept ==
    ASSUME Sound, Paired, [Next]_vars
    PROVE  Paired'
<1>1. CASE UNCHANGED vars
  BY <1>1 DEF Paired, vars, tables, client
<1>2. CASE Elsewhere
  BY <1>2, ElsewhereKeeps DEF Paired
<1>3. ASSUME NEW k \in Codes, CreateCode(k)
      PROVE  Paired'
  BY <1>3 DEF CreateCode, Paired, client, Finish, Idle
<1>4. ASSUME NEW k \in Codes, NEW c, NEW uri, NEW s, NEW r,
             GrantAuthorizationCode(k, c, uri, s, r)
      PROVE  Paired'
  <2>1. loop'.pc # "refresh"
    BY <1>4, GrantedStep, IssuingCarries DEF Idle
  <2> QED
    BY <1>4, <2>1, GrantedStep DEF Paired
<1>5. ASSUME NEW i \in Issues, NEW c, GrantRefreshToken(i, c)
      PROVE  Paired'
  <2>1. loop'.pc # "refresh"
    BY <1>5, RotatedStep, IssuingCarries DEF Idle
  <2>2. \A j \in Issues : /\ refresh'[j].from = refresh[j].from
                          /\ refresh'[j].state # "none" <=> refresh[j].state # "none"
    BY <1>5, RotatedStep
  <2>3. answers \cup received \subseteq Issues
    BY DEF Sound, TokensTyped
  <2> QED
    BY <1>5, <2>1, <2>2, <2>3, RotatedStep DEF Paired
<1>6. ASSUME NEW i \in Issues, CreateAccessToken(i)
      PROVE  Paired'
  <2>1. refresh[i].state = "none"
    BY <1>6, AccessStep DEF Paired
  <2>2. access'[i] = Token /\ \A j \in Issues : j # i => access'[j] = access[j]
    BY <1>6, AccessStep DEF Sound, TokensTyped
  <2>3. Token.state = "live" /\ Token.from = loop.from
    BY <1>6, AccessStep, TokenTyped DEF Sound
  <2> QED
    BY <1>6, <2>1, <2>2, <2>3, AccessStep DEF Paired
<1>7. ASSUME NEW i \in Issues, Deliver(i) \/ Lose(i)
      PROVE  Paired'
  BY <1>7 DEF Deliver, Lose, Paired, tables
<1>8. CASE CreateRefreshToken
  <2>1. Token.state = "live" /\ Token.from = loop.from
    BY <1>8, RefreshStep, TokenTyped DEF Sound
  <2>2. refresh'[loop.pair] = Token /\ \A j \in Issues : j # loop.pair => refresh'[j] = refresh[j]
    BY <1>8, RefreshStep DEF Sound, TokensTyped
  <2>3. answers' \subseteq answers \cup {loop.pair} /\ received' = received /\ loop'.pc = "idle"
    BY <1>8, RefreshStep DEF Idle
  <2>4. answers \cup received \subseteq Issues
    BY DEF Sound, TokensTyped
  <2> QED
    BY <1>8, <2>1, <2>2, <2>3, <2>4, RefreshStep DEF Paired
<1>9. CASE Expire
  <2>1. \A j \in Issues : /\ refresh'[j].from = refresh[j].from
                          /\ refresh'[j].state # "none" <=> refresh[j].state # "none"
    <3>1. ASSUME NEW i \in Issues, refresh[i].state = "live",
                 refresh' = [refresh EXCEPT ![i] = [refresh[i] EXCEPT !.state = "expired"]]
          PROVE  \A j \in Issues : /\ refresh'[j].from = refresh[j].from
                                   /\ refresh'[j].state # "none" <=> refresh[j].state # "none"
      BY <3>1, TokenRestated DEF Sound, TokensTyped
    <3> QED
      BY <1>9, <3>1, ExpireStep
  <2>2. \A j \in Issues : /\ access'[j].from = access[j].from
                          /\ access'[j].state # "none" <=> access[j].state # "none"
    <3>1. ASSUME NEW i \in Issues, access[i].state = "live",
                 access' = [access EXCEPT ![i] = [access[i] EXCEPT !.state = "expired"]]
          PROVE  \A j \in Issues : /\ access'[j].from = access[j].from
                                   /\ access'[j].state # "none" <=> access[j].state # "none"
      BY <3>1, TokenRestated DEF Sound, TokensTyped
    <3> QED
      BY <1>9, <3>1, ExpireStep
  <2>3. answers \cup received \subseteq Issues /\ (loop.pc = "refresh" => loop.pair \in Issues)
    BY DEF Sound, TokensTyped, LoopFits, Fits
  <2>4. UNCHANGED <<loop, answers, received>>
    BY <1>9, ExpireStep
  <2> QED
    BY <2>1, <2>2, <2>3, <2>4 DEF Paired
<1>10. CASE Restart
  BY <1>10 DEF Restart, Finish, Idle, Paired, tables, client
<1> QED
  BY <1>1, <1>2, <1>3, <1>4, <1>5, <1>6, <1>7, <1>8, <1>9, <1>10, NextCases

(* oauth_repo.py:26-80: nothing the tables, the requests or the answers    *)
(* hold is ever without the client, the account or the code it is for.     *)
THEOREM ServerTyped == Spec => [](TypeOK /\ Sound /\ Paired)
<1>1. Init => Sound /\ Paired
  <2> SUFFICES ASSUME Init
               PROVE  Sound /\ Paired
    OBVIOUS
  <2>1. WorldTyped
    <3>1. users \in [Uids -> Names \cup {Nobody}] /\ named = users
      BY DEF Init
    <3>2. published \in [Cimd -> SUBSET Uris]
      BY Distinct DEF Init
    <3>3. versions \in [Cimd -> SUBSET SUBSET Uris]
      BY <3>2 DEF Init
    <3> QED
      BY <3>1, <3>2, <3>3 DEF WorldTyped
  <2>2. CodesTyped /\ TokensTyped
    BY DEF Init, CodesTyped, TokensTyped, Code, TokenRow
  <2>3. ClientsTyped /\ LoopFits /\ PagesFit
    BY IdleFits, PageIdle DEF Init, ClientsTyped, LoopFits, PagesFit
  <2>4. Paired
    BY DEF Init, Paired, Idle, NoToken
  <2> QED
    BY <2>1, <2>2, <2>3, <2>4 DEF Sound, Init
<1>2. Sound /\ Paired /\ [Next]_vars => (Sound /\ Paired)'
  BY SoundKept, PairedKept
<1> QED
  BY <1>1, <1>2, SoundIsTyped, PTL DEF Spec
-----------------------------------------------------------------------------
(* One approval is one grant.                                              *)

OneGrant(k) ==
    /\ codes[k].state \in {"none", "fresh"} => Live(k) = {} /\ ~IssuingFor(k)
    /\ IssuingFor(k) => Live(k) = {}
    /\ \A i, j \in Live(k) : i = j

LEMMA NothingYet ==
    ASSUME Sound, Init
    PROVE  \A k \in Codes : /\ Live(k) = {} /\ ~IssuingFor(k)
                           /\ codes[k].state = "none"
BY DEF Init, Live, IssuingFor, NoToken, NoCode, Idle

LEMMA GrantsKept ==
    ASSUME Sound, Paired, OneLiveRefresh, [Next]_vars
    PROVE  OneLiveRefresh'
<1> SUFFICES ASSUME NEW k \in Codes
             PROVE  OneGrant(k)'
  BY DEF OneLiveRefresh, OneGrant
<1>0. OneGrant(k)
  BY DEF OneLiveRefresh, OneGrant
<1>1. CASE UNCHANGED vars
  BY <1>0, <1>1 DEF vars, tables, OneGrant, Live, IssuingFor
<1>2. CASE Elsewhere
  BY <1>0, <1>2, ElsewhereKeeps DEF OneGrant, Live, IssuingFor
<1>3. ASSUME NEW l \in Codes, CreateCode(l)
      PROVE  OneGrant(k)'
  <2>1. codes[l].state = "none" /\ ~IssuingFor(k)' /\ UNCHANGED refresh
    BY <1>3 DEF CreateCode, NoCode, Finish, Idle, IssuingFor
  <2>2. k # l => codes'[k] = codes[k]
    BY <1>3 DEF CreateCode, Sound, CodesTyped
  <2> QED
    BY <1>0, <2>1, <2>2 DEF OneGrant, Live
<1>4. ASSUME NEW l \in Codes, NEW c, NEW uri, NEW s, NEW r,
             GrantAuthorizationCode(l, c, uri, s, r)
      PROVE  OneGrant(k)'
  <2>1. codes[l].state = "fresh" /\ UNCHANGED refresh /\ ~IssuingFor(k)
    BY <1>4, GrantedStep DEF Idle, IssuingFor
  <2>2. /\ codes'[l].state = "used"
        /\ k # l => codes'[k] = codes[k]
    BY <1>4, <2>1, GrantedStep, CodeRestatedAt DEF Sound, CodesTyped
  <2>3. IssuingFor(k)' => k = l
    BY <1>4, <2>1, GrantedStep, IssuingCarries DEF IssuingFor
  <2> QED
    BY <1>0, <2>1, <2>2, <2>3 DEF OneGrant, Live
<1>5. ASSUME NEW i \in Issues, NEW c, GrantRefreshToken(i, c)
      PROVE  OneGrant(k)'
  <2>1. i \in Live(refresh[i].from) /\ UNCHANGED codes /\ ~IssuingFor(k)
    BY <1>5, RotatedStep DEF Live, Idle, IssuingFor
  <2>2. Live(k)' = Live(k) \ {i}
    BY <1>5, RotatedStep DEF Live
  <2>3. IssuingFor(k)' => k = refresh[i].from
    BY <1>5, <2>1, RotatedStep, IssuingCarries DEF IssuingFor
  <2> QED
    BY <1>0, <2>1, <2>2, <2>3 DEF OneGrant
<1>6. ASSUME NEW i \in Issues, CreateAccessToken(i)
      PROVE  OneGrant(k)'
  BY <1>0, <1>6, AccessStep DEF OneGrant, Live, IssuingFor
<1>7. ASSUME NEW i \in Issues, Deliver(i) \/ Lose(i)
      PROVE  OneGrant(k)'
  BY <1>0, <1>7 DEF Deliver, Lose, tables, OneGrant, Live, IssuingFor
<1>8. CASE CreateRefreshToken
  <2>1. IssuingFor(loop.from) /\ ~IssuingFor(k)' /\ UNCHANGED codes
    BY <1>8, RefreshStep DEF IssuingFor, Idle
  <2>2. Token.state = "live" /\ Token.from = loop.from
    BY <1>8, RefreshStep, TokenTyped DEF Sound
  <2>3. refresh'[loop.pair] = Token /\ \A j \in Issues : j # loop.pair => refresh'[j] = refresh[j]
    BY <1>8, RefreshStep DEF Sound, TokensTyped
  <2>4. Live(k)' \subseteq IF k = loop.from THEN Live(k) \cup {loop.pair} ELSE Live(k)
    BY <2>2, <2>3 DEF Live
  <2> QED
    BY <1>0, <2>1, <2>4 DEF OneGrant
<1>9. CASE Expire
  <2>1. Live(k)' \subseteq Live(k)
    <3>1. ASSUME NEW i \in Issues, refresh[i].state = "live",
                 refresh' = [refresh EXCEPT ![i] = [refresh[i] EXCEPT !.state = "expired"]]
          PROVE  Live(k)' \subseteq Live(k)
      BY <3>1, TokenRestated DEF Sound, TokensTyped, Live
    <3> QED
      BY <1>9, <3>1, ExpireStep DEF Live
  <2>2. codes'[k].state \in {"none", "fresh"} => codes[k].state \in {"none", "fresh"}
    BY <1>9, ExpireStep, CodeRestated DEF Sound, CodesTyped
  <2>3. IssuingFor(k)' <=> IssuingFor(k)
    BY <1>9, ExpireStep DEF IssuingFor
  <2> QED
    BY <1>0, <2>1, <2>2, <2>3 DEF OneGrant
<1>10. CASE Restart
  BY <1>0, <1>10 DEF Restart, Finish, Idle, tables, OneGrant, Live, IssuingFor
<1> QED
  BY <1>1, <1>2, <1>3, <1>4, <1>5, <1>6, <1>7, <1>8, <1>9, <1>10, NextCases

(* routes/oauth.py:244-287, oauth_repo.py consume_code and                 *)
(* rotate_refresh_token: an approval is at any time worth one thing only,  *)
(* however many clients present codes and tokens in whatever order and     *)
(* wherever between two commits the server stops.                          *)
THEOREM OneGrantPerApproval == Spec => []OneLiveRefresh
<1>1. Init /\ Sound => OneLiveRefresh
  BY NothingYet DEF OneLiveRefresh
<1>2. Sound /\ Paired /\ OneLiveRefresh /\ [Next]_vars => OneLiveRefresh'
  BY GrantsKept
<1> QED
  BY <1>1, <1>2, ServerTyped, PTL DEF Spec
-----------------------------------------------------------------------------
(* What /mcp honours was consented to.                                     *)

(* A token, or the pair being issued, goes back to a code that was spent   *)
(* with its own verifier.                                                  *)
Backed(t) ==
    /\ codes[t.from].state = "used"
    /\ t.client = codes[t.from].client /\ t.uid = codes[t.from].uid
    /\ codes[t.from].resource # Nobody => t.resource = codes[t.from].resource
    /\ proof[t.from] = codes[t.from].secret

NamesHeld ==
    /\ \A u \in Uids : users[u] # Nobody => named[u] = users[u]
    /\ loop.pc = "create" => named[loop.uid] = loop.name
ApprovedCodes ==
    \A k \in Codes : codes[k].state # "none"
        => approver[k] # Nobody /\ named[codes[k].uid] = approver[k]
AllBacked ==
    /\ \A i \in Issues : /\ access[i].state # "none" => Backed(access[i])
                         /\ refresh[i].state # "none" => Backed(refresh[i])
    /\ loop.pc \in {"access", "refresh"} => Backed(loop)
Consented == NamesHeld /\ ApprovedCodes /\ AllBacked

LEMMA ConsentedIsEnough ==
    ASSUME Sound, Consented
    PROVE  HonouredMeansConsented
<1> SUFFICES ASSUME NEW i \in Issues, VerifyAccessToken(i)
             PROVE  LET k == access[i].from
                    IN /\ k \in Codes /\ codes[k].state = "used"
                       /\ access[i].client = codes[k].client
                       /\ codes[k].resource \in {Nobody, Mcp}
                       /\ proof[k] = codes[k].secret
                       /\ approver[k] # Nobody /\ named[access[i].uid] = approver[k]
  BY DEF HonouredMeansConsented
<1>1. access[i].state = "live" /\ access[i].resource \in {Nobody, Mcp}
  BY DEF VerifyAccessToken
<1>2. access[i].from \in Codes
  BY <1>1, TokenRowFits DEF Sound, TokensTyped
<1>3. Backed(access[i])
  BY <1>1 DEF Consented, AllBacked
<1> QED
  BY <1>1, <1>2, <1>3 DEF Backed, Consented, ApprovedCodes

LEMMA NamesFrame ==
    ASSUME Next
    PROVE  \/ UNCHANGED <<users, named>>
           \/ \E u \in Uids : Leave(u) \/ \E n \in Names : Join(u, n)
BY NextCases
   DEF Elsewhere, Register, PageCaches, AuthorizePage, Approve, Resolve, FormCaches, Decline,
       LookUpUser, Publish, CreateCode, GrantAuthorizationCode, GrantRefreshToken,
       CreateAccessToken, Deliver, Lose, CreateRefreshToken, Expire, Restart, world

LEMMA NamesStay ==
    ASSUME Sound, [Next]_vars, NEW u \in Uids, named[u] # Nobody
    PROVE  named'[u] = named[u]
<1>1. CASE UNCHANGED <<users, named>>
  BY <1>1
<1>2. CASE \E w \in Uids : Leave(w) \/ \E n \in Names : Join(w, n)
  BY <1>2 DEF Leave, Join, Sound, WorldTyped
<1> QED
  BY <1>1, <1>2, NamesFrame DEF vars, world

(* Who moves a request to where an address counts.                         *)
LEMMA CheckedFrame ==
    ASSUME Sound, Next, loop'.pc \in {"checked", "create"}
    PROVE  \/ UNCHANGED loop
           \/ (Resolve \/ FormCaches) /\ loop'.pc = "checked"
           \/ /\ LookUpUser /\ loop.pc = "checked"
              /\ loop'.client = loop.client /\ loop'.uri = loop.uri
<1>0. loop \in Request
  BY DEF Sound, LoopFits
<1>1. CASE LookUpUser
  <2>1. ~Finish
    BY DEF Finish, Idle
  <2>2. PICK u \in Uids : loop' = [loop EXCEPT !.pc = "create", !.uid = u]
    BY <1>1, <2>1 DEF LookUpUser
  <2> QED
    BY <1>0, <1>1, <2>2 DEF Request, LookUpUser
<1>2. CASE Resolve \/ FormCaches
  <2>1. ASSUME NEW list, CheckRedirect(list)
        PROVE  loop'.pc = "checked"
    BY <1>0, <2>1 DEF CheckRedirect, Goto, Finish, Idle, Request
  <2>2. ~Finish
    BY DEF Finish, Idle
  <2>3. loop' # [loop EXCEPT !.pc = "fetched", !.uris = published[loop.client]]
    BY <1>0 DEF Request
  <2> QED
    BY <1>2, <2>1, <2>2, <2>3 DEF Resolve, FormCaches
<1>3. CASE Elsewhere /\ ~(Resolve \/ FormCaches \/ LookUpUser)
  <2>1. ~Finish
    BY DEF Finish, Idle
  <2>2. ASSUME NEW u, NEW c, NEW uri, NEW s, NEW r, Approve(u, c, uri, s, r)
        PROVE  FALSE
    BY <2>2 DEF Approve, Idle
  <2>3. ~Decline
    BY <2>1 DEF Decline
  <2> QED
    BY <1>3, <2>2, <2>3 DEF Elsewhere, Register, PageCaches, AuthorizePage, Publish, Leave, Join
<1>4. ASSUME NEW k \in Codes, CreateCode(k)
      PROVE  FALSE
  BY <1>4 DEF CreateCode, Finish, Idle
<1>5. ASSUME NEW k \in Codes, NEW c, NEW uri, NEW s, NEW r,
             GrantAuthorizationCode(k, c, uri, s, r)
      PROVE  UNCHANGED loop
  BY <1>5, GrantedStep, IssuingCarries
<1>6. ASSUME NEW i \in Issues, NEW c, GrantRefreshToken(i, c)
      PROVE  UNCHANGED loop
  BY <1>6, RotatedStep, IssuingCarries
<1>7. ASSUME NEW i \in Issues, CreateAccessToken(i) \/ Deliver(i) \/ Lose(i)
      PROVE  UNCHANGED loop
  BY <1>7, AccessStep DEF Deliver, Lose
<1>8. CASE CreateRefreshToken \/ Restart
  BY <1>8, RefreshStep DEF Restart, Finish, Idle
<1>9. CASE Expire
  BY <1>9 DEF Expire
<1> QED
  BY <1>1, <1>2, <1>3, <1>4, <1>5, <1>6, <1>7, <1>8, <1>9, NextCases

LEMMA NamesHeldKept ==
    ASSUME Sound, NamesHeld, [Next]_vars
    PROVE  NamesHeld'
<1>1. \A u \in Uids : users'[u] # Nobody => named'[u] = users'[u]
  <2>1. CASE UNCHANGED <<users, named>>
    BY <2>1 DEF NamesHeld
  <2>2. CASE \E w \in Uids : Leave(w) \/ \E n \in Names : Join(w, n)
    BY <2>2 DEF NamesHeld, Leave, Join, Sound, WorldTyped
  <2> QED
    BY <2>1, <2>2, NamesFrame DEF vars, world
<1>2. ASSUME loop'.pc = "create"
      PROVE  named'[loop'.uid] = loop'.name
  <2>1. CASE UNCHANGED loop
    <3>1. loop.uid \in Uids /\ loop.name \in Names /\ named[loop.uid] = loop.name
      BY <1>2, <2>1 DEF Sound, LoopFits, Fits, NamesHeld
    <3> QED
      BY <2>1, <3>1, NamesStay, Distinct
  <2>2. CASE LookUpUser
    <3>1. loop.name \in Names /\ loop \in Request /\ UNCHANGED named
      BY <2>2 DEF LookUpUser, Sound, LoopFits, Fits, world
    <3>2. ~Finish
      BY <1>2 DEF Finish, Idle
    <3>3. PICK u \in Uids : users[u] = loop.name /\ loop' = [loop EXCEPT !.pc = "create", !.uid = u]
      BY <2>2, <3>2 DEF LookUpUser
    <3>4. loop'.uid = u /\ loop'.name = loop.name
      BY <3>1, <3>3 DEF Request
    <3> QED
      BY <3>1, <3>3, <3>4, Distinct DEF NamesHeld
  <2> QED
    BY <1>2, <2>1, <2>2, CheckedFrame DEF vars
<1> QED
  BY <1>1, <1>2 DEF NamesHeld

(* A code changes only its state, and never once it is spent.              *)
LEMMA CodesFrame ==
    ASSUME Sound, [Next]_vars, NEW k \in Codes
    PROVE  \/ /\ codes'[k].state # "none" => codes[k].state # "none"
              /\ SameGrant(codes'[k], codes[k]) /\ approver'[k] = approver[k]
              /\ codes[k].state = "used" => codes'[k] = codes[k] /\ proof'[k] = proof[k]
           \/ CreateCode(k) /\ codes[k].state = "none"
<1>0. codes \in [Codes -> Code] /\ approver \in [Codes -> Names \cup {Nobody}]
      /\ proof \in [Codes -> Secrets \cup {Nobody}]
  BY DEF Sound, CodesTyped
<1>1. CASE UNCHANGED <<codes, approver, proof>>
  BY <1>1 DEF SameGrant
<1>2. ASSUME NEW l \in Codes, CreateCode(l), l # k
      PROVE  codes'[k] = codes[k] /\ approver'[k] = approver[k] /\ proof'[k] = proof[k]
  BY <1>0, <1>2 DEF CreateCode
<1>3. CASE CreateCode(k)
  BY <1>3 DEF CreateCode, NoCode
<1>4. ASSUME NEW l \in Codes, NEW c, NEW uri, NEW s, NEW r,
             GrantAuthorizationCode(l, c, uri, s, r)
      PROVE  /\ codes'[k].state # "none" => codes[k].state # "none"
             /\ SameGrant(codes'[k], codes[k]) /\ approver'[k] = approver[k]
             /\ codes[k].state = "used" => codes'[k] = codes[k] /\ proof'[k] = proof[k]
  <2>1. codes[l].state = "fresh" /\ UNCHANGED approver
    BY <1>4, GrantedStep
  <2>2. codes'[l].state = "used" /\ SameGrant(codes'[l], codes[l])
        /\ \A j \in Codes : j # l => codes'[j] = codes[j]
    BY <1>0, <1>4, <2>1, GrantedStep, CodeRestatedAt
  <2>3. k # l => proof'[k] = proof[k]
    BY <1>0, <1>4, GrantedStep
  <2> QED
    BY <2>1, <2>2, <2>3 DEF SameGrant
<1>5. CASE Expire
  <2>1. ASSUME NEW l \in Codes, codes[l].state = "fresh",
               codes' = [codes EXCEPT ![l] = [codes[l] EXCEPT !.state = "expired"]]
        PROVE  /\ codes'[k].state # "none" => codes[k].state # "none"
               /\ SameGrant(codes'[k], codes[k])
               /\ codes[k].state = "used" => codes'[k] = codes[k]
    <3>1. codes'[l].state = "expired" /\ SameGrant(codes'[l], codes[l])
          /\ \A j \in Codes : j # l => codes'[j] = codes[j]
      BY <1>0, <2>1, CodeRestatedAt
    <3> QED
      BY <2>1, <3>1 DEF SameGrant
  <2>2. CASE UNCHANGED codes
    BY <1>5, <2>2, ExpireStep DEF SameGrant
  <2> QED
    BY <1>5, <2>1, <2>2, ExpireStep
<1>6. CASE Elsewhere
  BY <1>1, <1>6, ElsewhereKeeps
<1>7. ASSUME \/ \E i \in Issues : \E c \in Clients \cup {Nobody} : GrantRefreshToken(i, c)
             \/ \E i \in Issues : CreateAccessToken(i) \/ Deliver(i) \/ Lose(i)
             \/ CreateRefreshToken \/ Restart
      PROVE  UNCHANGED <<codes, approver, proof>>
  BY <1>7, RotatedStep, AccessStep, RefreshStep DEF Deliver, Lose, Restart, tables, history
<1>8. CASE UNCHANGED vars
  BY <1>1, <1>8 DEF vars, tables, history
<1> QED
  BY <1>1, <1>2, <1>3, <1>4, <1>5, <1>6, <1>7, <1>8, NextCases DEF SameGrant

LEMMA ApprovedKept ==
    ASSUME Sound, NamesHeld, ApprovedCodes, [Next]_vars
    PROVE  ApprovedCodes'
<1> SUFFICES ASSUME NEW k \in Codes, codes'[k].state # "none"
             PROVE  approver'[k] # Nobody /\ named'[codes'[k].uid] = approver'[k]
  BY DEF ApprovedCodes
<1>1. CASE codes[k].state # "none" /\ SameGrant(codes'[k], codes[k]) /\ approver'[k] = approver[k]
  <2>1. codes[k].uid \in Uids /\ codes'[k].uid = codes[k].uid
    BY <1>1, CodeRow DEF Sound, CodesTyped, SameGrant
  <2> QED
    BY <1>1, <2>1, NamesStay DEF ApprovedCodes
<1>2. CASE CreateCode(k)
  <2>1. /\ codes'[k].uid = loop.uid /\ approver'[k] = loop.name
        /\ loop.pc = "create" /\ UNCHANGED named
    BY <1>2 DEF CreateCode, Sound, CodesTyped, world
  <2>2. loop.name \in Names
    BY <2>1 DEF Sound, LoopFits, Fits
  <2> QED
    BY <2>1, <2>2, Distinct DEF NamesHeld
<1> QED
  BY <1>1, <1>2, CodesFrame

LEMMA BackedStays ==
    ASSUME Sound, [Next]_vars, NEW t, NEW u, t.from \in Codes, Backed(t), SameToken(u, t)
    PROVE  Backed(u)'
<1>1. codes[t.from].state = "used"
  BY DEF Backed
<1>2. codes'[t.from] = codes[t.from] /\ proof'[t.from] = proof[t.from]
  BY <1>1, CodesFrame
<1> QED
  BY <1>2 DEF Backed, SameToken

LEMMA AllBackedKept ==
    ASSUME Sound, Paired, AllBacked, [Next]_vars
    PROVE  AllBacked'
<1>0. access \in [Issues -> TokenRow] /\ refresh \in [Issues -> TokenRow]
  BY DEF Sound, TokensTyped
<1>a. ASSUME NEW i \in Issues
      PROVE  /\ access[i].state # "none" => access[i].from \in Codes /\ Backed(access[i])
             /\ refresh[i].state # "none" => refresh[i].from \in Codes /\ Backed(refresh[i])
  BY <1>0, TokenRowFits DEF AllBacked
<1>b. loop.pc \in {"access", "refresh"} => loop.from \in Codes /\ Backed(loop)
  BY DEF AllBacked, Sound, LoopFits, Fits
<1>1. ASSUME NEW i \in Issues, access'[i].state # "none"
      PROVE  Backed(access[i])'
  <2>1. CASE access[i].state # "none" /\ SameToken(access'[i], access[i])
    BY <1>a, <2>1, BackedStays
  <2>2. CASE access'[i] = access[i]
    BY <1>1, <2>1, <2>2 DEF SameToken
  <2>3. ASSUME NEW j \in Issues, CreateAccessToken(j)
        PROVE  Backed(access[i])'
    <3>1. CASE i = j
      <4>1. access'[i] = Token /\ loop.pc = "access"
        BY <1>0, <2>3, <3>1, AccessStep
      <4>2. SameToken(access'[i], loop)
        BY <4>1, TokenTyped DEF Sound, SameToken
      <4> QED
        BY <1>b, <4>1, <4>2, BackedStays
    <3>2. CASE i # j
      BY <1>0, <2>2, <2>3, <3>2, AccessStep
    <3> QED
      BY <3>1, <3>2
  <2>4. CASE Expire
    <3>1. ASSUME NEW j \in Issues, access[j].state = "live",
                 access' = [access EXCEPT ![j] = [access[j] EXCEPT !.state = "expired"]]
          PROVE  Backed(access[i])'
      <4>1. i = j => access[i].state # "none" /\ SameToken(access'[i], access[i])
        BY <1>0, <3>1, TokenRestated
      <4>2. i # j => access'[i] = access[i]
        BY <1>0, <3>1
      <4> QED
        BY <2>1, <2>2, <4>1, <4>2
    <3> QED
      BY <2>2, <2>4, <3>1, ExpireStep
  <2>5. ASSUME ~Expire, ~\E j \in Issues : CreateAccessToken(j)
        PROVE  access' = access
    BY <2>5, NextCases, ElsewhereKeeps, GrantedStep, RotatedStep, RefreshStep
       DEF CreateCode, Deliver, Lose, Restart, vars, tables
  <2> QED
    BY <2>2, <2>3, <2>4, <2>5
<1>2. ASSUME NEW i \in Issues, refresh'[i].state # "none"
      PROVE  Backed(refresh[i])'
  <2>1. CASE refresh[i].state # "none" /\ SameToken(refresh'[i], refresh[i])
    BY <1>a, <2>1, BackedStays
  <2>2. CASE refresh'[i] = refresh[i]
    BY <1>2, <2>1, <2>2 DEF SameToken
  <2>3. CASE CreateRefreshToken
    <3>1. CASE i = loop.pair
      <4>1. refresh'[i] = Token /\ loop.pc = "refresh"
        BY <1>0, <2>3, <3>1, RefreshStep
      <4>2. SameToken(refresh'[i], loop)
        BY <4>1, TokenTyped DEF Sound, SameToken
      <4> QED
        BY <1>b, <4>1, <4>2, BackedStays
    <3>2. CASE i # loop.pair
      BY <1>0, <2>2, <2>3, <3>2, RefreshStep
    <3> QED
      BY <3>1, <3>2
  <2>4. ASSUME NEW j \in Issues, NEW st \in {"rotated", "expired"}, refresh[j].state = "live",
               refresh' = [refresh EXCEPT ![j] = [refresh[j] EXCEPT !.state = st]]
        PROVE  Backed(refresh[i])'
    <3>1. i = j => refresh[i].state # "none" /\ SameToken(refresh'[i], refresh[i])
      BY <1>0, <2>4, TokenRestated
    <3>2. i # j => refresh'[i] = refresh[i]
      BY <1>0, <2>4
    <3> QED
      BY <2>1, <2>2, <3>1, <3>2
  <2>5. CASE Expire
    BY <2>2, <2>4, <2>5, ExpireStep
  <2>6. ASSUME NEW j \in Issues, NEW c, GrantRefreshToken(j, c)
        PROVE  Backed(refresh[i])'
    BY <2>4, <2>6 DEF GrantRefreshToken, RotateRefreshToken
  <2>7. ASSUME ~Expire, ~CreateRefreshToken,
               ~\E j \in Issues : \E c \in Clients \cup {Nobody} : GrantRefreshToken(j, c)
        PROVE  refresh' = refresh
    BY <2>7, NextCases, ElsewhereKeeps, GrantedStep, AccessStep
       DEF CreateCode, Deliver, Lose, Restart, vars, tables
  <2> QED
    BY <2>2, <2>3, <2>5, <2>6, <2>7
<1>3. ASSUME loop'.pc \in {"access", "refresh"}
      PROVE  Backed(loop)'
  <2>1. CASE loop.pc \in {"access", "refresh"} /\ SameToken(loop', loop)
    BY <1>b, <2>1, BackedStays
  <2>2. CASE UNCHANGED loop
    BY <1>3, <2>1, <2>2 DEF SameToken
  <2>3. ASSUME NEW k \in Codes, NEW c, NEW uri, NEW s, NEW r,
               GrantAuthorizationCode(k, c, uri, s, r), ~UNCHANGED loop
        PROVE  Backed(loop)'
    <3>1. /\ Accepts(codes[k], c, uri, s, r) /\ codes[k].state = "fresh"
          /\ Issuing(codes[k], k, IF codes[k].resource # Nobody THEN codes[k].resource ELSE r)
          /\ proof' = [proof EXCEPT ![k] = s]
          /\ codes' = [codes EXCEPT ![k] = [codes[k] EXCEPT !.state = "used"]]
      BY <2>3, GrantedStep
    <3>2. codes'[k].state = "used" /\ SameGrant(codes'[k], codes[k])
      BY <3>1, CodeRestatedAt DEF Sound, CodesTyped
    <3>3. proof'[k] = codes[k].secret
      BY <3>1 DEF Sound, CodesTyped, Accepts
    <3>4. /\ loop'.from = k /\ loop'.client = codes[k].client /\ loop'.uid = codes[k].uid
          /\ codes[k].resource # Nobody => loop'.resource = codes[k].resource
      BY <3>1, IssuingCarries
    <3> QED
      BY <3>2, <3>3, <3>4 DEF Backed, SameGrant
  <2>4. ASSUME NEW i \in Issues, NEW c, GrantRefreshToken(i, c), ~UNCHANGED loop
        PROVE  Backed(loop)'
    <3>1. /\ refresh[i].state = "live"
          /\ Issuing(refresh[i], refresh[i].from, refresh[i].resource)
      BY <2>4, RotatedStep
    <3>2. SameToken(loop', refresh[i])
      BY <3>1, IssuingCarries DEF SameToken
    <3> QED
      BY <1>a, <3>1, <3>2, BackedStays
  <2>5. ASSUME NEW i \in Issues, CreateAccessToken(i)
        PROVE  Backed(loop)'
    BY <2>1, <2>5, AccessStep DEF SameToken
  <2>6. Elsewhere => UNCHANGED loop
    BY <1>3, ElsewhereKeeps
  <2>7. ASSUME \/ \E k \in Codes : CreateCode(k)
               \/ \E i \in Issues : Deliver(i) \/ Lose(i)
               \/ CreateRefreshToken \/ Expire \/ Restart \/ UNCHANGED vars
        PROVE  UNCHANGED loop
    BY <1>3, <2>7, RefreshStep DEF CreateCode, Deliver, Lose, Expire, Restart, Finish, Idle, vars
  <2> QED
    BY <2>2, <2>3, <2>4, <2>5, <2>6, <2>7, NextCases
<1> QED
  BY <1>1, <1>2, <1>3 DEF AllBacked

(* oauth.py:472-489, routes/oauth.py:150-287: an access token /mcp honours *)
(* was consented to by a member of the name its account had, for that      *)
(* client and resource, and its code was redeemed with its own verifier,   *)
(* whoever left or came back between any two steps.                        *)
THEOREM HonouredIsConsented == Spec => []HonouredMeansConsented
<1>1. Init => Consented
  BY DEF Init, Consented, NamesHeld, ApprovedCodes, AllBacked, NoCode, NoToken, Idle
<1>2. Sound /\ Paired /\ Consented /\ [Next]_vars => Consented'
  BY NamesHeldKept, ApprovedKept, AllBackedKept DEF Consented
<1>3. Sound /\ Consented => HonouredMeansConsented
  BY ConsentedIsEnough
<1> QED
  BY <1>1, <1>2, <1>3, ServerTyped, PTL DEF Spec
-----------------------------------------------------------------------------
(* A client that met no fault can go on.                                   *)

KeepsUp(k) ==
    codes[k].state # "none" /\ k \notin upset =>
        \/ codes[k].state \in {"fresh", "expired"} \/ IssuingFor(k)
        \/ Live(k) # {} /\ Live(k) \subseteq answers \cup received
        \/ \E i \in Issues : refresh[i].from = k /\ refresh[i].state = "expired"

LEMMA KeepsUpKept ==
    ASSUME Sound, Paired, OneLiveRefresh, NEW k \in Codes, KeepsUp(k), [Next]_vars
    PROVE  KeepsUp(k)'
<1>0. /\ refresh \in [Issues -> TokenRow] /\ codes \in [Codes -> Code]
      /\ answers \cup received \subseteq Issues
  BY DEF Sound, TokensTyped, CodesTyped
<1>1. CASE UNCHANGED <<codes, refresh, answers, received, upset, loop>>
  BY <1>1 DEF KeepsUp, Live, IssuingFor
<1>2. CASE Elsewhere
  BY <1>2, ElsewhereKeeps DEF KeepsUp, Live, IssuingFor
<1>3. ASSUME NEW l \in Codes, CreateCode(l)
      PROVE  KeepsUp(k)'
  <2>1. /\ codes'[l].state = "fresh" /\ UNCHANGED <<refresh, answers, received, upset>>
        /\ ~IssuingFor(k) /\ (l # k => codes'[k] = codes[k])
    BY <1>0, <1>3 DEF CreateCode, IssuingFor, client
  <2> QED
    BY <2>1 DEF KeepsUp, Live
<1>4. ASSUME NEW l \in Codes, NEW c, NEW uri, NEW s, NEW r,
             GrantAuthorizationCode(l, c, uri, s, r)
      PROVE  KeepsUp(k)'
  <2>1. /\ ~IssuingFor(k) /\ UNCHANGED <<refresh, answers, received>>
        /\ codes[l].state = "fresh" /\ upset \subseteq upset'
    BY <1>4, GrantedStep DEF Idle, IssuingFor
  <2>2. l # k => codes'[k] = codes[k]
    BY <1>0, <1>4, <2>1, GrantedStep, CodeRestatedAt
  <2>3. l \in upset' \/ IssuingFor(l)'
    BY <1>4, GrantedStep, IssuingCarries DEF IssuingFor
  <2> QED
    BY <2>1, <2>2, <2>3 DEF KeepsUp, Live
<1>5. ASSUME NEW i \in Issues, NEW c, GrantRefreshToken(i, c)
      PROVE  KeepsUp(k)'
  <2>1. /\ ~IssuingFor(k) /\ UNCHANGED <<codes, answers, received>> /\ upset \subseteq upset'
        /\ refresh[i].state = "live"
    BY <1>5, RotatedStep DEF Idle, IssuingFor
  <2>2. refresh[i].from \in upset' \/ IssuingFor(refresh[i].from)'
    BY <1>5, RotatedStep, IssuingCarries DEF IssuingFor
  <2>3. \A j \in Issues : j # i => refresh'[j] = refresh[j]
    BY <1>5, RotatedStep
  <2>4. refresh[i].from # k => Live(k)' = Live(k)
    BY <1>5, <2>3, RotatedStep DEF Live
  <2>5. CASE refresh[i].from = k
    BY <1>5, <2>2, <2>5, RotatedStep DEF KeepsUp
  <2>6. CASE refresh[i].from # k
    <3>1. \A j \in Issues : refresh[j].from = k /\ refresh[j].state = "expired"
                             => refresh'[j].from = k /\ refresh'[j].state = "expired"
      BY <2>3, <2>6
    <3>2. CASE k \in upset'
      BY <3>2 DEF KeepsUp
    <3>3. CASE codes[k].state \in {"none", "fresh", "expired"}
      BY <2>1, <3>3 DEF KeepsUp
    <3>4. CASE Live(k) # {} /\ Live(k) \subseteq answers \cup received
      BY <2>1, <2>4, <2>6, <3>4 DEF KeepsUp
    <3>5. CASE \E j \in Issues : refresh[j].from = k /\ refresh[j].state = "expired"
      BY <3>1, <3>5 DEF KeepsUp
    <3> QED
      BY <2>1, <3>2, <3>3, <3>4, <3>5 DEF KeepsUp
  <2> QED
    BY <2>5, <2>6
<1>6. ASSUME NEW i \in Issues, CreateAccessToken(i)
      PROVE  KeepsUp(k)'
  BY <1>6, AccessStep DEF KeepsUp, Live, IssuingFor
<1>7. ASSUME NEW i \in Issues, Deliver(i)
      PROVE  KeepsUp(k)'
  BY <1>7 DEF Deliver, KeepsUp, Live, IssuingFor, tables, history
<1>8. ASSUME NEW i \in Issues, Lose(i)
      PROVE  KeepsUp(k)'
  <2>1. access[i].from = refresh[i].from
    BY <1>8 DEF Lose, Paired
  <2>2. /\ UNCHANGED <<codes, refresh, loop, received>> /\ answers' = answers \ {i}
        /\ upset' = upset \cup {access[i].from}
    BY <1>8 DEF Lose, tables
  <2>3. Live(k)' = Live(k) /\ (k \notin upset' => i \notin Live(k))
    BY <2>1, <2>2 DEF Live
  <2> QED
    BY <2>2, <2>3 DEF KeepsUp, IssuingFor
<1>9. CASE CreateRefreshToken
  <2>1. /\ UNCHANGED <<codes, received, upset>> /\ loop.pair \in Issues
        /\ answers' = answers \cup {loop.pair} /\ refresh[loop.pair].state = "none"
    BY <1>9, RefreshStep DEF Paired
  <2>2. Token.state = "live" /\ Token.from = loop.from
    BY <1>9, RefreshStep, TokenTyped DEF Sound
  <2>3. refresh'[loop.pair] = Token /\ \A j \in Issues : j # loop.pair => refresh'[j] = refresh[j]
    BY <1>0, <1>9, RefreshStep
  <2>4. CASE k = loop.from
    <3>1. Live(k) = {}
      BY <1>9, <2>4, RefreshStep DEF OneLiveRefresh, IssuingFor
    <3>2. Live(k)' = {loop.pair}
      BY <2>1, <2>2, <2>3, <2>4, <3>1 DEF Live
    <3> QED
      BY <2>1, <3>2 DEF KeepsUp
  <2>5. CASE k # loop.from
    <3>1. Live(k)' = Live(k) /\ ~IssuingFor(k)
      BY <2>1, <2>2, <2>3, <2>5 DEF Live, IssuingFor
    <3> QED
      BY <2>1, <2>3, <3>1 DEF KeepsUp
  <2> QED
    BY <2>4, <2>5
<1>10. CASE Expire
  <2>1. UNCHANGED <<loop, answers, received, upset>>
    BY <1>10, ExpireStep
  <2>2. ASSUME NEW l \in Codes, codes[l].state = "fresh", UNCHANGED refresh,
               codes' = [codes EXCEPT ![l] = [codes[l] EXCEPT !.state = "expired"]]
        PROVE  KeepsUp(k)'
    <3>1. codes'[l].state = "expired" /\ \A j \in Codes : j # l => codes'[j] = codes[j]
      BY <1>0, <2>2, CodeRestatedAt
    <3> QED
      BY <2>1, <2>2, <3>1 DEF KeepsUp, Live, IssuingFor
  <2>3. ASSUME NEW i \in Issues, refresh[i].state = "live", UNCHANGED codes,
               refresh' = [refresh EXCEPT ![i] = [refresh[i] EXCEPT !.state = "expired"]]
        PROVE  KeepsUp(k)'
    <3>1. refresh'[i].state = "expired" /\ refresh'[i].from = refresh[i].from
          /\ \A j \in Issues : j # i => refresh'[j] = refresh[j]
      <4> DEFINE row == [refresh[i] EXCEPT !.state = "expired"]
      <4>1. row.state = "expired" /\ row.from = refresh[i].from
        BY <1>0, <2>3, TokenRestated
      <4>2. refresh' = [refresh EXCEPT ![i] = row]
        BY <2>3
      <4> HIDE DEF row
      <4> QED
        BY <1>0, <4>1, <4>2
    <3>2. refresh[i].from # k => Live(k)' = Live(k)
      BY <3>1 DEF Live
    <3> QED
      BY <2>1, <2>3, <3>1, <3>2 DEF KeepsUp, IssuingFor
  <2> QED
    BY <1>1, <1>10, <2>1, <2>2, <2>3, ExpireStep
<1>11. CASE Restart
  BY <1>11 DEF Restart, KeepsUp, Live, IssuingFor, tables, client
<1> QED
  BY <1>1, <1>2, <1>3, <1>4, <1>5, <1>6, <1>7, <1>8, <1>9, <1>10, <1>11, NextCases
     DEF vars, tables, client, history

(* routes/oauth.py:223-287: rotation comes before the answer, yet a client *)
(* is stranded by nothing but a lost answer, a stop of the server or a     *)
(* field it got wrong - or by waiting until its token expired.             *)
THEOREM ClientsKeepUp == Spec => []ClientKeepsUp
<1>1. Init => \A k \in Codes : KeepsUp(k)
  BY DEF Init, KeepsUp, NoCode
<1>2. Sound /\ Paired /\ OneLiveRefresh /\ (\A k \in Codes : KeepsUp(k)) /\ [Next]_vars
      => (\A k \in Codes : KeepsUp(k))'
  BY KeepsUpKept
<1>3. Sound /\ (\A k \in Codes : KeepsUp(k)) => ClientKeepsUp
  BY CodeIsNoCode DEF ClientKeepsUp, KeepsUp, Sound, CodesTyped
<1> QED
  BY <1>1, <1>2, <1>3, ServerTyped, OneGrantPerApproval, PTL DEF Spec
-----------------------------------------------------------------------------
(* Codes go where the client is.                                           *)

Home(c, uri) ==
    \E list \in Lists(c) : \E u \in list :
        uri = u \/ ({uri, u} \subseteq Loopback /\ Base[uri] = Base[u])

(* A list in hand is one the client has held.                              *)
ListsHeld ==
    /\ \A c \in Cimd : /\ published[c] # {} => published[c] \in versions[c]
                       /\ cache[c].fresh => cache[c].uris \in versions[c]
    /\ \A p \in Pages : page[p].pc = "fetched" => page[p].uris \in versions[page[p].client]
    /\ loop.pc = "fetched" => loop.uris \in versions[loop.client]
AtHome ==
    /\ loop.pc \in {"checked", "create"} => Home(loop.client, loop.uri)
    /\ \A k \in Codes : codes[k].state # "none" => Home(codes[k].client, codes[k].uri)

LEMMA Kinds ==
    ASSUME NEW c \in Cimd
    PROVE  c \notin Registrable /\ c \notin Known /\ c \in Clients
BY OAuthAssumption DEF Clients

LEMMA DocumentIsHome ==
    ASSUME NEW c \in Cimd, NEW uri, NEW list \in versions[c], RedirectUriAllowed(list, uri)
    PROVE  Home(c, uri)
BY Kinds DEF Home, Lists, RedirectUriAllowed

LEMMA StoredIsHome ==
    ASSUME ListsHeld, NEW c \in Clients, NEW uri, RedirectUriAllowed(Stored(c), uri)
    PROVE  Home(c, uri)
<1>1. CASE c \in Cimd
  <2>1. Stored(c) = IF cache[c].fresh THEN cache[c].uris ELSE {}
    BY <1>1, Kinds DEF Stored
  <2>2. Stored(c) # {}
    BY DEF RedirectUriAllowed
  <2>3. Stored(c) \in versions[c]
    BY <1>1, <2>1, <2>2 DEF ListsHeld
  <2>4. \A list \in versions[c] : RedirectUriAllowed(list, uri) => Home(c, uri)
    BY <1>1, DocumentIsHome
  <2> QED
    BY <2>3, <2>4
<1>2. CASE c \in Registrable
  BY <1>2 DEF Home, Lists, Stored, RedirectUriAllowed
<1>3. CASE c \in Known
  BY <1>3, OAuthAssumption DEF Home, Lists, Stored, RedirectUriAllowed
<1> QED
  BY <1>1, <1>2, <1>3 DEF Clients

(* Who writes what a client registers and publishes, and the copies.       *)
LEMMA ListsFrame ==
    ASSUME Sound, [Next]_vars
    PROVE  \/ UNCHANGED <<clients, published, versions>>
           \/ \E c \in Registrable, uris \in Documents : Register(c, uris)
           \/ \E c \in Cimd, uris \in Documents \cup {{}} : Publish(c, uris)
BY NextCases
   DEF Elsewhere, PageCaches, AuthorizePage, Approve, Resolve, FormCaches, Decline, LookUpUser,
       Leave, Join, CreateCode, GrantAuthorizationCode, GrantRefreshToken, CreateAccessToken,
       Deliver, Lose, CreateRefreshToken, Expire, Restart, vars, world, tables, history

LEMMA VersionsGrow ==
    ASSUME Sound, [Next]_vars, NEW c \in Cimd
    PROVE  versions[c] \subseteq versions'[c]
<1>1. ASSUME NEW d \in Cimd, NEW uris, Publish(d, uris)
      PROVE  versions[c] \subseteq versions'[c]
  <2>1. versions' = [versions EXCEPT ![d] = versions[d] \cup ({uris} \ {{}})]
    BY <1>1 DEF Publish
  <2> QED
    BY <2>1 DEF Sound, WorldTyped
<1>2. ASSUME NEW d, NEW uris, Register(d, uris)
      PROVE  UNCHANGED versions
  BY <1>2 DEF Register, history
<1> QED
  BY <1>1, <1>2, ListsFrame

LEMMA HomeStays ==
    ASSUME Sound, [Next]_vars, NEW c \in Clients, NEW uri, Home(c, uri)
    PROVE  Home(c, uri)'
<1>1. CASE c \in Cimd
  BY <1>1, VersionsGrow, Kinds DEF Home, Lists
<1>2. CASE c \in Registrable
  <2>1. clients[c] # {}
    <3>1. Lists(c) = {clients[c]}
      BY <1>2, OAuthAssumption DEF Lists
    <3> QED
      BY <3>1 DEF Home
  <2>2. clients'[c] = clients[c]
    <3>1. ASSUME NEW d \in Registrable, NEW list, Register(d, list)
          PROVE  clients'[c] = clients[c]
      <4>1. clients' = [clients EXCEPT ![d] = list] /\ clients[d] = {}
        BY <3>1 DEF Register
      <4> QED
        BY <1>2, <2>1, <4>1 DEF Sound, ClientsTyped
    <3>2. ASSUME NEW d, NEW list, Publish(d, list)
          PROVE  UNCHANGED clients
      BY <3>2 DEF Publish, tables
    <3> QED
      BY <3>1, <3>2, ListsFrame
  <2> QED
    BY <1>2, <2>2 DEF Home, Lists
<1>3. CASE c \in Known /\ c \notin Registrable
  BY <1>3 DEF Home, Lists
<1> QED
  BY <1>1, <1>2, <1>3 DEF Clients

LEMMA CopiesFrame ==
    ASSUME Sound, Next
    PROVE  \/ UNCHANGED <<cache, page>> /\ (loop'.pc = "fetched" => UNCHANGED loop \/ Resolve)
           \/ FormCaches
           \/ \E p \in Pages : PageCaches(p) \/ \E c \in Cimd : AuthorizePage(p, c)
           \/ Expire \/ Restart
<1>1. CASE Elsewhere
  <2>1. ASSUME Decline \/ LookUpUser
        PROVE  UNCHANGED <<cache, page>> /\ loop'.pc # "fetched"
    <3>1. UNCHANGED <<cache, page>> /\ loop \in Request
      BY <2>1 DEF Decline, LookUpUser, tables, Sound, LoopFits
    <3>2. Finish => loop'.pc # "fetched"
      BY DEF Finish, Idle
    <3>3. ASSUME NEW u, loop' = [loop EXCEPT !.pc = "create", !.uid = u]
          PROVE  loop'.pc # "fetched"
      BY <3>1, <3>3 DEF Request
    <3> QED
      BY <2>1, <3>1, <3>2, <3>3 DEF Decline, LookUpUser
  <2>2. ASSUME NEW u, NEW c, NEW uri, NEW s, NEW r, Approve(u, c, uri, s, r)
        PROVE  UNCHANGED <<cache, page>> /\ loop'.pc # "fetched"
    BY <2>2 DEF Approve, tables, Idle
  <2>3. ASSUME \/ \E c \in Registrable, uris \in Documents : Register(c, uris)
               \/ Resolve
               \/ \E c \in Cimd, uris \in Documents \cup {{}} : Publish(c, uris)
               \/ \E u \in Uids : Leave(u) \/ \E n \in Names : Join(u, n)
        PROVE  UNCHANGED <<cache, page>> /\ (UNCHANGED loop \/ Resolve)
    BY <2>3 DEF Register, Resolve, Publish, Leave, Join, tables
  <2> QED
    BY <1>1, <2>1, <2>2, <2>3 DEF Elsewhere
<1>2. ASSUME NEW k \in Codes, CreateCode(k)
      PROVE  UNCHANGED <<cache, page>> /\ loop'.pc # "fetched"
  BY <1>2 DEF CreateCode, Finish, Idle
<1>3. ASSUME NEW k \in Codes, NEW c, NEW uri, NEW s, NEW r,
             GrantAuthorizationCode(k, c, uri, s, r)
      PROVE  UNCHANGED <<cache, page>> /\ (loop'.pc = "fetched" => UNCHANGED loop)
  <2>1. UNCHANGED <<cache, page>>
    BY <1>3 DEF GrantAuthorizationCode
  <2> QED
    BY <1>3, <2>1, GrantedStep, IssuingCarries
<1>4. ASSUME NEW i \in Issues, NEW c, GrantRefreshToken(i, c)
      PROVE  UNCHANGED <<cache, page>> /\ (loop'.pc = "fetched" => UNCHANGED loop)
  <2>1. UNCHANGED <<cache, page>>
    BY <1>4 DEF GrantRefreshToken
  <2> QED
    BY <1>4, <2>1, RotatedStep, IssuingCarries
<1>5. ASSUME NEW i \in Issues, CreateAccessToken(i) \/ Deliver(i) \/ Lose(i)
      PROVE  UNCHANGED <<cache, page>> /\ (loop'.pc = "fetched" => UNCHANGED loop)
  <2>1. UNCHANGED <<cache, page>>
    BY <1>5 DEF CreateAccessToken, Deliver, Lose, tables
  <2> QED
    BY <1>5, <2>1, AccessStep DEF Deliver, Lose
<1>6. CASE CreateRefreshToken
  BY <1>6 DEF CreateRefreshToken, Finish, Idle
<1> QED
  BY <1>1, <1>2, <1>3, <1>4, <1>5, <1>6, NextCases

LEMMA ListsHeldKept ==
    ASSUME Sound, ListsHeld, [Next]_vars
    PROVE  ListsHeld'
<1>a. /\ cache \in [Cimd -> [uris : SUBSET Uris, fresh : BOOLEAN]]
      /\ page \in [Pages -> PageRequest]
      /\ loop \in Request /\ (loop.pc = "fetched" => loop.client \in Cimd)
      /\ \A p \in Pages : page[p].pc = "fetched" => page[p].client \in Cimd
  BY DEF Sound, ClientsTyped, PagesFit, LoopFits, Fits
<1>1. \A c \in Cimd : published'[c] # {} => published'[c] \in versions'[c]
  <2>1. ASSUME NEW c \in Cimd, NEW list, Publish(c, list)
        PROVE  \A d \in Cimd : published'[d] # {} => published'[d] \in versions'[d]
    <3>1. /\ published' = [published EXCEPT ![c] = list]
          /\ versions' = [versions EXCEPT ![c] = versions[c] \cup ({list} \ {{}})]
      BY <2>1 DEF Publish
    <3> QED
      BY <3>1 DEF Sound, WorldTyped, ListsHeld
  <2>2. ASSUME NEW c, NEW list, Register(c, list)
        PROVE  UNCHANGED <<published, versions>>
    BY <2>2 DEF Register, world, history
  <2> QED
    BY <2>1, <2>2, ListsFrame DEF ListsHeld
<1>2. \A c \in Cimd : cache'[c].fresh => cache'[c].uris \in versions'[c]
  <2>1. ASSUME NEW c \in Cimd, NEW list \in versions[c], CacheCimd(c, list)
        PROVE  \A d \in Cimd : cache'[d].fresh => cache'[d].uris \in versions'[d]
    BY <1>a, <2>1, VersionsGrow DEF CacheCimd, ListsHeld
  <2>2. CASE UNCHANGED cache
    BY <2>2, VersionsGrow DEF ListsHeld
  <2>3. CASE FormCaches
    BY <1>a, <2>1, <2>3 DEF FormCaches, ListsHeld
  <2>4. ASSUME NEW p \in Pages, PageCaches(p)
        PROVE  \A d \in Cimd : cache'[d].fresh => cache'[d].uris \in versions'[d]
    BY <1>a, <2>1, <2>4 DEF PageCaches, ListsHeld
  <2>5. ASSUME NEW c \in Cimd, cache' = [cache EXCEPT ![c].fresh = FALSE]
        PROVE  \A d \in Cimd : cache'[d].fresh => cache'[d].uris \in versions'[d]
    BY <1>a, <2>5, VersionsGrow DEF ListsHeld
  <2>6. CASE Expire
    BY <2>2, <2>5, <2>6 DEF Expire
  <2>7. ASSUME NEW p \in Pages, NEW c \in Cimd, AuthorizePage(p, c)
        PROVE  UNCHANGED cache
    BY <2>7 DEF AuthorizePage, tables
  <2> QED
    BY <2>2, <2>3, <2>4, <2>6, <2>7, CopiesFrame DEF Restart, vars, tables
<1>3. \A p \in Pages : page'[p].pc = "fetched" => page'[p].uris \in versions'[page'[p].client]
  <2>1. CASE UNCHANGED page
    BY <1>a, <2>1, VersionsGrow DEF ListsHeld
  <2>2. ASSUME NEW q \in Pages, PageCaches(q)
        PROVE  \A p \in Pages : page'[p].pc = "fetched"
                  => page'[p].uris \in versions'[page'[p].client]
    BY <1>a, <2>2, VersionsGrow, PageIdle DEF PageCaches, ListsHeld
  <2>3. ASSUME NEW q \in Pages, NEW c \in Cimd, AuthorizePage(q, c)
        PROVE  \A p \in Pages : page'[p].pc = "fetched"
                  => page'[p].uris \in versions'[page'[p].client]
    <3>1. /\ page'[q].client = c /\ page'[q].uris = published[c] /\ published[c] # {}
          /\ \A p \in Pages : p # q => page'[p] = page[p]
      BY <1>a, <2>3 DEF AuthorizePage
    <3> QED
      BY <1>a, <3>1, VersionsGrow DEF ListsHeld
  <2>4. CASE Restart
    BY <2>4, PageIdle DEF Restart
  <2>5. FormCaches \/ Expire => UNCHANGED page
    BY DEF FormCaches, Expire
  <2> QED
    BY <2>1, <2>2, <2>3, <2>4, <2>5, CopiesFrame DEF vars
<1>4. ASSUME loop'.pc = "fetched"
      PROVE  loop'.uris \in versions'[loop'.client]
  <2>1. CASE UNCHANGED loop
    BY <1>a, <1>4, <2>1, VersionsGrow DEF ListsHeld
  <2>2. CASE Resolve
    <3>1. ASSUME NEW list, CheckRedirect(list)
          PROVE  loop'.pc # "fetched"
      BY <1>a, <3>1 DEF CheckRedirect, Goto, Finish, Idle, Request
    <3>2. Finish => loop'.pc # "fetched"
      BY DEF Finish, Idle
    <3>3. /\ loop.client \in Cimd /\ published[loop.client] # {}
          /\ loop' = [loop EXCEPT !.pc = "fetched", !.uris = published[loop.client]]
      BY <1>4, <2>2, <3>1, <3>2 DEF Resolve
    <3>4. loop'.uris = published[loop.client] /\ loop'.client = loop.client
      BY <1>a, <3>3 DEF Request
    <3> QED
      BY <3>3, <3>4, VersionsGrow DEF ListsHeld
  <2>3. CASE FormCaches
    <3>1. CheckRedirect(loop.uris)
      BY <2>3 DEF FormCaches
    <3> QED
      BY <1>4, <1>a, <3>1 DEF CheckRedirect, Goto, Finish, Idle, Request
  <2>4. CASE Restart
    BY <1>4, <2>4 DEF Restart, Finish, Idle
  <2>5. ASSUME \/ \E p \in Pages : PageCaches(p) \/ \E c \in Cimd : AuthorizePage(p, c)
               \/ Expire
        PROVE  UNCHANGED loop
    BY <2>5 DEF PageCaches, AuthorizePage, Expire
  <2> QED
    BY <1>4, <2>1, <2>2, <2>3, <2>4, <2>5, CopiesFrame DEF vars
<1> QED
  BY <1>1, <1>2, <1>3, <1>4 DEF ListsHeld

(* The address in hand is the client's, now or a step ago.                 *)
LEMMA HomeMoves ==
    ASSUME Sound, [Next]_vars, NEW c \in Clients, NEW uri, Home(c, uri),
           loop'.client = c, loop'.uri = uri
    PROVE  Home(loop.client, loop.uri)'
<1>1. Home(c, uri)'
  BY HomeStays
<1> QED
  BY <1>1 DEF Home, Lists

LEMMA CheckedIsHome ==
    ASSUME Sound, ListsHeld, [Next]_vars, Resolve \/ FormCaches, loop'.pc = "checked"
    PROVE  Home(loop.client, loop.uri)'
<1>0. loop \in Request /\ loop.client \in Clients /\ (loop.pc = "fetched" => loop.client \in Cimd)
  BY DEF Sound, LoopFits, Fits, Resolve, FormCaches
<1>1. ASSUME NEW list, CheckRedirect(list)
      PROVE  RedirectUriAllowed(list, loop.uri) /\ loop' = [loop EXCEPT !.pc = "checked"]
  <2>1. ~Finish
    BY DEF Finish, Idle
  <2> QED
    BY <1>1, <2>1 DEF CheckRedirect, Goto
<1>2. loop' = [loop EXCEPT !.pc = "checked"] => loop'.client = loop.client /\ loop'.uri = loop.uri
  BY <1>0 DEF Request
<1>3. CASE Resolve
  <2>1. ~Finish
    BY DEF Finish, Idle
  <2>2. loop' # [loop EXCEPT !.pc = "fetched", !.uris = published[loop.client]]
    BY <1>0 DEF Request
  <2>3. CheckRedirect(Stored(loop.client))
    BY <1>3, <2>1, <2>2 DEF Resolve
  <2>4. Home(loop.client, loop.uri)
    BY <1>0, <1>1, <2>3, StoredIsHome
  <2> QED
    BY <1>0, <1>1, <1>2, <2>3, <2>4, HomeMoves
<1>4. CASE FormCaches
  <2>1. CheckRedirect(loop.uris) /\ loop.client \in Cimd /\ loop.uris \in versions[loop.client]
    BY <1>0, <1>4 DEF FormCaches, ListsHeld
  <2>2. Home(loop.client, loop.uri)
    BY <1>1, <2>1, DocumentIsHome
  <2> QED
    BY <1>0, <1>1, <1>2, <2>1, <2>2, HomeMoves
<1> QED
  BY <1>3, <1>4

LEMMA AtHomeKept ==
    ASSUME Sound, ListsHeld, AtHome, [Next]_vars
    PROVE  AtHome'
<1>1. ASSUME loop'.pc \in {"checked", "create"}
      PROVE  Home(loop.client, loop.uri)'
  <2>1. CASE /\ loop.pc \in {"checked", "create"}
             /\ loop'.client = loop.client /\ loop'.uri = loop.uri
    BY <2>1, HomeMoves DEF AtHome, Sound, LoopFits, Fits
  <2>2. CASE (Resolve \/ FormCaches) /\ loop'.pc = "checked"
    BY <2>2, CheckedIsHome
  <2> QED
    BY <1>1, <2>1, <2>2, CheckedFrame DEF vars
<1>2. ASSUME NEW k \in Codes, codes'[k].state # "none"
      PROVE  Home(codes[k].client, codes[k].uri)'
  <2>1. ASSUME NEW c \in Clients, NEW uri, Home(c, uri), codes'[k].client = c, codes'[k].uri = uri
        PROVE  Home(codes[k].client, codes[k].uri)'
    <3>1. Home(c, uri)'
      BY <2>1, HomeStays
    <3> QED
      BY <2>1, <3>1 DEF Home, Lists
  <2>2. CASE codes[k].state # "none" /\ SameGrant(codes'[k], codes[k])
    <3>1. codes[k].client \in Clients /\ Home(codes[k].client, codes[k].uri)
      BY <2>2, CodeRow DEF Sound, CodesTyped, AtHome
    <3> QED
      BY <2>1, <2>2, <3>1 DEF SameGrant
  <2>3. CASE CreateCode(k)
    <3>1. codes'[k].client = loop.client /\ codes'[k].uri = loop.uri /\ loop.pc = "create"
      BY <2>3 DEF CreateCode, Sound, CodesTyped
    <3>2. loop.client \in Clients /\ Home(loop.client, loop.uri)
      BY <3>1 DEF AtHome, Sound, LoopFits, Fits
    <3> QED
      BY <2>1, <3>1, <3>2
  <2> QED
    BY <1>2, <2>2, <2>3, CodesFrame
<1> QED
  BY <1>1, <1>2 DEF AtHome

(* oauth.py:102-130 and 316-363: wherever a code was made out to be sent,  *)
(* its client had asked for codes to be sent, though documents change and  *)
(* two requests may fetch and cache one in any order.                      *)
THEOREM CodesAreSentHome == Spec => []SentWhereTheClientIs
<1>1. Init => ListsHeld /\ AtHome
  BY DEF Init, ListsHeld, AtHome, NoCode, NoPage, Idle
<1>2. Sound /\ ListsHeld /\ AtHome /\ [Next]_vars => ListsHeld' /\ AtHome'
  BY ListsHeldKept, AtHomeKept
<1>3. Sound /\ AtHome => SentWhereTheClientIs
  BY CodeIsNoCode DEF AtHome, Home, SentWhereTheClientIs, Sound, CodesTyped
<1> QED
  BY <1>1, <1>2, <1>3, ServerTyped, PTL DEF Spec
=============================================================================
