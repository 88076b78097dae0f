------------------------------- MODULE OAuth --------------------------------
(***************************************************************************)
(* The authorization server for connectors: clients and their cached       *)
(* documents, codes and token pairs (oauth_repo.py), the consent and token *)
(* endpoints (routes/oauth.py) and what they decide (oauth.py).            *)
(*                                                                         *)
(* The consent form and the token endpoint run on the event loop, one at a *)
(* time, in several commits; the consent page and everything about members *)
(* run in threads and come between any two of these.  A client is honest:  *)
(* it sends what it was given, though it may send it twice, late or with a *)
(* field wrong.  Rows name the code they descend from, which the tables    *)
(* do not store.                                                           *)
(***************************************************************************)
EXTENDS Integers

CONSTANTS
    Uids, Names,    \* accounts, and the names of members
    Registrable,    \* ids drawn for clients that register themselves
    Known,          \* ids of the clients Trug knows
    Cimd,           \* ids that are https addresses of documents
    Uris,           \* redirect addresses
    Loopback,       \* those on the client's own machine
    Base,           \* Base[u]: address u without its port
    Documents,      \* redirect lists that clients publish or register
    KnownUris,      \* KnownUris[c]: the seeded list of known client c
    Secrets,        \* verifiers of clients
    Mcp, Other,     \* resources a token may be for
    Codes,          \* authorization codes
    Issues,         \* token pairs
    MaxEvents,      \* bound on what happens to the server from outside
    Pages,          \* threads that serve the consent page
    Nobody          \* not a uid, a name, a client, a secret, a code, ...

Clients == Registrable \cup Known \cup Cimd
Resources == {Mcp, Other, Nobody}

ASSUME OAuthAssumption ==
    /\ Nobody \notin Uids \cup Names \cup Clients \cup Secrets \cup Codes \cup Uris
    /\ Nobody \notin {Mcp, Other} /\ Mcp # Other
    /\ Registrable \cap Known = {} /\ Registrable \cap Cimd = {} /\ Known \cap Cimd = {}
    /\ {} \notin Documents /\ Documents \subseteq SUBSET Uris
    /\ MaxEvents \in Nat
    /\ KnownUris \in [Known -> SUBSET Uris] /\ Loopback \subseteq Uris

VARIABLES
    users,      \* users[u]: the name of account u, or Nobody
    clients,    \* clients[c]: what registered client c registered, {} if nothing
    published,  \* published[c]: the list in the document at c, {} if none is usable
    cache,      \* cache[c]: the cached list, {} if none, and whether it is fresh
    codes,      \* codes[k]: what code k was made out for, and its state
    access,     \* access[i]: the access token of pair i
    refresh,    \* refresh[i]: the refresh token of pair i
    loop,       \* the request on the event loop
    page,       \* what each thread serving a consent page is doing
    answers,    \* pairs on their way to the client
    received,   \* pairs that reached the client
    events,     \* what has happened from outside so far
    \* history
    named,      \* named[u]: the name account u was ever given
    approver,   \* approver[k]: the name of the member who approved code k
    versions,   \* versions[c]: every list the document at c ever held
    proof,      \* proof[k]: the verifier that redeemed code k
    upset       \* codes whose client met a fault: a refusal, a stop, a lost answer

world == <<users, published, named>>
tables == <<clients, cache, codes, access, refresh>>
client == <<answers, received>>
history == <<approver, versions, proof, upset>>
vars == <<world, tables, loop, page, client, events, history>>

Happens == events < MaxEvents /\ events' = events + 1
-----------------------------------------------------------------------------
NoCode == [client |-> Nobody, uid |-> Nobody, uri |-> Nobody, secret |-> Nobody,
           resource |-> Nobody, state |-> "none"]
NoToken == [client |-> Nobody, uid |-> Nobody, resource |-> Nobody, from |-> Nobody,
            state |-> "none"]
Idle == [pc |-> "idle", name |-> Nobody, uid |-> Nobody, client |-> Nobody, uri |-> Nobody,
         secret |-> Nobody, resource |-> Nobody, from |-> Nobody, uris |-> {}, pair |-> Nobody]
NoPage == [pc |-> "idle", client |-> Nobody, uris |-> {}]
Goto(pc) == loop' = [loop EXCEPT !.pc = pc]
Finish == loop' = Idle
-----------------------------------------------------------------------------
(* Which client, and where it may be answered.                             *)

(* Mutant: any address on the client's machine will do.                    *)
AnyLoopbackAllowed(registered, requested) ==
    requested \in registered \/ (requested \in Loopback /\ registered \cap Loopback # {})
(* redirect_uri_allowed: the very address, or on the client's own machine  *)
(* the address but for its port.                                           *)
RedirectUriAllowed(registered, requested) ==
    \/ requested \in registered
    \/ requested \in Loopback /\ \E u \in registered \cap Loopback : Base[u] = Base[requested]

(* resolve_client up to the fetch: {} if nothing is stored or seeded.      *)
Stored(c) ==
    CASE c \in Registrable -> clients[c]
      [] c \in Known -> KnownUris[c]
      [] OTHER -> IF cache[c].fresh THEN cache[c].uris ELSE {}

CacheCimd(c, uris) == cache' = [cache EXCEPT ![c] = [uris |-> uris, fresh |-> TRUE]]

Register(c, uris) ==
    /\ loop = Idle /\ clients[c] = {} /\ Happens
    /\ clients' = [clients EXCEPT ![c] = uris]
    /\ UNCHANGED <<world, cache, codes, access, refresh, loop, page, client, history>>
-----------------------------------------------------------------------------
(* The consent page, in a thread: it may fetch and cache a document.       *)

AuthorizePage(p, c) ==
    /\ Happens /\ page[p] = NoPage /\ c \in Cimd /\ Stored(c) = {}
    /\ \E u \in Uids : users[u] # Nobody
    /\ published[c] # {}
    /\ page' = [page EXCEPT ![p] = [pc |-> "fetched", client |-> c, uris |-> published[c]]]
    /\ UNCHANGED <<world, tables, loop, client, history>>

PageCaches(p) ==
    /\ page[p].pc = "fetched"
    /\ CacheCimd(page[p].client, page[p].uris)
    /\ page' = [page EXCEPT ![p] = NoPage]
    /\ UNCHANGED <<world, clients, codes, access, refresh, loop, client, events, history>>
-----------------------------------------------------------------------------
(* The consent form.                                                       *)

(* _authenticate_session: whoever is signed in posts the form.             *)
Approve(u, c, uri, secret, resource) ==
    /\ loop = Idle /\ users[u] # Nobody
    /\ loop' = [Idle EXCEPT !.pc = "resolve", !.name = users[u], !.client = c,
                            !.uri = uri, !.secret = secret, !.resource = resource]
    /\ UNCHANGED <<world, tables, page, client, events, history>>

CheckRedirect(uris) ==
    IF RedirectUriAllowed(uris, loop.uri) THEN Goto("checked") ELSE Finish

Resolve ==
    /\ loop.pc = "resolve"
    /\ IF Stored(loop.client) # {} THEN CheckRedirect(Stored(loop.client))
       ELSE IF loop.client \in Cimd /\ published[loop.client] # {}
       THEN loop' = [loop EXCEPT !.pc = "fetched", !.uris = published[loop.client]]
       ELSE Finish
    /\ UNCHANGED <<world, tables, page, client, events, history>>

FormCaches ==
    /\ loop.pc = "fetched"
    /\ CacheCimd(loop.client, loop.uris)
    /\ CheckRedirect(loop.uris)
    /\ UNCHANGED <<world, clients, codes, access, refresh, page, client, events, history>>

(* The member said no, or the form carries no challenge.                   *)
Decline ==
    /\ loop.pc = "checked" /\ Finish
    /\ UNCHANGED <<world, tables, page, client, events, history>>

(* get_user_by_name, in a holding of its own: the session was read before. *)
LookUpUser ==
    /\ loop.pc = "checked"
    /\ LET found == {u \in Uids : users[u] = loop.name}
       IN IF found = {} THEN Finish
          ELSE \E u \in found : loop' = [loop EXCEPT !.pc = "create", !.uid = u]
    /\ UNCHANGED <<world, tables, page, client, events, history>>

CreateCode(k) ==
    /\ loop.pc = "create" /\ codes[k] = NoCode
    /\ codes' = [codes EXCEPT ![k] =
                   [client |-> loop.client, uid |-> loop.uid, uri |-> loop.uri,
                    secret |-> loop.secret, resource |-> loop.resource, state |-> "fresh"]]
    /\ approver' = [approver EXCEPT ![k] = loop.name]
    /\ Finish
    /\ UNCHANGED <<world, clients, cache, access, refresh, page, client, events, versions, proof, upset>>
-----------------------------------------------------------------------------
(* The token endpoint.                                                     *)

(* Mutant: the verifier is not compared.                                   *)
AcceptsAnyVerifier(row, c, uri, secret, resource) ==
    /\ c \in {Nobody, row.client} /\ uri = row.uri
    /\ resource = Nobody \/ row.resource \in {Nobody, resource}
(* Everything a code is checked for once it is spent.                      *)
Accepts(row, c, uri, secret, resource) ==
    /\ c \in {Nobody, row.client} /\ uri = row.uri /\ secret = row.secret
    /\ resource = Nobody \/ row.resource \in {Nobody, resource}

(* Issue a pair for a row that was consumed.                               *)
Issuing(row, from, resource) ==
    loop' = [Idle EXCEPT !.pc = "access", !.client = row.client, !.uid = row.uid,
                         !.resource = resource, !.from = from]

ConsumeCode(k) ==
    /\ codes[k].state = "fresh"
    /\ codes' = [codes EXCEPT ![k].state = "used"]

(* _grant_authorization_code: the code is spent first.                     *)
GrantAuthorizationCode(k, c, uri, secret, resource) ==
    /\ loop = Idle /\ codes[k] # NoCode
    /\ ConsumeCode(k)
    /\ IF Accepts(codes[k], c, uri, secret, resource)
       THEN /\ Issuing(codes[k], k, IF codes[k].resource # Nobody THEN codes[k].resource
                                    ELSE resource)
            /\ proof' = [proof EXCEPT ![k] = secret]
            /\ UNCHANGED upset
       ELSE upset' = upset \cup {k} /\ UNCHANGED <<loop, proof>>
    /\ UNCHANGED <<world, clients, cache, access, refresh, page, client, events, approver, versions>>

(* Mutant: the presented token stays good.                                 *)
RotateKeeps(i) == refresh[i].state = "live" /\ UNCHANGED refresh
RotateRefreshToken(i) ==
    /\ refresh[i].state = "live"
    /\ refresh' = [refresh EXCEPT ![i].state = "rotated"]

(* _grant_refresh_token: rotated first, then checked against the client    *)
(* named, if one is.                                                       *)
GrantRefreshToken(i, c) ==
    /\ loop = Idle /\ i \in received
    /\ RotateRefreshToken(i)
    /\ IF c \in {Nobody, refresh[i].client}
       THEN Issuing(refresh[i], refresh[i].from, refresh[i].resource) /\ UNCHANGED upset
       ELSE upset' = upset \cup {refresh[i].from} /\ UNCHANGED loop
    /\ UNCHANGED <<world, clients, cache, codes, access, page, client, events, approver, versions,
                   proof>>

(* _issue_tokens: two commits, then the answer.                            *)
Token == [client |-> loop.client, uid |-> loop.uid, resource |-> loop.resource,
          from |-> loop.from, state |-> "live"]

CreateAccessToken(i) ==
    /\ loop.pc = "access" /\ access[i] = NoToken
    /\ access' = [access EXCEPT ![i] = Token]
    /\ loop' = [loop EXCEPT !.pc = "refresh", !.pair = i]
    /\ UNCHANGED <<world, clients, cache, codes, refresh, page, client, events, history>>

(* Mutant: no refresh token for a token that is for one resource.          *)
CreateNoRefreshToken ==
    /\ loop.pc = "refresh"
    /\ refresh' = IF loop.resource = Nobody THEN [refresh EXCEPT ![loop.pair] = Token]
                  ELSE refresh
    /\ answers' = answers \cup {loop.pair}
    /\ Finish
    /\ UNCHANGED <<world, clients, cache, codes, access, page, received, events, history>>
CreateRefreshToken ==
    /\ loop.pc = "refresh"
    /\ refresh' = [refresh EXCEPT ![loop.pair] = Token]
    /\ answers' = answers \cup {loop.pair}
    /\ Finish
    /\ UNCHANGED <<world, clients, cache, codes, access, page, received, events, history>>

(* verify_access_token, as /mcp asks it.                                   *)
VerifyAccessToken(i) ==
    access[i].state = "live" /\ access[i].resource \in {Nobody, Mcp}
-----------------------------------------------------------------------------
(* The client, the members, the clock and the machine.                     *)

Deliver(i) ==
    /\ i \in answers
    /\ answers' = answers \ {i} /\ received' = received \cup {i}
    /\ UNCHANGED <<world, tables, loop, page, events, history>>

Lose(i) ==
    /\ i \in answers /\ Happens
    /\ answers' = answers \ {i} /\ upset' = upset \cup {access[i].from}
    /\ UNCHANGED <<world, tables, loop, page, received, approver, versions, proof>>

Publish(c, uris) ==
    /\ published[c] # uris /\ Happens
    /\ published' = [published EXCEPT ![c] = uris]
    /\ versions' = [versions EXCEPT ![c] = @ \cup ({uris} \ {{}})]
    /\ UNCHANGED <<users, named, tables, loop, page, client, approver, proof, upset>>

Join(u, name) ==
    /\ Happens /\ named[u] = Nobody /\ \A w \in Uids : users[w] # name
    /\ users' = [users EXCEPT ![u] = name] /\ named' = [named EXCEPT ![u] = name]
    /\ UNCHANGED <<published, tables, loop, page, client, history>>

Leave(u) ==
    /\ users[u] # Nobody /\ Happens
    /\ users' = [users EXCEPT ![u] = Nobody]
    /\ UNCHANGED <<published, named, tables, loop, page, client, history>>

Expire ==
    /\ Happens
    /\ \/ /\ \E k \in Codes : codes[k].state = "fresh" /\
                              codes' = [codes EXCEPT ![k].state = "expired"]
          /\ UNCHANGED <<cache, access, refresh>>
       \/ /\ \E i \in Issues : access[i].state = "live" /\
                               access' = [access EXCEPT ![i].state = "expired"]
          /\ UNCHANGED <<cache, codes, refresh>>
       \/ /\ \E i \in Issues : refresh[i].state = "live" /\
                               refresh' = [refresh EXCEPT ![i].state = "expired"]
          /\ UNCHANGED <<cache, codes, access>>
       \/ /\ \E c \in Cimd : cache[c].fresh /\
                             cache' = [cache EXCEPT ![c].fresh = FALSE]
          /\ UNCHANGED <<codes, access, refresh>>
    /\ UNCHANGED <<world, clients, loop, page, client, history>>

(* The server stops and starts: requests in progress end where they are.   *)
Restart ==
    /\ Happens
    /\ loop # Idle \/ \E p \in Pages : page[p] # NoPage
    /\ Finish /\ page' = [p \in Pages |-> NoPage]
    /\ upset' = IF loop.pc \in {"access", "refresh"} THEN upset \cup {loop.from} ELSE upset
    /\ UNCHANGED <<world, tables, client, approver, versions, proof>>
-----------------------------------------------------------------------------
Init ==
    /\ users \in [Uids -> Names \cup {Nobody}] /\ named = users
    /\ \A u, w \in Uids : users[u] = users[w] => u = w \/ users[u] = Nobody
    /\ \E u \in Uids : users[u] # Nobody
    /\ clients = [c \in Registrable |-> {}]
    /\ published \in [Cimd -> Documents \cup {{}}]
    /\ cache = [c \in Cimd |-> [uris |-> {}, fresh |-> FALSE]]
    /\ codes = [k \in Codes |-> NoCode]
    /\ access = [i \in Issues |-> NoToken] /\ refresh = access
    /\ loop = Idle /\ page = [p \in Pages |-> NoPage]
    /\ answers = {} /\ received = {} /\ events = 0
    /\ approver = [k \in Codes |-> Nobody]
    /\ versions = [c \in Cimd |-> {published[c]} \ {{}}]
    /\ proof = [k \in Codes |-> Nobody]
    /\ upset = {}

Next ==
    \/ \E c \in Registrable, uris \in Documents : Register(c, uris)
    \/ \E p \in Pages : PageCaches(p) \/ \E c \in Cimd : AuthorizePage(p, c)
    \/ \E u \in Uids, c \in Clients, uri \in Uris, s \in Secrets, r \in Resources :
         Approve(u, c, uri, s, r)
    \/ Resolve \/ FormCaches \/ Decline \/ LookUpUser \/ \E k \in Codes : CreateCode(k)
    \/ \E k \in Codes, c \in Clients \cup {Nobody}, uri \in Uris, s \in Secrets, r \in Resources :
         GrantAuthorizationCode(k, c, uri, s, r)
    \/ \E i \in Issues : \E c \in Clients \cup {Nobody} : GrantRefreshToken(i, c)
    \/ \E i \in Issues : CreateAccessToken(i) \/ Deliver(i) \/ Lose(i)
    \/ CreateRefreshToken
    \/ \E c \in Cimd, uris \in Documents \cup {{}} : Publish(c, uris)
    \/ \E u \in Uids : Leave(u) \/ \E n \in Names : Join(u, n)
    \/ Expire \/ Restart

Spec == Init /\ [][Next]_vars
=============================================================================
