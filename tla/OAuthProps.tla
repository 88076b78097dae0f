----------------------------- MODULE OAuthProps -----------------------------
(***************************************************************************)
(* What the authorization server promises, whatever is retried, refused or *)
(* lost and wherever the server stops.                                     *)
(***************************************************************************)
EXTENDS OAuth

Code == {NoCode} \cup
        [client : Clients, uid : Uids, uri : Uris, secret : Secrets, resource : Resources,
         state : {"fresh", "used", "expired"}]
TokenRow == {NoToken} \cup
            [client : Clients, uid : Uids, resource : Resources, from : Codes,
             state : {"live", "rotated", "expired"}]
Request == [pc : {"idle", "resolve", "fetched", "checked", "create", "access", "refresh"},
            name : Names \cup {Nobody}, uid : Uids \cup {Nobody},
            client : Clients \cup {Nobody}, uri : Uris \cup {Nobody},
            secret : Secrets \cup {Nobody}, resource : Resources,
            from : Codes \cup {Nobody}, uris : SUBSET Uris, pair : Issues \cup {Nobody}]
PageRequest == [pc : {"idle", "fetched"}, client : Cimd \cup {Nobody}, uris : SUBSET Uris]

(* Every table, the request on the loop and every page being served holds  *)
(* values of its type: what is drawn names a client and an account.        *)
TypeOK ==
    /\ users \in [Uids -> Names \cup {Nobody}] /\ named \in [Uids -> Names \cup {Nobody}]
    /\ clients \in [Registrable -> SUBSET Uris]
    /\ published \in [Cimd -> SUBSET Uris]
    /\ cache \in [Cimd -> [uris : SUBSET Uris, fresh : BOOLEAN]]
    /\ codes \in [Codes -> Code]
    /\ access \in [Issues -> TokenRow] /\ refresh \in [Issues -> TokenRow]
    /\ loop \in Request /\ page \in [Pages -> PageRequest]
    /\ answers \subseteq Issues /\ received \subseteq Issues
    /\ events \in Nat
    /\ approver \in [Codes -> Names \cup {Nobody}]
    /\ versions \in [Cimd -> SUBSET SUBSET Uris]
    /\ proof \in [Codes -> Secrets \cup {Nobody}]
    /\ upset \subseteq Codes
-----------------------------------------------------------------------------
Live(k) == {i \in Issues : refresh[i].state = "live" /\ refresh[i].from = k}
IssuingFor(k) == loop.pc \in {"access", "refresh"} /\ loop.from = k

(* One approval never becomes two standing grants: at any time it is worth *)
(* an unspent code, or a pair being issued, or one live refresh token, and *)
(* only one of them, however often a code or a token is presented and      *)
(* wherever the server stops (oauth_repo.py: "a replayed code can never be *)
(* redeemed twice", "only for the single caller that flips a valid token").*)
OneLiveRefresh ==
    \A k \in Codes :
        /\ codes[k].state \in {"none", "fresh"} => Live(k) = {} /\ ~IssuingFor(k)
        /\ IssuingFor(k) => Live(k) = {}
        /\ \A i, j \in Live(k) : i = j

(* An access token /mcp honours, however often refreshed since, comes from *)
(* an approval by a member of the name its account was given, for that     *)
(* client, for this resource or none, and somebody showed that approval's  *)
(* verifier, though the member may have left and come back meanwhile.      *)
HonouredMeansConsented ==
    \A i \in Issues :
        VerifyAccessToken(i) =>
            LET k == access[i].from
            IN /\ k \in Codes /\ codes[k].state = "used"
               /\ access[i].client = codes[k].client
               /\ codes[k].resource \in {Nobody, Mcp}
               /\ proof[k] = codes[k].secret
               /\ approver[k] # Nobody /\ named[access[i].uid] = approver[k]

Lists(c) ==
    CASE c \in Registrable -> {clients[c]}
      [] c \in Known -> {KnownUris[c]}
      [] OTHER -> versions[c]

(* A code is only ever sent where its client asked for codes to be sent: to*)
(* an address of a list it registered, was seeded with or published, up to *)
(* the port on its own machine.  Fetching and caching of two requests may  *)
(* overlap a change of the document.                                       *)
SentWhereTheClientIs ==
    \A k \in Codes : codes[k] # NoCode =>
        \E list \in Lists(codes[k].client) : \E u \in list :
            codes[k].uri = u \/ ({codes[k].uri, u} \subseteq Loopback /\ Base[codes[k].uri] = Base[u])

(* A client no fault has met can always go on: its code is still good, its *)
(* pair is being issued or answered, or it holds the live refresh token -  *)
(* unless that expired.  So rotation before the answer strands a client    *)
(* only by a lost answer, a stop or a field it got wrong.                  *)
ClientKeepsUp ==
    \A k \in Codes : codes[k] # NoCode /\ k \notin upset =>
        \/ codes[k].state \in {"fresh", "expired"} \/ IssuingFor(k)
        \/ Live(k) # {} /\ Live(k) \subseteq answers \cup received
        \/ \E i \in Issues : refresh[i].from = k /\ refresh[i].state = "expired"
=============================================================================
