--------------------------- MODULE ClientRegistry ---------------------------
(***************************************************************************)
(* The client registry of src/client_registry.py with the routes that call *)
(* it: registration, OAuth authorization codes, revocation and rotation of *)
(* API keys.  Every operation is one critical section of the registry's    *)
(* lock, and every route an "async def" without an await: a route is one   *)
(* action.                                                                 *)
(*                                                                         *)
(* Clients, keys and codes are drawn from finite supplies and never twice, *)
(* as uuid4 and token_urlsafe(32) promise.  A client's secret is unique to *)
(* it and never changes, so it is named after the client.                  *)
(***************************************************************************)
EXTENDS Integers

CONSTANTS
  Client,   \* client ids
  NoClient, \* no entry in _api_key_to_client
  ApiKey,   \* API keys
  NoKey,    \* no API key
  Code      \* authorization codes

ASSUME NoneAssumption == NoClient \notin Client /\ NoKey \notin ApiKey

VARIABLES
  clients,   \* _clients: the registered clients
  known,     \* clients ever registered
  keyOf,     \* api_key of each client
  active,    \* is_active of each client
  keyIndex,  \* _api_key_to_client
  secrets,   \* _client_secret_to_client: the clients whose secret is in it
  issued,    \* for whom each API key was generated
  codes,     \* _auth_codes: the codes it holds
  codeOwner, \* client_id of each code
  codeKey,   \* api_key of each code
  used,      \* used of each code
  overdue,   \* codes whose ten minutes have passed
  tokens     \* how often each code was exchanged for a token

clientVars == <<clients, known, keyOf, active, keyIndex, secrets, issued>>
codeVars == <<codes, codeOwner, codeKey, used, overdue, tokens>>
vars == <<clientVars, codeVars>>

TypeOK ==
  /\ clients \subseteq known /\ known \subseteq Client /\ secrets \subseteq Client
  /\ keyOf \in [Client -> ApiKey \cup {NoKey}]
  /\ active \in [Client -> BOOLEAN]
  /\ keyIndex \in [ApiKey -> Client \cup {NoClient}]
  /\ issued \in [ApiKey -> Client \cup {NoClient}]
  /\ codes \subseteq Code /\ overdue \subseteq Code
  /\ codeOwner \in [Code -> Client \cup {NoClient}]
  /\ codeKey \in [Code -> ApiKey \cup {NoKey}]
  /\ used \in [Code -> BOOLEAN]
  /\ tokens \in [Code -> Nat]
  /\ \A a \in codes : codeOwner[a] \in Client /\ codeKey[a] \in ApiKey

Init ==
  /\ clients = {} /\ known = {} /\ secrets = {}
  /\ keyOf = [c \in Client |-> NoKey]
  /\ active = [c \in Client |-> FALSE]
  /\ keyIndex = [k \in ApiKey |-> NoClient]
  /\ issued = [k \in ApiKey |-> NoClient]
  /\ codes = {} /\ overdue = {}
  /\ codeOwner = [a \in Code |-> NoClient]
  /\ codeKey = [a \in Code |-> NoKey]
  /\ used = [a \in Code |-> FALSE]
  /\ tokens = [a \in Code |-> 0]

\* validate_api_key: the key authenticates client c.
Valid(k, c) == keyIndex[k] = c /\ c \in clients /\ active[c]

\* What _cleanup_expired_auth_codes leaves.
Current == codes \ overdue

(***************************************************************************)
(* Registration                                                            *)
(***************************************************************************)
AddClient(c, k) ==
  /\ c \in Client \ known
  /\ issued[k] = NoClient
  /\ clients' = clients \cup {c}
  /\ known' = known \cup {c}
  /\ keyOf' = [keyOf EXCEPT ![c] = k]
  /\ active' = [active EXCEPT ![c] = TRUE]
  /\ keyIndex' = [keyIndex EXCEPT ![k] = c]
  /\ issued' = [issued EXCEPT ![k] = c]
  /\ codes' = Current
  /\ UNCHANGED <<codeOwner, codeKey, used, overdue, tokens>>

Register(c, k) ==
  /\ AddClient(c, k)
  /\ UNCHANGED secrets

RegisterOAuthClient(c, k) ==
  /\ AddClient(c, k)
  /\ secrets' = secrets \cup {c}

(***************************************************************************)
(* Authorization codes                                                     *)
(***************************************************************************)
\* /authorize answers an unknown or inactive client before any change.
CreateAuthorizationCode(c, a) ==
  /\ c \in clients /\ active[c]
  /\ codeOwner[a] = NoClient
  /\ codes' = Current \cup {a}
  /\ codeOwner' = [codeOwner EXCEPT ![a] = c]
  /\ codeKey' = [codeKey EXCEPT ![a] = keyOf[c]]
  /\ UNCHANGED <<clientVars, used, overdue, tokens>>

\* A code lives for ten minutes.
Expire(a) ==
  /\ codeOwner[a] # NoClient
  /\ overdue' = overdue \cup {a}
  /\ UNCHANGED <<clientVars, codes, codeOwner, codeKey, used, tokens>>

Exchangeable(a, c) ==
  c \in secrets /\ a \in Current /\ ~used[a] /\ codeOwner[a] = c

\* Mutant: the code is not marked.
Exchange_Again(a, c) ==
  /\ Exchangeable(a, c)
  /\ tokens' = [tokens EXCEPT ![a] = @ + 1]
  /\ codes' = Current
  /\ UNCHANGED <<clientVars, codeOwner, codeKey, used, overdue>>

\* /token with the secret of client c: the answer is codeKey[a].
Exchange(a, c) ==
  /\ Exchangeable(a, c)
  /\ used' = [used EXCEPT ![a] = TRUE]
  /\ tokens' = [tokens EXCEPT ![a] = @ + 1]
  /\ codes' = Current
  /\ UNCHANGED <<clientVars, codeOwner, codeKey, overdue>>

\* Wrong secret, unknown, used or foreign code: only the cleanup happens.
RefuseExchange(a, c) ==
  /\ ~Exchangeable(a, c)
  /\ codes' = Current
  /\ UNCHANGED <<clientVars, codeOwner, codeKey, used, overdue, tokens>>

(***************************************************************************)
(* Management                                                              *)
(***************************************************************************)
\* Mutant: the key of the client stays in the index.
Unregister_KeepsKey(c) ==
  /\ c \in clients
  /\ secrets' = secrets \ {c}
  /\ clients' = clients \ {c}
  /\ UNCHANGED <<known, keyOf, active, keyIndex, issued, codeVars>>

\* The codes of the client stay.
Unregister(c) ==
  /\ c \in clients
  /\ keyIndex' = [keyIndex EXCEPT ![keyOf[c]] = NoClient]
  /\ secrets' = secrets \ {c}
  /\ clients' = clients \ {c}
  /\ UNCHANGED <<known, keyOf, active, issued, codeVars>>

\* Mutant: a key that is not in use counts as new.
RotateApiKey_Reuses(c, k) ==
  /\ c \in clients
  /\ keyIndex[k] = NoClient
  /\ keyIndex' = [keyIndex EXCEPT ![keyOf[c]] = NoClient, ![k] = c]
  /\ keyOf' = [keyOf EXCEPT ![c] = k]
  /\ issued' = [issued EXCEPT ![k] = c]
  /\ UNCHANGED <<clients, known, active, secrets, codeVars>>

\* Mutant: the old key stays in the index.
RotateApiKey_KeepsKey(c, k) ==
  /\ c \in clients
  /\ issued[k] = NoClient
  /\ keyIndex' = [keyIndex EXCEPT ![k] = c]
  /\ keyOf' = [keyOf EXCEPT ![c] = k]
  /\ issued' = [issued EXCEPT ![k] = c]
  /\ UNCHANGED <<clients, known, active, secrets, codeVars>>

RotateApiKey(c, k) ==
  /\ c \in clients
  /\ issued[k] = NoClient
  /\ keyIndex' = [keyIndex EXCEPT ![keyOf[c]] = NoClient, ![k] = c]
  /\ keyOf' = [keyOf EXCEPT ![c] = k]
  /\ issued' = [issued EXCEPT ![k] = c]
  /\ UNCHANGED <<clients, known, active, secrets, codeVars>>

\* PATCH passes both of its parameters on, also the one that was left out:
\* is_active becomes the value given, or None, which counts as inactive.
Patch(c, fields, value) ==
  /\ c \in clients
  /\ active' = [active EXCEPT ![c] = "is_active" \in fields /\ value]
  /\ UNCHANGED <<clients, known, keyOf, keyIndex, secrets, issued, codeVars>>

Fields == {"name", "is_active"}

Management(c) ==
  \/ Unregister(c)
  \/ \E k \in ApiKey : RotateApiKey(c, k)
  \/ \E fields \in SUBSET Fields, value \in BOOLEAN : Patch(c, fields, value)

Next ==
  \/ \E c \in Client, k \in ApiKey : Register(c, k) \/ RegisterOAuthClient(c, k)
  \/ \E c \in Client, a \in Code :
       CreateAuthorizationCode(c, a) \/ Exchange(a, c) \/ RefuseExchange(a, c)
  \/ \E a \in Code : Expire(a)
  \/ \E c \in Client : Management(c)

Spec == Init /\ [][Next]_vars

(***************************************************************************)
(* Safety                                                                  *)
(***************************************************************************)
\* The two indexes hold exactly the current keys and the secrets of registered
\* clients, so that the deletions in unregister and rotate_api_key never raise.
IndexesAgree ==
  /\ \A c \in clients : keyOf[c] \in ApiKey /\ keyIndex[keyOf[c]] = c
  /\ \A k \in ApiKey : keyIndex[k] # NoClient =>
       keyIndex[k] \in clients /\ keyOf[keyIndex[k]] = k
  /\ secrets \subseteq clients

\* A key that was given out and is no longer the key of a registered client:
\* rotated away, or its client unregistered.
Revoked(k) ==
  /\ issued[k] # NoClient
  /\ issued[k] \in clients => keyOf[issued[k]] # k

\* A revoked key authenticates nobody and never will again, whatever is registered,
\* rotated or unregistered later, although the codes that hold it stay and still
\* give it as a token.
RevokedForEver ==
  [][\A k \in ApiKey :
       /\ Revoked(k) => Revoked(k)'
       /\ Revoked(k)' => \A c \in Client : ~Valid(k, c)']_vars

\* A code gives a token once, however expiry and cleanup fall in between.
CodeOnce == \A a \in Code : tokens[a] <= 1

\* The token that a code gives authenticates the client that was authorized or
\* nobody, whatever happened between /authorize and /token.
TokenIsOwn ==
  \A a \in Code, c \in Client :
    codeOwner[a] # NoClient /\ codeKey[a] \in ApiKey /\ Valid(codeKey[a], c)
      => c = codeOwner[a]
=============================================================================
