------------------------ MODULE ClientRegistryProofs ------------------------
(***************************************************************************)
(* Proofs about ClientRegistry, for any number of clients, keys and codes. *)
(***************************************************************************)
EXTENDS ClientRegistry, TLAPS

(***************************************************************************)
(* What the properties rest on                                             *)
(***************************************************************************)
\* A key in the index was generated for the client that it leads to, and every
\* key for a client that was registered once.
IndexIsIssued ==
  \A k \in ApiKey :
    /\ keyIndex[k] # NoClient => issued[k] = keyIndex[k]
    /\ issued[k] # NoClient => issued[k] \in known

\* A code holds a key that was generated for its client, current or not.
CodeIsIssued ==
  \A a \in Code : codeOwner[a] # NoClient =>
    codeKey[a] \in ApiKey /\ issued[codeKey[a]] = codeOwner[a]

\* A code that was exchanged is marked.
ExchangedIsUsed == \A a \in Code : tokens[a] = IF used[a] THEN 1 ELSE 0

RegistryInv ==
  TypeOK /\ IndexesAgree /\ IndexIsIssued /\ CodeIsIssued /\ ExchangedIsUsed

\* The registry starts empty.
LEMMA InitRegistry == Init => RegistryInv
  BY NoneAssumption
     DEF Init, RegistryInv, TypeOK, IndexesAgree, IndexIsIssued, CodeIsIssued, ExchangedIsUsed

\* Every operation keeps the types.
LEMMA TypeStep ==
  ASSUME RegistryInv, [Next]_vars
  PROVE  TypeOK'
<1>0. TypeOK /\ IndexesAgree /\ NoClient \notin Client /\ NoKey \notin ApiKey
  BY NoneAssumption DEF RegistryInv
<1> USE DEF TypeOK, IndexesAgree
<1>1. CASE \E c \in Client, k \in ApiKey : Register(c, k) \/ RegisterOAuthClient(c, k)
  <2>1. PICK c \in Client, k \in ApiKey :
          AddClient(c, k) /\ (secrets' = secrets \/ secrets' = secrets \cup {c})
    BY <1>1 DEF Register, RegisterOAuthClient
  <2>2. clients' \subseteq known' /\ known' \subseteq Client /\ secrets' \subseteq Client
    BY <1>0, <2>1 DEF AddClient
  <2>3. /\ keyOf' \in [Client -> ApiKey \cup {NoKey}]
        /\ active' \in [Client -> BOOLEAN]
        /\ keyIndex' \in [ApiKey -> Client \cup {NoClient}]
        /\ issued' \in [ApiKey -> Client \cup {NoClient}]
    BY <1>0, <2>1 DEF AddClient
  <2>4. codes' \subseteq codes /\ UNCHANGED <<codeOwner, codeKey, used, overdue, tokens>>
    BY <2>1 DEF AddClient, Current
  <2> QED
    BY <1>0, <2>2, <2>3, <2>4
<1>2. CASE \E c \in Client, a \in Code : CreateAuthorizationCode(c, a)
  BY <1>0, <1>2 DEF CreateAuthorizationCode, Current, clientVars
<1>3. CASE \E c \in Client, a \in Code : Exchange(a, c)
  BY <1>0, <1>3 DEF Exchange, Exchangeable, Current, clientVars
<1>4. CASE \E c \in Client, a \in Code : RefuseExchange(a, c)
  BY <1>0, <1>4 DEF RefuseExchange, Current, clientVars
<1>5. CASE \E a \in Code : Expire(a)
  BY <1>0, <1>5 DEF Expire, clientVars
<1>6. CASE \E c \in Client : Unregister(c)
  BY <1>0, <1>6 DEF Unregister, codeVars
<1>7. CASE \E c \in Client, k \in ApiKey : RotateApiKey(c, k)
  BY <1>0, <1>7 DEF RotateApiKey, codeVars
<1>8. CASE \E c \in Client, fields \in SUBSET Fields, value \in BOOLEAN : Patch(c, fields, value)
  BY <1>0, <1>8 DEF Patch, codeVars
<1>9. CASE UNCHANGED vars
  BY <1>0, <1>9 DEF vars, clientVars, codeVars
<1> QED
  BY <1>1, <1>2, <1>3, <1>4, <1>5, <1>6, <1>7, <1>8, <1>9 DEF Next, Management

\* Every operation of client_registry.py updates both indexes with the table.
LEMMA IndexStep ==
  ASSUME RegistryInv, [Next]_vars
  PROVE  IndexesAgree'
<1>0. TypeOK /\ IndexesAgree /\ IndexIsIssued /\ NoClient \notin Client /\ NoKey \notin ApiKey
  BY NoneAssumption DEF RegistryInv
<1> USE DEF TypeOK, IndexesAgree, IndexIsIssued
<1>1. CASE \E c \in Client, k \in ApiKey : Register(c, k) \/ RegisterOAuthClient(c, k)
  BY <1>0, <1>1 DEF Register, RegisterOAuthClient, AddClient, Current
<1>2. CASE \E c \in Client, a \in Code : CreateAuthorizationCode(c, a)
  BY <1>0, <1>2 DEF CreateAuthorizationCode, Current, clientVars
<1>3. CASE \E c \in Client, a \in Code : Exchange(a, c)
  BY <1>0, <1>3 DEF Exchange, Exchangeable, Current, clientVars
<1>4. CASE \E c \in Client, a \in Code : RefuseExchange(a, c)
  BY <1>0, <1>4 DEF RefuseExchange, Current, clientVars
<1>5. CASE \E a \in Code : Expire(a)
  BY <1>0, <1>5 DEF Expire, clientVars
<1>6. CASE \E c \in Client : Unregister(c)
  BY <1>0, <1>6 DEF Unregister, codeVars
<1>7. CASE \E c \in Client, k \in ApiKey : RotateApiKey(c, k)
  BY <1>0, <1>7 DEF RotateApiKey, codeVars
<1>8. CASE \E c \in Client, fields \in SUBSET Fields, value \in BOOLEAN : Patch(c, fields, value)
  BY <1>0, <1>8 DEF Patch, codeVars
<1>9. CASE UNCHANGED vars
  BY <1>0, <1>9 DEF vars, clientVars, codeVars
<1> QED
  BY <1>1, <1>2, <1>3, <1>4, <1>5, <1>6, <1>7, <1>8, <1>9 DEF Next, Management

\* The key that enters the index is the one generated for its client.
LEMMA IssuedStep ==
  ASSUME RegistryInv, [Next]_vars
  PROVE  IndexIsIssued'
<1>0. TypeOK /\ IndexesAgree /\ IndexIsIssued /\ NoClient \notin Client /\ NoKey \notin ApiKey
  BY NoneAssumption DEF RegistryInv
<1> USE DEF TypeOK, IndexesAgree, IndexIsIssued
<1>1. CASE \E c \in Client, k \in ApiKey : Register(c, k) \/ RegisterOAuthClient(c, k)
  BY <1>0, <1>1 DEF Register, RegisterOAuthClient, AddClient, Current
<1>2. CASE \E c \in Client, a \in Code : CreateAuthorizationCode(c, a)
  BY <1>0, <1>2 DEF CreateAuthorizationCode, Current, clientVars
<1>3. CASE \E c \in Client, a \in Code : Exchange(a, c)
  BY <1>0, <1>3 DEF Exchange, Exchangeable, Current, clientVars
<1>4. CASE \E c \in Client, a \in Code : RefuseExchange(a, c)
  BY <1>0, <1>4 DEF RefuseExchange, Current, clientVars
<1>5. CASE \E a \in Code : Expire(a)
  BY <1>0, <1>5 DEF Expire, clientVars
<1>6. CASE \E c \in Client : Unregister(c)
  BY <1>0, <1>6 DEF Unregister, codeVars
<1>7. CASE \E c \in Client, k \in ApiKey : RotateApiKey(c, k)
  BY <1>0, <1>7 DEF RotateApiKey, codeVars
<1>8. CASE \E c \in Client, fields \in SUBSET Fields, value \in BOOLEAN : Patch(c, fields, value)
  BY <1>0, <1>8 DEF Patch, codeVars
<1>9. CASE UNCHANGED vars
  BY <1>0, <1>9 DEF vars, clientVars, codeVars
<1> QED
  BY <1>1, <1>2, <1>3, <1>4, <1>5, <1>6, <1>7, <1>8, <1>9 DEF Next, Management

\* A code is filled in once, with the key its client has at that moment.
LEMMA CodeStep ==
  ASSUME RegistryInv, [Next]_vars
  PROVE  CodeIsIssued'
<1>0. TypeOK /\ IndexesAgree /\ IndexIsIssued /\ CodeIsIssued /\ NoClient \notin Client /\ NoKey \notin ApiKey
  BY NoneAssumption DEF RegistryInv
<1> USE DEF TypeOK, IndexesAgree, IndexIsIssued, CodeIsIssued
<1>1. CASE \E c \in Client, k \in ApiKey : Register(c, k) \/ RegisterOAuthClient(c, k)
  BY <1>0, <1>1 DEF Register, RegisterOAuthClient, AddClient, Current
<1>2. CASE \E c \in Client, a \in Code : CreateAuthorizationCode(c, a)
  BY <1>0, <1>2 DEF CreateAuthorizationCode, Current, clientVars
<1>3. CASE \E c \in Client, a \in Code : Exchange(a, c)
  BY <1>0, <1>3 DEF Exchange, Exchangeable, Current, clientVars
<1>4. CASE \E c \in Client, a \in Code : RefuseExchange(a, c)
  BY <1>0, <1>4 DEF RefuseExchange, Current, clientVars
<1>5. CASE \E a \in Code : Expire(a)
  BY <1>0, <1>5 DEF Expire, clientVars
<1>6. CASE \E c \in Client : Unregister(c)
  BY <1>0, <1>6 DEF Unregister, codeVars
<1>7. CASE \E c \in Client, k \in ApiKey : RotateApiKey(c, k)
  BY <1>0, <1>7 DEF RotateApiKey, codeVars
<1>8. CASE \E c \in Client, fields \in SUBSET Fields, value \in BOOLEAN : Patch(c, fields, value)
  BY <1>0, <1>8 DEF Patch, codeVars
<1>9. CASE UNCHANGED vars
  BY <1>0, <1>9 DEF vars, clientVars, codeVars
<1> QED
  BY <1>1, <1>2, <1>3, <1>4, <1>5, <1>6, <1>7, <1>8, <1>9 DEF Next, Management

\* Exchange marks the code in the critical section that returns the token.
LEMMA ExchangedStep ==
  ASSUME RegistryInv, [Next]_vars
  PROVE  ExchangedIsUsed'
<1>0. TypeOK /\ ExchangedIsUsed /\ NoClient \notin Client /\ NoKey \notin ApiKey
  BY NoneAssumption DEF RegistryInv
<1> USE DEF TypeOK, ExchangedIsUsed
<1>1. CASE \E c \in Client, k \in ApiKey : Register(c, k) \/ RegisterOAuthClient(c, k)
  BY <1>0, <1>1 DEF Register, RegisterOAuthClient, AddClient, Current
<1>2. CASE \E c \in Client, a \in Code : CreateAuthorizationCode(c, a)
  BY <1>0, <1>2 DEF CreateAuthorizationCode, Current, clientVars
<1>3. CASE \E c \in Client, a \in Code : Exchange(a, c)
  BY <1>0, <1>3 DEF Exchange, Exchangeable, Current, clientVars
<1>4. CASE \E c \in Client, a \in Code : RefuseExchange(a, c)
  BY <1>0, <1>4 DEF RefuseExchange, Current, clientVars
<1>5. CASE \E a \in Code : Expire(a)
  BY <1>0, <1>5 DEF Expire, clientVars
<1>6. CASE \E c \in Client : Unregister(c)
  BY <1>0, <1>6 DEF Unregister, codeVars
<1>7. CASE \E c \in Client, k \in ApiKey : RotateApiKey(c, k)
  BY <1>0, <1>7 DEF RotateApiKey, codeVars
<1>8. CASE \E c \in Client, fields \in SUBSET Fields, value \in BOOLEAN : Patch(c, fields, value)
  BY <1>0, <1>8 DEF Patch, codeVars
<1>9. CASE UNCHANGED vars
  BY <1>0, <1>9 DEF vars, clientVars, codeVars
<1> QED
  BY <1>1, <1>2, <1>3, <1>4, <1>5, <1>6, <1>7, <1>8, <1>9 DEF Next, Management

\* The strengthened invariant: what the operations of the registry keep together.
THEOREM RegistryInvariant == Spec => []RegistryInv
<1>1. RegistryInv /\ [Next]_vars => RegistryInv'
  BY TypeStep, IndexStep, IssuedStep, CodeStep, ExchangedStep DEF RegistryInv
<1> QED
  BY <1>1, InitRegistry, PTL DEF Spec

(***************************************************************************)
(* The theorems                                                            *)
(***************************************************************************)
\* The types of the registry's tables.
THEOREM RegistryTypes == Spec => []TypeOK
<1>1. RegistryInv => TypeOK
  BY DEF RegistryInv
<1> QED
  BY <1>1, RegistryInvariant, PTL

\* The two indexes and the table of clients never disagree, so no deletion of
\* unregister or rotate_api_key meets a missing key.
THEOREM RegistryConsistent == Spec => []IndexesAgree
<1>1. RegistryInv => IndexesAgree
  BY DEF RegistryInv
<1> QED
  BY <1>1, RegistryInvariant, PTL

\* A code is exchanged at most once.
THEOREM CodesAreSingleUse == Spec => []CodeOnce
<1>1. RegistryInv => CodeOnce
  BY DEF RegistryInv, ExchangedIsUsed, CodeOnce
<1> QED
  BY <1>1, RegistryInvariant, PTL

\* A token authenticates the client it was authorized for, or nobody.
THEOREM TokensAreOwn == Spec => []TokenIsOwn
<1>1. RegistryInv => TokenIsOwn
  BY NoneAssumption DEF RegistryInv, CodeIsIssued, IndexIsIssued, TokenIsOwn, Valid
<1> QED
  BY <1>1, RegistryInvariant, PTL

\* No registration makes a revoked key current: its client is known, and neither
\* this key nor a known client is ever new.
LEMMA RevokedStep ==
  ASSUME RegistryInv, [Next]_vars, NEW k \in ApiKey, Revoked(k)
  PROVE  Revoked(k)'
<1>0. TypeOK /\ IndexIsIssued /\ Revoked(k) /\ NoClient \notin Client
  BY NoneAssumption DEF RegistryInv
<1> USE DEF TypeOK, IndexIsIssued, Revoked
<1>1. CASE \E c \in Client, l \in ApiKey : Register(c, l) \/ RegisterOAuthClient(c, l)
  BY <1>0, <1>1 DEF Register, RegisterOAuthClient, AddClient
<1>2. CASE \E c \in Client, a \in Code :
             CreateAuthorizationCode(c, a) \/ Exchange(a, c) \/ RefuseExchange(a, c)
  BY <1>0, <1>2 DEF CreateAuthorizationCode, Exchange, RefuseExchange, clientVars
<1>3. CASE \E a \in Code : Expire(a)
  BY <1>0, <1>3 DEF Expire, clientVars
<1>4. CASE \E c \in Client : Unregister(c)
  BY <1>0, <1>4 DEF Unregister
<1>5. CASE \E c \in Client, l \in ApiKey : RotateApiKey(c, l)
  BY <1>0, <1>5 DEF RotateApiKey
<1>6. CASE \E c \in Client, fields \in SUBSET Fields, value \in BOOLEAN : Patch(c, fields, value)
  BY <1>0, <1>6 DEF Patch
<1>7. CASE UNCHANGED vars
  BY <1>0, <1>7 DEF vars, clientVars
<1> QED
  BY <1>1, <1>2, <1>3, <1>4, <1>5, <1>6, <1>7 DEF Next, Management

\* A key that was rotated away or whose client was unregistered authenticates
\* nobody for the rest of the process: the operations that revoke it take it out
\* of the index, and none puts it back.
THEOREM RevocationIsFinal == Spec => RevokedForEver
<1>1. RegistryInv /\ RegistryInv' /\ [Next]_vars =>
        [\A k \in ApiKey :
           /\ Revoked(k) => Revoked(k)'
           /\ Revoked(k)' => \A c \in Client : ~Valid(k, c)']_vars
  <2> SUFFICES ASSUME RegistryInv, RegistryInv', [Next]_vars, NEW k \in ApiKey
               PROVE  /\ Revoked(k) => Revoked(k)'
                      /\ Revoked(k)' => \A c \in Client : ~Valid(k, c)'
    OBVIOUS
  <2>1. Revoked(k) => Revoked(k)'
    BY RevokedStep
  <2>2. Revoked(k)' => \A c \in Client : ~Valid(k, c)'
    BY NoneAssumption DEF RegistryInv, IndexesAgree, IndexIsIssued, Revoked, Valid
  <2> QED
    BY <2>1, <2>2
<1> QED
  BY <1>1, RegistryInvariant, PTL DEF Spec, RevokedForEver
=============================================================================
