--------------------------- MODULE ControlPlaneProofs ---------------------------
(***************************************************************************)
(* What holds of the control plane for any numbers of providers, proxies,  *)
(* routes and identities, whatever dies and fails between the statements   *)
(* of an operation, and however often.                                     *)
(***************************************************************************)
EXTENDS ControlPlane, TLAPS

\* What the fate of client keys rests on: keys are issued once, no two
\* identities have the same one, and an identity that may still be used holds
\* a key that is over only after two failures.
KeyInv ==
  /\ dead \subseteq 1..issued
  /\ \A c \in Clients : secret[c] <= issued
  /\ \A c, d \in Clients : c # d /\ secret[c] # 0 => secret[c] # secret[d]
  /\ survivors # {} => faults > 0
  /\ \A c \in Clients :
       client[c] \in {"active", "expired"} /\ secret[c] \in dead
         => c \in survivors /\ faults > 1

\* The inductive invariant.
ControlInv == TypeOK /\ NothingIsOrphaned /\ KeyInv

-----------------------------------------------------------------------------
(* Types                                                                   *)

\* A row that is present is a row, and an identity is neither a provider nor a
\* proxy.
LEMMA Rows ==
  ASSUME TypeOK
  PROVE  /\ \A p \in Providers : provider[p] # None => provider[p] \in ProviderRow
         /\ \A r \in Routes : route[r] # None => route[r] \in RouteRow
         /\ Present(provider) = {p \in Providers : provider[p] # None}
         /\ Present(route) = {r \in Routes : route[r] # None}
         /\ Present(proxy) = {q \in Proxies : proxy[q] # None}
         /\ Assignable \subseteq Proxies \union {None}
         /\ \A o \in Providers \union Proxies \union Clients : o \in Owners
  BY DEF TypeOK, Present, Absent, Assignable, Owners

\* What the operations on secrets do to the types.
LEMMA SecretTypes ==
  ASSUME TypeOK, NEW o \in Owners
  PROVE  /\ secret[o] \in 0..MaxKeys + 1
         /\ [secret EXCEPT ![o] = 0] \in [Owners -> 0..MaxKeys + 1]
         /\ survivors \ {o} \subseteq Owners
         /\ PutSecret(o) => secret' \in [Owners -> 0..MaxKeys + 1]
         /\ DropSecret(o) => /\ secret' \in [Owners -> 0..MaxKeys + 1]
                             /\ survivors' \subseteq Owners
                             /\ faults' \in 0..MaxFaults
  BY ControlAssumption DEF TypeOK, DropSecret, PutSecret, Some

\* What a death does to them.
LEMMA DiesTypes ==
  ASSUME TypeOK, Dies
  PROVE  /\ fetching' \in [Providers -> SUBSET Bases]
         /\ faults' \in 0..MaxFaults
  BY ControlAssumption DEF TypeOK, Dies

\* The types hold of the first start.
LEMMA InitTypeOK == Init => TypeOK
  BY ControlAssumption DEF Init, TypeOK, Owners

\* What discoveries do.
Discovers(p) ==
  \/ StartDiscovery(p)
  \/ \E base \in Bases : StoreCatalogue(p, base) \/ DiscoveryFails(p, base)

\* An operation on providers keeps the types.
LEMMA ProviderTypeOK == TypeOK /\ ProviderStep => TypeOK'
<1> SUFFICES ASSUME TypeOK, NEW p \in Providers,
               \/ \E base \in Bases, via \in Proxies \union {None} :
                    CreateProvider(p, base, via) \/ UpdateProvider(p, base, via)
               \/ SetCredential(p) \/ DeleteCredential(p)
               \/ DeleteProvider(p)
               \/ Discovers(p)
             PROVE  TypeOK'
  BY DEF ProviderStep, Discovers
<1> USE ControlAssumption, Rows DEF TypeOK, references, keys, history
<1>1. ASSUME NEW base \in Bases, NEW via \in Proxies \union {None},
             CreateProvider(p, base, via) \/ UpdateProvider(p, base, via)
      PROVE  TypeOK'
  BY <1>1 DEF CreateProvider, UpdateProvider, ProviderRow
<1>2. CASE SetCredential(p)
  <2>1. secret' \in [Owners -> 0..MaxKeys + 1]
    BY <1>2, SecretTypes DEF SetCredential
  <2> QED
    BY <1>2, <2>1 DEF SetCredential, PutSecret
<1>3. CASE DeleteCredential(p)
  BY <1>3, SecretTypes DEF DeleteCredential
<1>4. CASE DeleteProvider(p)
  <2>1. CASE DiesWithoutSecret(p)
    BY <2>1, SecretTypes, DiesTypes DEF DiesWithoutSecret
  <2>2. CASE DropSecret(p) /\ RemoveProvider(p) /\ UNCHANGED <<fetching, proxy, keys>>
    BY <2>2, SecretTypes DEF RemoveProvider
  <2> QED
    BY <1>4, <2>1, <2>2 DEF DeleteProvider
<1>5. CASE Discovers(p)
  <2>1. CASE StartDiscovery(p)
    <3>1. fetching[p] \union {provider[p].base} \in SUBSET Bases
      BY <2>1 DEF StartDiscovery, ProviderRow
    <3> QED
      BY <2>1, <3>1 DEF StartDiscovery
  <2>2. ASSUME NEW base \in Bases, StoreCatalogue(p, base) \/ DiscoveryFails(p, base)
        PROVE  TypeOK'
    <3>1. fetching[p] \ {base} \in SUBSET Bases
      OBVIOUS
    <3>2. fetching' \in [Providers -> SUBSET Bases]
      BY <2>2, <3>1 DEF StoreCatalogue, DiscoveryFails, Answered
    <3>3. catalogue' \in [Providers -> Bases \union {None}]
      BY <2>2 DEF StoreCatalogue, DiscoveryFails
    <3>4. UNCHANGED <<provider, proxy, route, secret, keys, history>>
      BY <2>2 DEF StoreCatalogue, DiscoveryFails
    <3> QED
      BY <3>2, <3>3, <3>4
  <2> QED
    BY <1>5, <2>1, <2>2 DEF Discovers
<1> QED
  BY <1>1, <1>2, <1>3, <1>4, <1>5

\* An operation on proxies, and the assignment of one, keep the types.
LEMMA ProxyTypeOK == TypeOK /\ ProxyStep => TypeOK'
<1> SUFFICES ASSUME TypeOK, ProxyStep PROVE TypeOK'
  OBVIOUS
<1> USE ControlAssumption, Rows DEF TypeOK, references, keys, history
<1>1. ASSUME NEW via \in Proxies \union {None}, NEW ps \in SUBSET Providers,
             AssignProxy(via, ps)
      PROVE  TypeOK'
  BY <1>1 DEF AssignProxy, ProviderRow
<1>2. ASSUME NEW q \in Proxies, NEW user \in BOOLEAN,
             CreateProxy(q, user) \/ UpdateProxy(q, user)
      PROVE  TypeOK'
  <2>1. [proxy EXCEPT ![q] = user] \in [Proxies -> BOOLEAN \union {None}]
    BY Zenon
  <2> QED
    BY ZenonT(60), <1>2, <2>1 DEF CreateProxy, UpdateProxy
<1>3. ASSUME NEW q \in Proxies, SetPassword(q)
      PROVE  TypeOK'
  <2>1. secret' \in [Owners -> 0..MaxKeys + 1]
    BY <1>3, SecretTypes DEF SetPassword
  <2> QED
    BY <1>3, <2>1 DEF SetPassword, PutSecret
<1>4. ASSUME NEW q \in Proxies, DeletePassword(q)
      PROVE  TypeOK'
  BY <1>4, SecretTypes DEF DeletePassword
<1>5. ASSUME NEW q \in Proxies, DeleteProxy(q)
      PROVE  TypeOK'
  <2>1. CASE DiesWithoutSecret(q)
    BY <2>1, SecretTypes, DiesTypes DEF DiesWithoutSecret
  <2>2. CASE DropSecret(q) /\ proxy' = [proxy EXCEPT ![q] = None]
             /\ Unassigned(q) /\ UNCHANGED <<catalogue, fetching, keys>>
    <3>1. provider' \in [Providers -> ProviderRow \union {None}]
      BY <2>2 DEF Unassigned, ProviderRow
    <3>2. route' \in [Routes -> RouteRow \union {None}]
      BY <2>2 DEF Unassigned, RouteRow
    <3> QED
      BY <2>2, <3>1, <3>2, SecretTypes
  <2> QED
    BY <1>5, <2>1, <2>2 DEF DeleteProxy, Unassigned
<1> QED
  BY <1>1, <1>2, <1>3, <1>4, <1>5 DEF ProxyStep

\* An operation on routes keeps the types.
LEMMA RouteTypeOK == TypeOK /\ RouteStep => TypeOK'
<1> SUFFICES ASSUME TypeOK, RouteStep PROVE TypeOK'
  OBVIOUS
<1> USE ControlAssumption, Rows DEF TypeOK
<1>1. ASSUME NEW r \in Routes, NEW row \in RouteRow, CreateRoute(r, row)
      PROVE  TypeOK'
  BY <1>1 DEF CreateRoute, keys, history
<1>2. ASSUME NEW r \in Routes, NEW via \in Proxies \union {None, Keep},
             NEW direct \in BOOLEAN \union {Keep}, UpdateRoute(r, via, direct)
      PROVE  TypeOK'
  <2>1. route[r] \in RouteRow
    BY <1>2 DEF UpdateRoute
  <2>2. direct # Keep => direct \in BOOLEAN
    BY <1>2
  <2>3. via # Keep => via \in Proxies \union {None}
    BY <1>2
  <2>4. Patched(route[r], via, direct) \in RouteRow
    BY <2>1, <2>2, <2>3 DEF Patched, RouteRow
  <2> QED
    BY <1>2, <2>4 DEF UpdateRoute, keys, history
<1>3. ASSUME NEW r \in Routes, DeleteRoute(r)
      PROVE  TypeOK'
  BY <1>3 DEF DeleteRoute, keys, history
<1> QED
  BY <1>1, <1>2, <1>3 DEF RouteStep

\* An operation on identities keeps the types.
LEMMA ClientTypeOK == TypeOK /\ KeyInv /\ ClientStep => TypeOK'
<1> SUFFICES ASSUME TypeOK, KeyInv, NEW c \in Clients,
               \/ CreateClient(c) \/ RotateKey(c) \/ Revoke(c) \/ DeleteClient(c)
               \/ \E state \in {"active", "expired"} : UpdateClient(c, state)
               \/ Expire(c)
             PROVE  TypeOK'
  BY DEF ClientStep
<1> USE ControlAssumption, Rows DEF TypeOK, references, keys, history
<1>1. secret[c] \in 0..issued
  BY SecretTypes DEF KeyInv
<1>2. Buried(c) \subseteq 1..MaxKeys
  <2> SUFFICES ASSUME NEW k \in Buried(c) PROVE k \in 1..MaxKeys
    OBVIOUS
  <2> QED
    BY <1>1 DEF Buried, KeyInv
<1>3. CASE CreateClient(c)
  <2>1. CASE Dies /\ UNCHANGED <<secret, survivors>>
    BY <1>3, <2>1, DiesTypes DEF CreateClient
  <2>2. CASE /\ secret' = [secret EXCEPT ![c] = issued + 1]
             /\ survivors' = survivors \ {c}
             /\ UNCHANGED <<fetching, faults>>
    BY <1>3, <2>2 DEF CreateClient
  <2>3. CASE /\ faults < MaxFaults /\ faults' = faults + 1
             /\ UNCHANGED <<client, secret, survivors, fetching>>
    BY <1>3, <2>3 DEF CreateClient
  <2> QED
    BY <1>3, <2>1, <2>2, <2>3 DEF CreateClient
<1>4. CASE RotateKey(c)
  BY <1>2, <1>4 DEF RotateKey
<1>5. CASE Revoke(c)
  BY <1>2, <1>5, SecretTypes, DiesTypes DEF Revoke
<1>6. CASE DeleteClient(c)
  <2>1. CASE DiesWithoutSecret(c)
    BY <2>1, SecretTypes, DiesTypes DEF DiesWithoutSecret
  <2>2. CASE DropSecret(c) /\ UNCHANGED fetching
    BY <1>2, <1>6, <2>2, SecretTypes DEF DeleteClient, DiesWithoutSecret
  <2> QED
    BY <1>6, <2>1, <2>2 DEF DeleteClient
<1>7. ASSUME NEW state \in {"active", "expired"}, UpdateClient(c, state) \/ Expire(c)
      PROVE  TypeOK'
  BY <1>7 DEF UpdateClient, Expire
<1> QED
  BY <1>3, <1>4, <1>5, <1>6, <1>7
-----------------------------------------------------------------------------
(* Owners                                                                  *)

\* A step that takes no row away, and no secret but by giving one to a row that
\* is present, leaves every secret with an owner.
LEMMA SecretsKept ==
  ASSUME TypeOK, SecretHasOwner,
         \A p \in Providers : provider[p] # None => provider'[p] # None,
         \A q \in Proxies : proxy[q] # None => proxy'[q] # None,
         \A c \in Clients : client[c] # "absent" => client'[c] # "absent",
         \A o \in Owners : secret'[o] # 0 /\ o \notin survivors' =>
            \/ secret[o] # 0 /\ o \notin survivors
            \/ o \in Providers /\ provider'[o] # None
            \/ o \in Proxies /\ proxy'[o] # None
            \/ o \in Clients /\ client'[o] # "absent"
  PROVE  SecretHasOwner'
  BY DEF SecretHasOwner

\* What the operations on the secret of o leave alone.
LEMMA SecretEffects ==
  ASSUME TypeOK, NEW o \in Owners
  PROVE  /\ \A x \in Owners \ {o} :
              PutSecret(o) \/ DropSecret(o) \/ DiesWithoutSecret(o) => secret'[x] = secret[x]
         /\ DropSecret(o) => /\ survivors' \ {o} = survivors \ {o}
                             /\ secret'[o] # 0 => o \in survivors' /\ secret'[o] = secret[o]
                             /\ o \in survivors' => secret'[o] = secret[o] /\ faults' > faults
                             /\ faults' >= faults
         /\ DiesWithoutSecret(o) => secret'[o] = 0 /\ faults' > faults
         /\ PutSecret(o) => secret'[o] = Some
  BY DEF TypeOK, PutSecret, DropSecret, DiesWithoutSecret, Dies

\* An operation on providers leaves every secret with an owner.
LEMMA ProviderSecrets == TypeOK /\ SecretHasOwner /\ ProviderStep => SecretHasOwner'
<1> SUFFICES ASSUME TypeOK, SecretHasOwner, NEW p \in Providers,
               \/ \E base \in Bases, via \in Proxies \union {None} :
                    CreateProvider(p, base, via) \/ UpdateProvider(p, base, via)
               \/ SetCredential(p) \/ DeleteCredential(p)
               \/ DeleteProvider(p)
               \/ Discovers(p)
             PROVE  SecretHasOwner'
  BY DEF ProviderStep, Discovers
<1>p. p \in Owners
  BY DEF Owners
<1>1. ASSUME NEW base \in Bases, NEW via \in Proxies \union {None},
             CreateProvider(p, base, via) \/ UpdateProvider(p, base, via)
      PROVE  SecretHasOwner'
  <2>1. [base |-> base, via |-> via] # None
    BY ControlAssumption DEF ProviderRow
  <2> QED
    BY <1>1, <2>1, SecretsKept DEF CreateProvider, UpdateProvider, keys, history, TypeOK
<1>2. CASE SetCredential(p)
  BY <1>p, <1>2, SecretsKept, SecretEffects
     DEF SetCredential, PutSecret, references, keys, history
<1>3. CASE DeleteCredential(p)
  BY <1>3, SecretsKept DEF DeleteCredential, references, keys, TypeOK
<1>4. CASE DeleteProvider(p)
  <2>1. CASE DiesWithoutSecret(p)
    BY <1>p, <2>1, SecretsKept, SecretEffects DEF DiesWithoutSecret, keys
  <2>2. CASE DropSecret(p) /\ RemoveProvider(p) /\ UNCHANGED <<fetching, proxy, keys>>
    BY <1>p, <2>2, SecretEffects DEF RemoveProvider, SecretHasOwner, keys, TypeOK
  <2> QED
    BY <1>4, <2>1, <2>2 DEF DeleteProvider
<1>5. CASE Discovers(p)
  BY <1>5 DEF Discovers, StartDiscovery, StoreCatalogue, DiscoveryFails, SecretHasOwner, keys, history
<1> QED
  BY <1>1, <1>2, <1>3, <1>4, <1>5

\* An operation on proxies leaves every secret with an owner.
LEMMA ProxySecrets == TypeOK /\ SecretHasOwner /\ ProxyStep => SecretHasOwner'
<1> SUFFICES ASSUME TypeOK, SecretHasOwner, ProxyStep PROVE SecretHasOwner'
  OBVIOUS
<1>1. ASSUME NEW via \in Proxies \union {None}, NEW ps \in SUBSET Providers,
             AssignProxy(via, ps)
      PROVE  SecretHasOwner'
  <2>1. \A p \in Providers : provider[p] # None => provider'[p] # None
    <3> DEFINE row(p) == [provider[p] EXCEPT !.via = via]
    <3>1. ASSUME NEW p \in Providers, provider[p] # None
          PROVE  row(p) \in ProviderRow
      BY <3>1, Rows DEF ProviderRow
    <3>2. \A p \in Providers : provider'[p] = IF p \in ps THEN row(p) ELSE provider[p]
      BY <1>1 DEF AssignProxy
    <3> HIDE DEF row
    <3> QED
      BY <3>1, <3>2, ControlAssumption, Rows
  <2> QED
    BY <1>1, <2>1, SecretsKept DEF AssignProxy, keys, history
<1>2. ASSUME NEW q \in Proxies, NEW user \in BOOLEAN,
             CreateProxy(q, user) \/ UpdateProxy(q, user)
      PROVE  SecretHasOwner'
  <2>1. user # None
    BY ControlAssumption, Zenon
  <2>2. \A x \in Proxies : proxy[x] # None => proxy'[x] # None
    BY <1>2, <2>1 DEF CreateProxy, UpdateProxy, TypeOK
  <2> QED
    BY <1>2, <2>2, SecretsKept DEF CreateProxy, UpdateProxy, keys, history
<1>3. ASSUME NEW q \in Proxies, SetPassword(q)
      PROVE  SecretHasOwner'
  <2>1. q \in Owners /\ proxy[q] # None
    BY <1>3, ControlAssumption, Zenon DEF Owners, SetPassword
  <2> QED
    BY <1>3, <2>1, SecretsKept, SecretEffects
       DEF SetPassword, PutSecret, references, keys, history
<1>4. ASSUME NEW q \in Proxies, DeletePassword(q)
      PROVE  SecretHasOwner'
  BY <1>4, SecretsKept DEF DeletePassword, references, keys, TypeOK
<1>5. ASSUME NEW q \in Proxies, DeleteProxy(q)
      PROVE  SecretHasOwner'
  <2>p. q \in Owners
    BY DEF Owners
  <2>1. CASE DiesWithoutSecret(q)
    BY <2>p, <2>1, SecretsKept, SecretEffects DEF DiesWithoutSecret, keys
  <2>2. CASE DropSecret(q) /\ proxy' = [proxy EXCEPT ![q] = None]
             /\ Unassigned(q) /\ UNCHANGED <<catalogue, fetching, keys>>
    <3>1. \A p \in Providers : provider[p] # None => provider'[p] # None
      BY <2>2, ControlAssumption, Rows DEF Unassigned, ProviderRow
    <3> QED
      BY <2>p, <2>2, <3>1, SecretEffects DEF SecretHasOwner, keys, TypeOK
  <2> QED
    BY <1>5, <2>1, <2>2 DEF DeleteProxy
<1> QED
  BY <1>1, <1>2, <1>3, <1>4, <1>5 DEF ProxyStep

\* An operation on identities leaves every secret with an owner.
LEMMA ClientSecrets == TypeOK /\ SecretHasOwner /\ ClientStep => SecretHasOwner'
<1> SUFFICES ASSUME TypeOK, SecretHasOwner, NEW c \in Clients,
               \/ CreateClient(c) \/ RotateKey(c) \/ Revoke(c) \/ DeleteClient(c)
               \/ \E state \in {"active", "expired"} : UpdateClient(c, state)
               \/ Expire(c)
             PROVE  SecretHasOwner'
  BY DEF ClientStep
<1>c. c \in Owners
  BY DEF Owners
<1>1. CASE CreateClient(c)
  BY <1>1, <1>c, SecretsKept DEF CreateClient, Dies, TypeOK
<1>2. CASE RotateKey(c)
  BY <1>2, <1>c, SecretsKept DEF RotateKey, references, TypeOK
<1>3. CASE Revoke(c)
  BY <1>3, <1>c, SecretsKept, SecretEffects DEF Revoke, Dies, references, TypeOK
<1>4. CASE DeleteClient(c)
  <2>1. CASE DiesWithoutSecret(c)
    BY <1>c, <2>1, SecretsKept, SecretEffects DEF DiesWithoutSecret, keys
  <2>2. CASE /\ DropSecret(c)
             /\ client' = [client EXCEPT ![c] = "absent"]
             /\ UNCHANGED references
    BY <1>c, <2>2, SecretEffects DEF SecretHasOwner, references, TypeOK
  <2> QED
    BY <1>4, <2>1, <2>2 DEF DeleteClient
<1>5. ASSUME NEW state \in {"active", "expired"}, UpdateClient(c, state) \/ Expire(c)
      PROVE  SecretHasOwner'
  BY <1>5, SecretsKept DEF UpdateClient, Expire, references, history, TypeOK
<1> QED
  BY <1>1, <1>2, <1>3, <1>4, <1>5
-----------------------------------------------------------------------------
(* References                                                              *)

\* An operation on providers leaves no reference dangling.
LEMMA ProviderRoutes == TypeOK /\ RoutesSound /\ ProviderStep => RoutesSound'
<1> SUFFICES ASSUME TypeOK, RoutesSound, NEW p \in Providers,
               \/ \E base \in Bases, via \in Proxies \union {None} :
                    CreateProvider(p, base, via) \/ UpdateProvider(p, base, via)
               \/ SetCredential(p) \/ DeleteCredential(p)
               \/ DeleteProvider(p)
               \/ Discovers(p)
             PROVE  RoutesSound'
  BY DEF ProviderStep, Discovers
<1>t. TypeOK'
  BY ProviderTypeOK DEF ProviderStep, Discovers
<1> USE Rows DEF TypeOK, RoutesSound
<1>1. ASSUME NEW base \in Bases, NEW via \in Proxies \union {None},
             CreateProvider(p, base, via) \/ UpdateProvider(p, base, via)
      PROVE  RoutesSound'
  <2>1. [base |-> base, via |-> via] # None
    BY ControlAssumption DEF ProviderRow
  <2>2. via # None => proxy[via] # None
    BY <1>1 DEF CreateProvider, UpdateProvider, Assignable
  <2>3. /\ provider' = [provider EXCEPT ![p] = [base |-> base, via |-> via]]
        /\ UNCHANGED <<proxy, route>>
    BY <1>1 DEF CreateProvider, UpdateProvider
  <2> QED
    BY <2>1, <2>2, <2>3 DEF RouteRow
<1>2. CASE SetCredential(p) \/ DeleteCredential(p)
  BY <1>2 DEF SetCredential, PutSecret, DeleteCredential, references
<1>3. CASE DeleteProvider(p)
  <2>1. CASE DiesWithoutSecret(p)
    BY <2>1 DEF DiesWithoutSecret
  <2>2. CASE DropSecret(p) /\ RemoveProvider(p) /\ UNCHANGED <<fetching, proxy, keys>>
    <3>1. \A r \in Routes : route'[r] # None =>
             route'[r] = route[r] /\ route[r] # None /\ route[r].provider # p
      BY <2>2 DEF RemoveProvider
    <3>2. \A x \in Providers : x # p => provider'[x] = provider[x]
      BY <2>2 DEF RemoveProvider
    <3>3. provider'[p] = None /\ proxy' = proxy
      BY <2>2 DEF RemoveProvider
    <3> QED
      BY <3>1, <3>2, <3>3 DEF RouteRow
  <2> QED
    BY <1>3, <2>1, <2>2 DEF DeleteProvider
<1>4. CASE Discovers(p)
  BY <1>4 DEF Discovers, StartDiscovery, StoreCatalogue, DiscoveryFails
<1> QED
  BY <1>1, <1>2, <1>3, <1>4

\* An operation on proxies leaves no reference dangling.
LEMMA ProxyRoutes == TypeOK /\ RoutesSound /\ ProxyStep => RoutesSound'
<1> SUFFICES ASSUME TypeOK, RoutesSound, ProxyStep PROVE RoutesSound'
  OBVIOUS
<1> USE Rows DEF TypeOK, RoutesSound
<1>1. ASSUME NEW via \in Proxies \union {None}, NEW ps \in SUBSET Providers,
             AssignProxy(via, ps)
      PROVE  RoutesSound'
  <2>1. via # None => proxy[via] # None
    BY <1>1 DEF AssignProxy, Assignable
  <2>2. ASSUME NEW p \in Providers, provider[p] # None
        PROVE  provider'[p] # None /\ provider'[p].via \in {via, provider[p].via}
    <3>1. provider'[p] \in {provider[p], [provider[p] EXCEPT !.via = via]}
      BY <1>1 DEF AssignProxy
    <3> QED
      BY <2>2, <3>1, ControlAssumption DEF ProviderRow
  <2>3. \A p \in Providers : provider[p] = None => provider'[p] = None
    BY <1>1 DEF AssignProxy
  <2>4. UNCHANGED <<proxy, route>>
    BY <1>1 DEF AssignProxy
  <2> HIDE DEF TypeOK
  <2>5. \A r \in Routes : route[r] # None => route[r].provider \in Providers
    BY DEF RouteRow
  <2> QED
    BY <2>1, <2>2, <2>3, <2>4, <2>5
<1>2. ASSUME NEW q \in Proxies, NEW user \in BOOLEAN,
             CreateProxy(q, user) \/ UpdateProxy(q, user)
      PROVE  RoutesSound'
  <2>1. user # None
    BY ControlAssumption, Zenon
  <2>2. \A x \in Proxies : proxy[x] # None => proxy'[x] # None
    BY <1>2, <2>1 DEF CreateProxy, UpdateProxy
  <2> QED
    BY <1>2, <2>2 DEF CreateProxy, UpdateProxy, ProviderRow, RouteRow
<1>3. ASSUME NEW q \in Proxies, SetPassword(q) \/ DeletePassword(q)
      PROVE  RoutesSound'
  BY <1>3 DEF SetPassword, PutSecret, DeletePassword, references
<1>4. ASSUME NEW q \in Proxies, DeleteProxy(q)
      PROVE  RoutesSound'
  <2>1. CASE DiesWithoutSecret(q)
    BY <2>1 DEF DiesWithoutSecret
  <2>2. CASE DropSecret(q) /\ proxy' = [proxy EXCEPT ![q] = None]
             /\ Unassigned(q) /\ UNCHANGED <<catalogue, fetching, keys>>
    <3>1. \A p \in Providers :
            /\ provider[p] = None => provider'[p] = None
            /\ provider[p] # None => /\ provider'[p] # None
                                     /\ provider'[p].via = IF provider[p].via = q
                                                           THEN None ELSE provider[p].via
      BY <2>2, ControlAssumption DEF Unassigned, ProviderRow
    <3>2. \A r \in Routes :
            /\ route[r] = None => route'[r] = None
            /\ route[r] # None =>
                 /\ route'[r].via = IF route[r].via = q THEN None ELSE route[r].via
                 /\ route'[r].provider = route[r].provider
                 /\ route'[r].model = route[r].model
                 /\ route'[r].direct = route[r].direct
      BY <2>2 DEF Unassigned, RouteRow
    <3>3. \A x \in Proxies : x # q => proxy'[x] = proxy[x]
      BY <2>2
    <3>4. /\ \A p \in Providers : provider[p] # None => provider[p].via \in Proxies \union {None}
          /\ \A r \in Routes : route[r] # None => /\ route[r].provider \in Providers
                                                  /\ route[r].via \in Proxies \union {None}
      BY DEF ProviderRow, RouteRow
    <3>5. ASSUME NEW p \in Providers, provider'[p] # None, provider'[p].via # None
          PROVE  proxy'[provider'[p].via] # None
      BY <3>1, <3>3, <3>4, <3>5
    <3>6. ASSUME NEW r \in Routes, route'[r] # None
          PROVE  /\ provider'[route'[r].provider] # None
                 /\ route'[r].via # None => proxy'[route'[r].via] # None /\ ~route'[r].direct
      BY <3>1, <3>2, <3>3, <3>4, <3>6
    <3>7. ASSUME NEW r \in Routes, NEW s \in Routes, r # s, route'[r] # None, route'[s] # None
          PROVE  <<route'[r].model, route'[r].provider>> # <<route'[s].model, route'[s].provider>>
      BY <3>2, <3>7
    <3> QED
      BY <3>5, <3>6, <3>7
  <2> QED
    BY <1>4, <2>1, <2>2 DEF DeleteProxy
<1> QED
  BY <1>1, <1>2, <1>3, <1>4 DEF ProxyStep

\* An operation on routes leaves none dangling, contradictory or double.
LEMMA RouteRoutes == TypeOK /\ RoutesSound /\ RouteStep => RoutesSound'
<1> SUFFICES ASSUME TypeOK, RoutesSound, RouteStep PROVE RoutesSound'
  OBVIOUS
<1> USE Rows DEF TypeOK, RoutesSound
<1>1. ASSUME NEW r \in Routes, NEW row \in RouteRow, CreateRoute(r, row)
      PROVE  RoutesSound'
  BY <1>1, ControlAssumption DEF CreateRoute, Assignable, RouteRow
<1>2. ASSUME NEW r \in Routes, NEW via \in Proxies \union {None, Keep},
             NEW direct \in BOOLEAN \union {Keep}, UpdateRoute(r, via, direct)
      PROVE  RoutesSound'
  <2> DEFINE row == Patched(route[r], via, direct)
  <2>1. /\ route[r] # None
        /\ via # Keep => via \in Assignable
        /\ ~(row.direct /\ row.via # None)
        /\ route' = [route EXCEPT ![r] = row]
        /\ UNCHANGED <<provider, proxy>>
    BY <1>2 DEF UpdateRoute
  <2>2. /\ row.via = IF via = Keep THEN route[r].via ELSE via
        /\ row.model = route[r].model
        /\ row.provider = route[r].provider
    BY <2>1 DEF Patched, RouteRow
  <2>3. row.via # None => proxy[row.via] # None
    BY <2>1, <2>2 DEF Assignable
  <2> HIDE DEF row
  <2> QED
    BY <2>1, <2>2, <2>3
<1>3. ASSUME NEW r \in Routes, DeleteRoute(r)
      PROVE  RoutesSound'
  BY <1>3 DEF DeleteRoute
<1> QED
  BY <1>1, <1>2, <1>3 DEF RouteStep

\* An operation on identities, or a death, leaves all references as they are.
LEMMA ReferencesKept ==
  ASSUME RoutesSound, ClientStep \/ Crash
  PROVE  RoutesSound'
<1>1. UNCHANGED <<provider, proxy, route>>
  BY DEF ClientStep, CreateClient, RotateKey, Revoke, DeleteClient, UpdateClient, Expire,
         Crash, DiesWithoutSecret, references
<1> QED
  BY <1>1 DEF RoutesSound

\* An operation on routes, or a death, leaves every secret where it is.
LEMMA SecretsUntouched ==
  ASSUME RouteStep \/ Crash
  PROVE  /\ UNCHANGED <<provider, proxy, client, secret, survivors, issued, dead>>
         /\ faults' = faults \/ faults' = faults + 1
  BY DEF RouteStep, CreateRoute, UpdateRoute, DeleteRoute, Crash, Dies, keys, history

\* A catalogue goes with its provider and is not stored for one that is gone.
LEMMA Catalogues == TypeOK /\ CatalogueHasProvider /\ Next => CatalogueHasProvider'
<1> SUFFICES ASSUME TypeOK, CatalogueHasProvider, Next PROVE CatalogueHasProvider'
  OBVIOUS
<1> USE DEF CatalogueHasProvider
<1>1. ASSUME NEW p \in Providers, NEW base \in Bases, NEW via \in Proxies \union {None},
             CreateProvider(p, base, via) \/ UpdateProvider(p, base, via)
      PROVE  CatalogueHasProvider'
  <2>1. [base |-> base, via |-> via] # None
    BY ControlAssumption DEF ProviderRow
  <2> QED
    BY <1>1, <2>1 DEF CreateProvider, UpdateProvider, TypeOK
<1>2. ASSUME NEW p \in Providers, SetCredential(p) \/ DeleteCredential(p)
      PROVE  CatalogueHasProvider'
  BY <1>2 DEF SetCredential, PutSecret, DeleteCredential, references
<1>3. ASSUME NEW p \in Providers, DeleteProvider(p)
      PROVE  CatalogueHasProvider'
  BY <1>3 DEF DeleteProvider, RemoveProvider, DiesWithoutSecret, TypeOK
<1>4. ASSUME NEW p \in Providers,
             StartDiscovery(p) \/ \E base \in Bases : DiscoveryFails(p, base)
      PROVE  CatalogueHasProvider'
  BY <1>4 DEF StartDiscovery, DiscoveryFails
<1>5. ASSUME NEW p \in Providers, NEW base \in Bases, StoreCatalogue(p, base)
      PROVE  CatalogueHasProvider'
  BY <1>5 DEF StoreCatalogue, TypeOK
<1>6. CASE ProxyStep
  <2>1. \A p \in Providers : provider[p] # None => provider'[p] # None
    <3>1. ASSUME NEW p \in Providers, provider[p] # None, NEW via \in Proxies \union {None}
          PROVE  [provider[p] EXCEPT !.via = via] # None
      BY <3>1, Rows, ControlAssumption DEF ProviderRow
    <3>2. ASSUME NEW via \in Proxies \union {None}, NEW ps \in SUBSET Providers,
                 AssignProxy(via, ps)
          PROVE  \A p \in Providers : provider[p] # None => provider'[p] # None
      BY <3>1, <3>2 DEF AssignProxy
    <3>3. ASSUME NEW q \in Proxies, DeleteProxy(q)
          PROVE  \A p \in Providers : provider[p] # None => provider'[p] # None
      BY <3>1, <3>3 DEF DeleteProxy, Unassigned, DiesWithoutSecret
    <3>4. CASE UNCHANGED provider
      BY <3>4
    <3>5. ASSUME NEW q \in Proxies, NEW user \in BOOLEAN,
                 CreateProxy(q, user) \/ UpdateProxy(q, user) \/ SetPassword(q)
                   \/ DeletePassword(q)
          PROVE  UNCHANGED provider
      BY <3>5 DEF CreateProxy, UpdateProxy, SetPassword, PutSecret, DeletePassword, references
    <3> QED
      BY <1>6, <3>2, <3>3, <3>4, <3>5 DEF ProxyStep
  <2>2. UNCHANGED catalogue
    BY <1>6 DEF ProxyStep, AssignProxy, CreateProxy, UpdateProxy, SetPassword, PutSecret,
                DeletePassword, DeleteProxy, DiesWithoutSecret, references
  <2> QED
    BY <2>1, <2>2
<1>7. CASE RouteStep \/ ClientStep \/ Crash
  <2>1. UNCHANGED <<provider, catalogue>>
    BY <1>7 DEF RouteStep, CreateRoute, UpdateRoute, DeleteRoute, ClientStep, CreateClient,
                RotateKey, Revoke, DeleteClient, UpdateClient, Expire, Crash,
                DiesWithoutSecret, references
  <2> QED
    BY <2>1
<1> QED
  BY <1>1, <1>2, <1>3, <1>4, <1>5, <1>6, <1>7 DEF Next, ProviderStep
-----------------------------------------------------------------------------
(* Keys                                                                    *)

\* A step that leaves the identities, their keys and the failures on record as
\* they are keeps what is known of the keys.
LEMMA KeysKept ==
  ASSUME KeyInv, TypeOK,
         UNCHANGED <<client, issued, dead>>,
         \A c \in Clients : secret'[c] = secret[c] /\ (c \in survivors => c \in survivors'),
         faults' \in Nat, faults' >= faults,
         survivors' # {} => survivors # {} \/ faults' > faults
  PROVE  KeyInv'
  BY ControlAssumption DEF KeyInv, TypeOK

\* What an operation on providers or proxies does to secrets: at most one, not
\* of an identity, and never without counting a failure that keeps it.
LEMMA NoClientTouched ==
  ASSUME TypeOK, ProviderStep \/ ProxyStep
  PROVE  /\ UNCHANGED <<client, issued, dead>>
         /\ \A c \in Clients : /\ secret'[c] = secret[c]
                               /\ c \in survivors => c \in survivors'
         /\ faults' \in Nat /\ faults' >= faults
         /\ survivors' # {} => survivors # {} \/ faults' > faults
<1>1. ASSUME NEW o \in Providers \union Proxies,
             \/ PutSecret(o)
             \/ DropSecret(o) /\ UNCHANGED keys
             \/ DiesWithoutSecret(o)
             \/ /\ secret' = [secret EXCEPT ![o] = 0]
                /\ survivors' = survivors \ {o}
                /\ UNCHANGED <<keys, faults>>
             \/ UNCHANGED <<secret, keys, history>>
      PROVE  /\ UNCHANGED <<client, issued, dead>>
             /\ \A c \in Clients : /\ secret'[c] = secret[c]
                                   /\ c \in survivors => c \in survivors'
             /\ faults' \in Nat /\ faults' >= faults
             /\ survivors' # {} => survivors # {} \/ faults' > faults
  <2>1. o \in Owners /\ o \notin Clients /\ \A c \in Clients : c \in Owners
    BY ControlAssumption DEF Owners
  <2>2. faults \in Nat
    BY ControlAssumption DEF TypeOK
  <2> QED
    BY <1>1, <2>1, <2>2 DEF PutSecret, DropSecret, DiesWithoutSecret, Dies, keys, history, TypeOK
<1>2. ASSUME NEW via \in Proxies \union {None}, NEW ps \in SUBSET Providers,
             AssignProxy(via, ps)
      PROVE  \E o \in Providers \union Proxies : UNCHANGED <<secret, keys, history>>
  BY <1>2 DEF AssignProxy
<1>3. CASE ProviderStep
  <2> PICK p \in Providers :
        \/ \E base \in Bases, via \in Proxies \union {None} :
             CreateProvider(p, base, via) \/ UpdateProvider(p, base, via)
        \/ SetCredential(p) \/ DeleteCredential(p)
        \/ DeleteProvider(p)
        \/ Discovers(p)
    BY <1>3 DEF ProviderStep, Discovers
  <2> QED
    BY <1>1 DEF CreateProvider, UpdateProvider, SetCredential, DeleteCredential,
                DeleteProvider, Discovers, StartDiscovery, StoreCatalogue, DiscoveryFails
<1>4. CASE ProxyStep
  <2>1. ASSUME NEW q \in Proxies,
               \/ \E user \in BOOLEAN : CreateProxy(q, user) \/ UpdateProxy(q, user)
               \/ SetPassword(q) \/ DeletePassword(q)
               \/ DeleteProxy(q)
        PROVE  \/ PutSecret(q)
               \/ DropSecret(q) /\ UNCHANGED keys
               \/ DiesWithoutSecret(q)
               \/ /\ secret' = [secret EXCEPT ![q] = 0]
                  /\ survivors' = survivors \ {q}
                  /\ UNCHANGED <<keys, faults>>
               \/ UNCHANGED <<secret, keys, history>>
    BY <2>1 DEF CreateProxy, UpdateProxy, SetPassword, DeletePassword, DeleteProxy
  <2> QED
    BY <1>1, <1>2, <1>4, <2>1 DEF ProxyStep
<1> QED
  BY <1>3, <1>4

\* An operation on identities keeps what is known of the keys.
LEMMA ClientKeys == TypeOK /\ SecretHasOwner /\ KeyInv /\ ClientStep => KeyInv'
<1> SUFFICES ASSUME TypeOK, SecretHasOwner, KeyInv, NEW c \in Clients,
               \/ CreateClient(c) \/ RotateKey(c) \/ Revoke(c) \/ DeleteClient(c)
               \/ \E state \in {"active", "expired"} : UpdateClient(c, state)
               \/ Expire(c)
             PROVE  KeyInv'
  BY DEF ClientStep
<1>t. /\ c \in Owners /\ \A d \in Clients : d \in Owners /\ secret[d] \in Nat
      /\ faults \in Nat /\ issued \in Nat
      /\ secret \in [Owners -> Nat] /\ client \in [Clients -> {"absent", "active", "expired", "revoked"}]
  BY ControlAssumption DEF TypeOK, Owners
\* A new key, for an identity that may be used.
<1>1. ASSUME issued' = issued + 1,
             secret' = [secret EXCEPT ![c] = issued + 1],
             survivors' = survivors \ {c},
             dead' \subseteq Buried(c),
             UNCHANGED faults,
             \A d \in Clients \ {c} : client'[d] = client[d]
      PROVE  KeyInv'
  <2>1. \A k \in dead' : k \in 1..issued /\ (k \in dead \/ k = secret[c])
    BY <1>1, <1>t DEF Buried, KeyInv
  <2>2. secret'[c] = issued + 1 /\ \A d \in Clients \ {c} : secret'[d] = secret[d]
    BY <1>1, <1>t
  <2> QED
    BY <1>1, <1>t, <2>1, <2>2 DEF KeyInv
\* An identity is over, and its key with it or not.
<1>2. ASSUME DropSecret(c), dead' = Buried(c), UNCHANGED issued,
             client'[c] \notin {"active", "expired"},
             \A d \in Clients \ {c} : client'[d] = client[d]
      PROVE  KeyInv'
  <2>1. \A k \in dead' : k \in 1..issued /\ (k \in dead \/ k = secret[c])
    BY <1>2, <1>t DEF Buried, KeyInv
  <2>2. /\ secret'[c] \in {0, secret[c]}
        /\ \A d \in Clients \ {c} : /\ secret'[d] = secret[d]
                                    /\ d \in survivors => d \in survivors'
        /\ faults' \in Nat /\ faults' >= faults
        /\ survivors' # {} => survivors # {} \/ faults' > faults
    BY <1>2, <1>t DEF DropSecret
  <2> QED
    BY <1>2, <1>t, <2>1, <2>2 DEF KeyInv
\* Something fails, with the secrets as they are.
<1>3. ASSUME faults' = faults + 1, UNCHANGED <<secret, survivors, dead>>,
             issued' >= issued, issued' \in Nat,
             client'[c] \in {"active", "expired"} /\ secret[c] \in dead => c \in survivors,
             \A d \in Clients \ {c} : client'[d] = client[d]
      PROVE  KeyInv'
  BY <1>3, <1>t DEF KeyInv
<1>4. CASE CreateClient(c)
  <2>1. CASE Dies /\ UNCHANGED <<secret, survivors>>
    <3>1. secret[c] # 0 => c \in survivors
      BY <1>4, <1>t, ControlAssumption DEF SecretHasOwner, CreateClient
    <3>2. 0 \notin dead
      BY <1>t DEF KeyInv
    <3> QED
      BY <1>3, <1>4, <1>t, <2>1, <3>1, <3>2 DEF CreateClient, Dies
  <2>2. CASE /\ secret' = [secret EXCEPT ![c] = issued + 1]
             /\ survivors' = survivors \ {c}
             /\ UNCHANGED <<fetching, faults>>
    BY <1>1, <1>4, <1>t, <2>2 DEF CreateClient, Buried
  <2>3. CASE /\ faults < MaxFaults /\ faults' = faults + 1
             /\ UNCHANGED <<client, secret, survivors, fetching>>
    BY <1>3, <1>4, <1>t, <2>3 DEF CreateClient
  <2> QED
    BY <1>4, <2>1, <2>2, <2>3 DEF CreateClient
<1>5. CASE RotateKey(c)
  BY <1>1, <1>5 DEF RotateKey
<1>6. CASE Revoke(c)
  BY <1>2, <1>3, <1>6, <1>t DEF Revoke, Dies
<1>7. CASE DeleteClient(c)
  <2>1. CASE DiesWithoutSecret(c)
    BY <1>t, <2>1 DEF DiesWithoutSecret, Dies, KeyInv, keys
  <2>2. CASE /\ DropSecret(c) /\ dead' = Buried(c)
             /\ client' = [client EXCEPT ![c] = "absent"]
             /\ UNCHANGED issued
    BY <1>2, <1>t, <2>2
  <2> QED
    BY <1>7, <2>1, <2>2 DEF DeleteClient
<1>8. ASSUME NEW state \in {"active", "expired"}, UpdateClient(c, state) \/ Expire(c)
      PROVE  KeyInv'
  BY <1>8, <1>t DEF UpdateClient, Expire, KeyInv, history
<1> QED
  BY <1>4, <1>5, <1>6, <1>7, <1>8

-----------------------------------------------------------------------------
(* The theorems                                                            *)

\* It holds of the first start.
LEMMA InitControlInv == Init => ControlInv
<1> SUFFICES ASSUME Init PROVE ControlInv
  OBVIOUS
<1>1. TypeOK
  BY InitTypeOK
<1>2. KeyInv
  BY DEF Init, KeyInv, Owners
<1>3. NothingIsOrphaned
  BY DEF Init, NothingIsOrphaned, SecretHasOwner, RoutesSound, CatalogueHasProvider
<1> QED
  BY <1>1, <1>2, <1>3 DEF ControlInv

\* And every step keeps it.
LEMMA NextControlInv == ControlInv /\ [Next]_vars => ControlInv'
<1> SUFFICES ASSUME ControlInv, [Next]_vars PROVE ControlInv'
  OBVIOUS
<1> USE DEF ControlInv, NothingIsOrphaned
<1>0. faults \in Nat
  BY ControlAssumption DEF TypeOK
<1>1. CASE ProviderStep
  BY <1>1, ProviderTypeOK, ProviderSecrets, ProviderRoutes, Catalogues, NoClientTouched,
     KeysKept DEF Next
<1>2. CASE ProxyStep
  BY <1>2, ProxyTypeOK, ProxySecrets, ProxyRoutes, Catalogues, NoClientTouched, KeysKept
     DEF Next
<1>3. CASE RouteStep
  <2>1. SecretHasOwner'
    BY <1>3, SecretsUntouched DEF SecretHasOwner
  <2>2. KeyInv'
    BY <1>3, <1>0, SecretsUntouched, KeysKept
  <2> QED
    BY <1>3, <2>1, <2>2, RouteTypeOK, RouteRoutes, Catalogues DEF Next
<1>4. CASE ClientStep
  BY <1>4, ClientTypeOK, ClientSecrets, ReferencesKept, Catalogues, ClientKeys DEF Next
<1>5. CASE Crash
  <2>1. SecretHasOwner'
    BY <1>5, SecretsUntouched DEF SecretHasOwner
  <2>2. KeyInv'
    BY <1>5, <1>0, SecretsUntouched, KeysKept
  <2>3. TypeOK'
    BY <1>5, DiesTypes DEF Crash, TypeOK, keys
  <2> QED
    BY <1>5, <2>1, <2>2, <2>3, ReferencesKept, Catalogues DEF Next
<1>6. CASE UNCHANGED vars
  BY <1>6 DEF vars, keys, history, references, TypeOK, SecretHasOwner, RoutesSound,
              CatalogueHasProvider, KeyInv
<1> QED
  BY <1>1, <1>2, <1>3, <1>4, <1>5, <1>6 DEF Next

\* Every record the administrator edits keeps its shape.
THEOREM TypeCorrect == Spec => []TypeOK
<1>1. ControlInv => TypeOK
  BY DEF ControlInv
<1> QED
  BY <1>1, InitControlInv, NextControlInv, PTL DEF Spec

\* No secret without a row of its id but for a deletion that failed, no dangling
\* or contradictory route, no catalogue without a provider of its id: through any
\* deletions, deaths between their statements and late discoveries.  Whether the
\* row or the provider is the one they were made for is not said
\* (providers/src/manager.ts, proxy/src/manager.ts, identity/src/manager.ts, the
\* foreign keys).
THEOREM NothingOrphaned == Spec => []NothingIsOrphaned
<1>1. ControlInv => NothingIsOrphaned
  BY DEF ControlInv
<1> QED
  BY <1>1, InitControlInv, NextControlInv, PTL DEF Spec

\* A client key that was rotated, revoked or deleted is not accepted again, unless
\* its deletion failed and the process then died while the identity was created
\* anew (identity/src/manager.ts).
THEOREM DeadKeys == Spec => []DeadKeysStayDead
<1>1. ControlInv => DeadKeysStayDead
  BY DEF ControlInv, KeyInv, DeadKeysStayDead, Accepts
<1> QED
  BY <1>1, InitControlInv, NextControlInv, PTL DEF Spec
=============================================================================
