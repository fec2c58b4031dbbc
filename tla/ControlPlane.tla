------------------------------ MODULE ControlPlane ------------------------------
(***************************************************************************)
(* The records an administrator edits and the secrets that go with them:   *)
(* providers and their catalogues (providers/src/manager.ts, repository.ts,*)
(* catalogue.ts), proxies (proxy/src), routes (router/src/repository.ts),  *)
(* client identities (identity/src), the scoped view of the secret store   *)
(* (storage/src/scoped.ts) and the foreign keys of storage/src/            *)
(* migrations.ts.                                                          *)
(*                                                                         *)
(* A row and its secret are two statements, each committed by itself.  An  *)
(* operation runs to completion, so other operations see it whole; but the *)
(* process may die between the statements, and the deletion of a secret    *)
(* may fail, which the managers ignore.  Discovery awaits the provider and *)
(* writes its catalogue later.                                             *)
(***************************************************************************)
EXTENDS Integers

CONSTANTS
  Providers, Proxies, Clients,  \* ids of providers, proxies and identities
  Routes,                       \* ids of routes
  Models,                       \* model patterns
  Bases,                        \* base URLs a provider may have
  None,                         \* NULL, or no row
  Keep,                         \* a field that a patch leaves alone
  MaxKeys,                      \* bound of the model: client keys ever issued
  MaxFaults                     \* bound of the model: deaths and failures

Owners == Providers \union Proxies \union Clients

ProviderRow == [base : Bases, via : Proxies \union {None}]
RouteRow == [model : Models, provider : Providers,
             via : Proxies \union {None}, direct : BOOLEAN]

\* NULL and an omitted field are no values of a column, and a client's key is
\* stored in a namespace of its own.
ASSUME ControlAssumption ==
  /\ None \notin ProviderRow \union RouteRow \union Proxies \union Bases \union BOOLEAN
  /\ Keep \notin Proxies \union {None} \union BOOLEAN
  /\ Clients \intersect (Providers \union Proxies) = {}
  /\ MaxKeys \in Nat
  /\ MaxFaults \in Nat

VARIABLES
  provider,   \* id -> its row: base URL and assigned proxy, or None
  catalogue,  \* provider id -> base URL its stored catalogue came from, or None
  fetching,   \* provider id -> base URLs that pending discoveries asked
  proxy,      \* id -> its row: whether it has a user name, or None
  route,      \* id -> its row, or None
  client,     \* identity id -> "absent", "active", "expired" or "revoked"
  secret,     \* owner -> its stored secret, 0: none
  issued,     \* number of client keys generated so far
  dead,       \* history: keys whose end an administrator has been told of
  survivors,  \* history: owners whose secret outlived a deletion that failed
  faults      \* deaths and failures so far

vars == <<provider, catalogue, fetching, proxy, route, client, secret, issued,
          dead, survivors, faults>>

history == <<dead, survivors, faults>>
references == <<provider, catalogue, fetching, proxy, route>>
keys == <<client, issued, dead>>

Absent(row) == {id \in DOMAIN row : row[id] = None}
Present(row) == DOMAIN row \ Absent(row)

TypeOK ==
  /\ provider \in [Providers -> ProviderRow \union {None}]
  /\ catalogue \in [Providers -> Bases \union {None}]
  /\ fetching \in [Providers -> SUBSET Bases]
  /\ proxy \in [Proxies -> BOOLEAN \union {None}]
  /\ route \in [Routes -> RouteRow \union {None}]
  /\ client \in [Clients -> {"absent", "active", "expired", "revoked"}]
  /\ secret \in [Owners -> 0..MaxKeys + 1]
  /\ issued \in 0..MaxKeys
  /\ dead \subseteq 1..MaxKeys
  /\ survivors \subseteq Owners
  /\ faults \in 0..MaxFaults

Init ==
  /\ provider = [p \in Providers |-> None]
  /\ catalogue = [p \in Providers |-> None]
  /\ fetching = [p \in Providers |-> {}]
  /\ proxy = [q \in Proxies |-> None]
  /\ route = [r \in Routes |-> None]
  /\ client = [c \in Clients |-> "absent"]
  /\ secret = [o \in Owners |-> 0]
  /\ issued = 0
  /\ dead = {}
  /\ survivors = {}
  /\ faults = 0

-----------------------------------------------------------------------------
(* Secrets                                                                 *)

\* A credential or a password: which one it is does not matter.
Some == MaxKeys + 1

\* The process dies here, and is started again: pending discoveries are gone.
Dies ==
  /\ faults < MaxFaults
  /\ faults' = faults + 1
  /\ fetching' = [p \in Providers |-> {}]

\* The managers' deletion of a secret, whose failure is swallowed.
DropSecret(o) ==
  \/ /\ secret' = [secret EXCEPT ![o] = 0]
     /\ survivors' = survivors \ {o}
     /\ UNCHANGED faults
  \/ /\ secret[o] # 0
     /\ faults < MaxFaults
     /\ faults' = faults + 1
     /\ survivors' = survivors \union {o}
     /\ UNCHANGED secret

PutSecret(o) ==
  /\ secret' = [secret EXCEPT ![o] = Some]
  /\ UNCHANGED <<references, keys, history>>

\* The end of a deletion after its first statement.
DiesWithoutSecret(o) ==
  /\ Dies
  /\ secret' = [secret EXCEPT ![o] = 0]
  /\ UNCHANGED <<provider, catalogue, proxy, route, keys, survivors>>

-----------------------------------------------------------------------------
(* Providers                                                               *)

\* resolveProxyId: NULL, or a proxy that exists.
Assignable == {None} \union Present(proxy)

CreateProvider(p, base, via) ==
  /\ provider[p] = None
  /\ via \in Assignable
  /\ provider' = [provider EXCEPT ![p] = [base |-> base, via |-> via]]
  /\ UNCHANGED <<catalogue, fetching, proxy, route, secret, keys, history>>

UpdateProvider(p, base, via) ==
  /\ provider[p] # None
  /\ via \in Assignable
  /\ provider' = [provider EXCEPT ![p] = [base |-> base, via |-> via]]
  /\ UNCHANGED <<catalogue, fetching, proxy, route, secret, keys, history>>

SetCredential(p) == provider[p] # None /\ PutSecret(p)

\* deleteCredential does not swallow: it deletes or nothing happens.
DeleteCredential(p) ==
  /\ provider[p] # None
  /\ secret' = [secret EXCEPT ![p] = 0]
  /\ survivors' = survivors \ {p}
  /\ UNCHANGED <<references, keys, faults>>

\* The row goes, and its routes and its catalogue follow it (ON DELETE CASCADE).
RemoveProvider(p) ==
  /\ provider' = [provider EXCEPT ![p] = None]
  /\ catalogue' = [catalogue EXCEPT ![p] = None]
  /\ route' = [r \in Routes |-> IF route[r] # None /\ route[r].provider = p
                                THEN None ELSE route[r]]

\* For mutation: the row goes first, and the process may die with it gone.
DeleteProviderRowFirst(p) ==
  /\ provider[p] # None
  /\ RemoveProvider(p)
  /\ \/ Dies /\ UNCHANGED <<secret, survivors>>
     \/ DropSecret(p) /\ UNCHANGED fetching
  /\ UNCHANGED <<proxy, keys>>

\* The credential goes first, then the row.
DeleteProvider(p) ==
  /\ provider[p] # None
  /\ \/ DiesWithoutSecret(p)
     \/ /\ DropSecret(p)
        /\ RemoveProvider(p)
        /\ UNCHANGED <<fetching, proxy, keys>>

\* assignProxy: one transaction over providers that all exist.
AssignProxy(via, ps) ==
  /\ ps # {} /\ ps \subseteq Present(provider)
  /\ via \in Assignable
  /\ provider' = [p \in Providers |-> IF p \in ps THEN [provider[p] EXCEPT !.via = via]
                                      ELSE provider[p]]
  /\ UNCHANGED <<catalogue, fetching, proxy, route, secret, keys, history>>

\* discoverModelCatalogue up to its await: the record is read once.  Discoveries
\* of a provider may overlap.
StartDiscovery(p) ==
  /\ provider[p] # None
  /\ fetching' = [fetching EXCEPT ![p] = @ \union {provider[p].base}]
  /\ UNCHANGED <<provider, catalogue, proxy, route, secret, keys, history>>

\* A discovery ends; another one that asked the same may still be pending.
Answered(p, base) ==
  /\ base \in fetching[p]
  /\ \/ fetching' = [fetching EXCEPT ![p] = @ \ {base}]
     \/ UNCHANGED fetching

\* The answer arrives: the catalogue is replaced whole, or not at all when there
\* is no provider of that id.  The one there is may have been edited meanwhile,
\* or deleted and created anew.
StoreCatalogue(p, base) ==
  /\ Answered(p, base)
  /\ catalogue' = [catalogue EXCEPT ![p] = IF provider[p] = None THEN @ ELSE base]
  /\ UNCHANGED <<provider, proxy, route, secret, keys, history>>

DiscoveryFails(p, base) ==
  /\ Answered(p, base)
  /\ UNCHANGED <<provider, catalogue, proxy, route, secret, keys, history>>

-----------------------------------------------------------------------------
(* Proxies                                                                 *)

CreateProxy(q, user) ==
  /\ proxy[q] = None
  /\ proxy' = [proxy EXCEPT ![q] = user]
  /\ UNCHANGED <<provider, catalogue, fetching, route, secret, keys, history>>

\* A null user name removes it; the password stays where it is.
UpdateProxy(q, user) ==
  /\ proxy[q] # None
  /\ proxy' = [proxy EXCEPT ![q] = user]
  /\ UNCHANGED <<provider, catalogue, fetching, route, secret, keys, history>>

SetPassword(q) == proxy[q] = TRUE /\ PutSecret(q)

DeletePassword(q) ==
  /\ proxy[q] # None
  /\ secret' = [secret EXCEPT ![q] = 0]
  /\ survivors' = survivors \ {q}
  /\ UNCHANGED <<references, keys, faults>>

\* ON DELETE SET NULL in both tables: traffic falls back to the next choice.
Unassigned(q) ==
  /\ provider' = [p \in Providers |->
                    IF provider[p] # None /\ provider[p].via = q
                    THEN [provider[p] EXCEPT !.via = None]
                    ELSE provider[p]]
  /\ route' = [r \in Routes |->
                 IF route[r] # None /\ route[r].via = q
                 THEN [route[r] EXCEPT !.via = None]
                 ELSE route[r]]

DeleteProxy(q) ==
  /\ proxy[q] # None
  /\ \/ DiesWithoutSecret(q)
     \/ /\ DropSecret(q)
        /\ proxy' = [proxy EXCEPT ![q] = None]
        /\ Unassigned(q)
        /\ UNCHANGED <<catalogue, fetching, keys>>

-----------------------------------------------------------------------------
(* Routes                                                                  *)

\* The pair of model and provider is unique, a proxy excludes forceDirect.
CreateRoute(r, row) ==
  /\ route[r] = None
  /\ provider[row.provider] # None
  /\ row.via \in Assignable
  /\ ~(row.direct /\ row.via # None)
  /\ \A s \in Present(route) :
       <<route[s].model, route[s].provider>> # <<row.model, row.provider>>
  /\ route' = [route EXCEPT ![r] = row]
  /\ UNCHANGED <<provider, catalogue, fetching, proxy, secret, keys, history>>

\* The row after a patch of proxyId and forceDirect, Keep where it has none:
\* naming a proxy clears forceDirect unless the patch sets it.
Patched(row, via, direct) ==
  [row EXCEPT !.via = IF via = Keep THEN @ ELSE via,
              !.direct = IF direct # Keep THEN direct
                         ELSE IF via \notin {Keep, None} THEN FALSE
                         ELSE @]

\* The patch is refused when the row would have a proxy and forceDirect.
UpdateRoute(r, via, direct) ==
  /\ route[r] # None
  /\ via = Keep \/ via \in Assignable
  /\ LET row == Patched(route[r], via, direct)
     IN  /\ ~(row.direct /\ row.via # None)
         /\ route' = [route EXCEPT ![r] = row]
  /\ UNCHANGED <<provider, catalogue, fetching, proxy, secret, keys, history>>

DeleteRoute(r) ==
  /\ route[r] # None
  /\ route' = [route EXCEPT ![r] = None]
  /\ UNCHANGED <<provider, catalogue, fetching, proxy, secret, keys, history>>

-----------------------------------------------------------------------------
(* Identities                                                              *)

\* What an administrator has been told is over: the key stored for c.
Buried(c) == dead \union ({secret[c]} \ {0})

\* The row first, then the key.  The process may die between them; when the key
\* cannot be written, the row is deleted again.
CreateClient(c) ==
  /\ client[c] = "absent"
  /\ issued < MaxKeys
  /\ issued' = issued + 1
  /\ \/ /\ client' = [client EXCEPT ![c] = "active"]
        /\ secret' = [secret EXCEPT ![c] = issued + 1]
        /\ survivors' = survivors \ {c}
        /\ UNCHANGED <<fetching, faults>>
     \/ /\ client' = [client EXCEPT ![c] = "active"]
        /\ Dies /\ UNCHANGED <<secret, survivors>>
     \/ /\ faults < MaxFaults /\ faults' = faults + 1
        /\ UNCHANGED <<client, secret, survivors, fetching>>
  /\ UNCHANGED <<provider, catalogue, proxy, route, dead>>

\* update is refused for a revoked identity; it may move the expiry either way.
UpdateClient(c, state) ==
  /\ client[c] \in {"active", "expired"}
  /\ state \in {"active", "expired"}
  /\ client' = [client EXCEPT ![c] = state]
  /\ UNCHANGED <<references, secret, issued, history>>

\* The expiry passes.
Expire(c) ==
  /\ client[c] = "active"
  /\ client' = [client EXCEPT ![c] = "expired"]
  /\ UNCHANGED <<references, secret, issued, history>>

\* rotateKey: refused for a revoked identity; the new key replaces the old.
RotateKey(c) ==
  /\ client[c] \in {"active", "expired"}
  /\ issued < MaxKeys
  /\ issued' = issued + 1
  /\ dead' = Buried(c)
  /\ secret' = [secret EXCEPT ![c] = issued + 1]
  /\ survivors' = survivors \ {c}
  /\ UNCHANGED <<references, client, faults>>

\* For mutation: the key is deleted and the flag is not set.
RevokeKeyOnly(c) ==
  /\ client[c] # "absent"
  /\ DropSecret(c)
  /\ dead' = Buried(c)
  /\ UNCHANGED <<references, client, issued>>

\* The flag first, then the key; a revoked identity may be revoked again.
Revoke(c) ==
  /\ client[c] # "absent"
  /\ client' = [client EXCEPT ![c] = "revoked"]
  /\ \/ DropSecret(c) /\ dead' = Buried(c) /\ UNCHANGED fetching
     \/ Dies /\ UNCHANGED <<secret, survivors, dead>>
  /\ UNCHANGED <<provider, catalogue, proxy, route, issued>>

\* The key first, then the row.
DeleteClient(c) ==
  /\ client[c] # "absent"
  /\ \/ DiesWithoutSecret(c)
     \/ /\ DropSecret(c)
        /\ dead' = Buried(c)
        /\ client' = [client EXCEPT ![c] = "absent"]
        /\ UNCHANGED <<references, issued>>

\* verifyKey: the usable identities, each with the key stored for it.
Accepts(k) == \E c \in Clients : client[c] = "active" /\ secret[c] = k

-----------------------------------------------------------------------------

Crash ==
  /\ Dies
  /\ UNCHANGED <<provider, catalogue, proxy, route, secret, keys, survivors>>

ProviderStep ==
  \E p \in Providers :
    \/ \E base \in Bases, via \in Proxies \union {None} :
         CreateProvider(p, base, via) \/ UpdateProvider(p, base, via)
    \/ SetCredential(p) \/ DeleteCredential(p)
    \/ DeleteProvider(p)
    \/ StartDiscovery(p)
    \/ \E base \in Bases : StoreCatalogue(p, base) \/ DiscoveryFails(p, base)

ProxyStep ==
  \/ \E via \in Proxies \union {None}, ps \in SUBSET Providers : AssignProxy(via, ps)
  \/ \E q \in Proxies :
       \/ \E user \in BOOLEAN : CreateProxy(q, user) \/ UpdateProxy(q, user)
       \/ SetPassword(q) \/ DeletePassword(q)
       \/ DeleteProxy(q)

RouteStep ==
  \E r \in Routes :
    \/ \E row \in RouteRow : CreateRoute(r, row)
    \/ \E via \in Proxies \union {None, Keep}, direct \in BOOLEAN \union {Keep} :
         UpdateRoute(r, via, direct)
    \/ DeleteRoute(r)

ClientStep ==
  \E c \in Clients :
    \/ CreateClient(c) \/ RotateKey(c) \/ Revoke(c) \/ DeleteClient(c)
    \/ \E state \in {"active", "expired"} : UpdateClient(c, state)
    \/ Expire(c)

Next == ProviderStep \/ ProxyStep \/ RouteStep \/ ClientStep \/ Crash

Spec == Init /\ [][Next]_vars

-----------------------------------------------------------------------------

\* No secret outlives its row: whichever statement the process dies at, there
\* is no credential left that nobody can see or revoke, except where a failed
\* deletion was swallowed.
SecretHasOwner ==
  \A o \in Owners \ survivors :
    secret[o] # 0 =>
      \/ o \in Providers /\ provider[o] # None
      \/ o \in Proxies /\ proxy[o] # None
      \/ o \in Clients /\ client[o] # "absent"

\* A client key that was rotated, revoked or deleted is not accepted again,
\* also when its deletion failed or its identity has been created anew.  It
\* takes two failures to revive it: the deletion that failed, and a death
\* between the two statements that create the identity anew.
DeadKeysStayDead ==
  \A k \in dead : Accepts(k) => faults > 1 /\ \E c \in survivors : secret[c] = k

\* Whatever is deleted, and in whatever order, the proxy of a provider exists, a
\* route names a provider and a proxy that exist, it never has both a proxy and
\* forceDirect, and no two routes are for the same model and provider.
RoutesSound ==
  /\ \A p \in Providers : provider[p] # None /\ provider[p].via # None
       => proxy[provider[p].via] # None
  /\ \A r \in Routes : route[r] # None =>
       /\ provider[route[r].provider] # None
       /\ route[r].via # None => proxy[route[r].via] # None /\ ~route[r].direct
  /\ \A r, s \in Routes : r # s /\ route[r] # None /\ route[s] # None
       => <<route[r].model, route[r].provider>> # <<route[s].model, route[s].provider>>

\* There is no catalogue of a provider that is not there, also when a discovery
\* ends after the deletion of what it asked.  (A provider that has been created
\* anew by then gets what the old one answered: DiscoveryIsCurrent.)
CatalogueHasProvider ==
  \A p \in Providers : catalogue[p] # None => provider[p] # None

\* Nothing is left without an owner: no secret without a row of its id, no route
\* without its provider and proxy, no catalogue without a provider of its id,
\* whichever deletions, deaths and late discoveries meet (the managers'
\* deletions; the foreign keys).  A secret whose deletion failed is exempt; and
\* it is presence alone: the owner may be a later one of the same id.
NothingIsOrphaned == SecretHasOwner /\ RoutesSound /\ CatalogueHasProvider

\* Too much to ask: a catalogue that is stored comes from the endpoint its provider
\* has then.  The provider may be edited, or replaced by another of its id, while
\* its discovery waits.
DiscoveryIsCurrent ==
  [][\A p \in Providers :
       catalogue'[p] \notin {catalogue[p], None} => catalogue'[p] = provider[p].base]_vars

\* Documented: a password without a user name is dead, misleading state, and
\* is refused.
PasswordHasUser ==
  \A q \in Proxies : secret[q] # 0 /\ proxy[q] # None => proxy[q] = TRUE
=============================================================================
