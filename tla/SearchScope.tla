---------------------------- MODULE SearchScope ----------------------------
(***************************************************************************)
(* Which collections a search reads: the first half of Orchestrator.search *)
(* (_resolve_permissions with VaultClient.allowed_categories, then         *)
(* _collections_for_categories, then _do_route).  Vault is asked once for  *)
(* each of the user's roles, and any of those calls may fail.              *)
(***************************************************************************)
CONSTANTS
    Categories,      \* data categories Vault grants
    Collections,     \* collections of the vector store
    CollectionOf,    \* the collection of a category, or NoCollection
    NoCollection,
    Roles,           \* the roles of the caller's user
    Unrestricted     \* None: no permission model applies

ASSUME CategoriesAssumption ==
    /\ CollectionOf \in [Categories -> Collections \cup {NoCollection}]
    /\ NoCollection \notin Collections
    /\ Roles # {}
ASSUME UnrestrictedAssumption ==
    \A cats \in SUBSET Categories : cats # Unrestricted

VARIABLES
    config,       \* the configuration the service was started with
    pc,
    supplied,     \* user.allowed_categories of the request
    identified,   \* the request names a user with a department and roles
    granted,      \* what Vault grants to each role
    pending,      \* roles Vault has still to be asked for
    fetched,      \* categories Vault has answered so far
    unavailable,  \* a call to Vault failed
    allowed,      \* the result of _resolve_permissions
    scope         \* the collections searched

vars == <<config, pc, supplied, identified, granted, pending, fetched,
          unavailable, allowed, scope>>

\* What no step of a search changes: the configuration, the request, Vault.
given == <<config, supplied, identified, granted>>

\* vault.enabled, server.trust_caller_permissions and modular_rag.enabled.
Config == [vault : BOOLEAN, trust : BOOLEAN, router : BOOLEAN]

VaultEnabled == config.vault
TrustCaller == config.trust
RouterEnabled == config.router

PC == {"resolve", "fetch", "narrow", "collections", "route", "scoped"}

\* Mutant of CollectionsFor: a category without a collection is not left out.
CollectionsForAny(cats) == {CollectionOf[c] : c \in cats}

\* The collections that some categories name.
CollectionsFor(cats) == {CollectionOf[c] : c \in cats} \ {NoCollection}

\* _collections_for_categories: a set, even an empty one, is a decision.
PermissionCollections ==
    IF allowed = Unrestricted THEN Collections ELSE CollectionsFor(allowed)

-----------------------------------------------------------------------------

Init ==
    /\ config \in Config
    /\ pc = "resolve"
    /\ supplied \in SUBSET Categories
    /\ identified \in BOOLEAN
    /\ granted \in [Roles -> SUBSET Categories]
    /\ pending = Roles
    /\ fetched = {}
    /\ unavailable = FALSE
    /\ allowed = {}
    /\ scope = {}

\* The caller's own restriction is taken as it is: from a trusted caller, or
\* because Vault is disabled and there is no permission model.
TakeSupplied ==
    /\ pc = "resolve"
    /\ (supplied # {} /\ TrustCaller) \/ ~VaultEnabled
    /\ allowed' = IF supplied = {} THEN Unrestricted ELSE supplied
    /\ pc' = "collections"
    /\ UNCHANGED <<given, pending, fetched, unavailable, scope>>

\* Vault is authoritative: it is asked, unless the request does not say for
\* whom, which is answered with no access.
AskVault ==
    /\ pc = "resolve"
    /\ ~ (supplied # {} /\ TrustCaller)
    /\ VaultEnabled
    /\ pc' = IF identified THEN "fetch" ELSE "narrow"
    /\ UNCHANGED <<given, pending, fetched, unavailable, allowed, scope>>

\* Vault answers for one more role.
FetchRole(r) ==
    /\ pc = "fetch"
    /\ r \in pending
    /\ fetched' = fetched \cup granted[r]
    /\ pending' = pending \ {r}
    /\ pc' = IF pending' = {} THEN "narrow" ELSE "fetch"
    /\ UNCHANGED <<given, unavailable, allowed, scope>>

\* Mutant of VaultFails: the roles answered so far are kept.
VaultFailsKeepingRoles ==
    /\ pc = "fetch"
    /\ unavailable' = TRUE
    /\ pc' = "narrow"
    /\ UNCHANGED <<given, pending, fetched, allowed, scope>>

\* VaultUnavailable (no token, no connection, an unexpected answer), for
\* whichever role: the search is denied every category.
VaultFails ==
    /\ pc = "fetch"
    /\ unavailable' = TRUE
    /\ allowed' = {}
    /\ pc' = "collections"
    /\ UNCHANGED <<given, pending, fetched, scope>>

\* Mutant of Narrow: supplied categories are added to those of Vault.
NarrowAdds ==
    /\ pc = "narrow"
    /\ allowed' = fetched \cup supplied
    /\ pc' = "collections"
    /\ UNCHANGED <<given, pending, fetched, unavailable, scope>>

\* Mutant of Narrow: what the caller supplied is forgotten.
NarrowIgnoresSupplied ==
    /\ pc = "narrow"
    /\ allowed' = fetched
    /\ pc' = "collections"
    /\ UNCHANGED <<given, pending, fetched, unavailable, scope>>

\* What the caller supplied can only narrow what Vault allows.
Narrow ==
    /\ pc = "narrow"
    /\ allowed' = IF supplied = {} THEN fetched ELSE supplied \cap fetched
    /\ pc' = "collections"
    /\ UNCHANGED <<given, pending, fetched, unavailable, scope>>

\* _collections_for_categories.
MapToCollections ==
    /\ pc = "collections"
    /\ scope' = PermissionCollections
    /\ pc' = "route"
    /\ UNCHANGED <<given, pending, fetched, unavailable, allowed>>

\* What the router may pick of some collections: those with a keyword of the
\* query, or near enough to it, and all of them when there is none.
Picks(cols) == {picked \in SUBSET cols : picked = {} <=> cols = {}}

\* _do_route: the router picks some of the collections; when it picks none, or
\* raises, all those the permissions allow are searched.
Route ==
    /\ pc = "route"
    /\ IF RouterEnabled
       THEN \E picked \in Picks(scope) :
               scope' = IF picked = {} THEN scope ELSE picked
       ELSE UNCHANGED scope
    /\ pc' = "scoped"
    /\ UNCHANGED <<given, pending, fetched, unavailable, allowed>>

Done == pc = "scoped" /\ UNCHANGED vars

Next ==
    \/ TakeSupplied
    \/ AskVault
    \/ \E r \in Roles : FetchRole(r)
    \/ VaultFails
    \/ Narrow
    \/ MapToCollections
    \/ Route
    \/ Done

Spec == Init /\ [][Next]_vars

-----------------------------------------------------------------------------

\* Types: what each variable may hold; every collection searched exists.
TypeOK ==
    /\ config \in Config
    /\ pc \in PC
    /\ supplied \in SUBSET Categories
    /\ identified \in BOOLEAN
    /\ granted \in [Roles -> SUBSET Categories]
    /\ pending \in SUBSET Roles
    /\ fetched \in SUBSET Categories
    /\ unavailable \in BOOLEAN
    /\ allowed = Unrestricted \/ allowed \in SUBSET Categories
    /\ scope \in SUBSET Collections

\* The request is decided by Vault, and not by a caller that is trusted.
VaultDecides == VaultEnabled /\ ~ (TrustCaller /\ supplied # {})

\* A search reads only collections of categories that Vault grants to one of
\* the user's roles, whatever the caller supplied and the router picked.  This
\* and the next two are the rules of the docstring of _resolve_permissions and
\* of the repository's README.md; docs/logical-partitioning.md:97-137 shows an
\* older version, in which what a caller supplies is searched as it is.
WithinGrants ==
    pc = "scoped" /\ VaultDecides
        => scope \subseteq CollectionsFor(UNION {granted[r] : r \in Roles})

\* A caller's categories only narrow: they bound the search in every
\* configuration, and with nothing in common with Vault's, or no collection of
\* their own, nothing is searched (docs/logical-partitioning.md:135-136 has
\* categories without a collection search all collections).
SuppliedNarrows ==
    pc = "scoped" /\ supplied # {} => scope \subseteq CollectionsFor(supplied)

\* Fails closed: when Vault could not be asked about every role, or the request
\* does not say for whom it is, no collection is searched, not even those of
\* the roles that were answered and not even with the router's fallback
\* (docs/logical-partitioning.md:109-110, 118-125 has a request without a user
\* search all collections).
FailsClosed ==
    pc = "scoped" /\ VaultDecides /\ (unavailable \/ ~identified)
        => scope = {}

=============================================================================
