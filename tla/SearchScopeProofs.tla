------------------------- MODULE SearchScopeProofs -------------------------
(***************************************************************************)
(* Proofs about SearchScope: for any categories, collections, roles and    *)
(* grants, in every configuration.                                         *)
(***************************************************************************)
EXTENDS SearchScope, TLAPS

\* Everything Vault grants to the user's roles.
Grants == UNION {granted[r] : r \in Roles}

\* What holds once _resolve_permissions has returned.
Decided ==
    /\ VaultDecides =>
          /\ allowed # Unrestricted
          /\ allowed \subseteq Grants
          /\ unavailable \/ ~identified => allowed = {}
    /\ supplied # {} =>
          /\ allowed # Unrestricted
          /\ allowed \subseteq supplied

\* The inductive invariant: how far each part of the answer is known at each
\* location.
ScopeInv ==
    /\ TypeOK
    /\ fetched \subseteq Grants
    /\ pc = "resolve" => fetched = {} /\ ~unavailable
    /\ pc \in {"fetch", "narrow"} => VaultDecides /\ ~unavailable
    /\ pc = "fetch" => identified
    /\ pc = "narrow" /\ ~identified => fetched = {}
    /\ pc \in {"collections", "route", "scoped"} => Decided
    /\ pc \in {"route", "scoped"} => scope \subseteq PermissionCollections

-----------------------------------------------------------------------------

\* The collections of fewer categories are fewer, and they exist.
LEMMA CollectionsForMonotone ==
  ASSUME NEW cats \in SUBSET Categories, NEW more \in SUBSET Categories,
         cats \subseteq more
  PROVE  CollectionsFor(cats) \subseteq CollectionsFor(more)
  BY DEF CollectionsFor

LEMMA CollectionsForType ==
  ASSUME NEW cats \in SUBSET Categories
  PROVE  CollectionsFor(cats) \in SUBSET Collections
  BY CategoriesAssumption DEF CollectionsFor

LEMMA PermissionCollectionsType ==
  ASSUME TypeOK PROVE PermissionCollections \in SUBSET Collections
  BY CollectionsForType DEF TypeOK, PermissionCollections

LEMMA ScopeInvInit == Init => ScopeInv
  BY DEF Init, ScopeInv, TypeOK, PC, Config, Grants

LEMMA ScopeInvNext == ScopeInv /\ [Next]_vars => ScopeInv'
<1> SUFFICES ASSUME ScopeInv, [Next]_vars PROVE ScopeInv'
  OBVIOUS
<1> USE DEF ScopeInv, TypeOK, PC, Grants, Decided, VaultDecides,
            PermissionCollections, Config, VaultEnabled, TrustCaller,
            RouterEnabled, given
<1>1. CASE TakeSupplied
  BY <1>1, UnrestrictedAssumption DEF TakeSupplied
<1>2. CASE AskVault
  BY <1>2 DEF AskVault
<1>3. ASSUME NEW r \in Roles, FetchRole(r) PROVE ScopeInv'
  <2>1. granted[r] \subseteq UNION {granted[s] : s \in Roles}
    OBVIOUS
  <2>2. granted[r] \subseteq Categories
    OBVIOUS
  <2>3. QED
    BY <1>3, <2>1, <2>2 DEF FetchRole
<1>4. CASE VaultFails
  BY <1>4, UnrestrictedAssumption DEF VaultFails
<1>5. CASE Narrow
  BY <1>5, UnrestrictedAssumption DEF Narrow
<1>6. CASE MapToCollections
  BY <1>6, PermissionCollectionsType DEF MapToCollections
<1>7. CASE Route
  BY <1>7 DEF Route, Picks
<1>8. CASE Done \/ UNCHANGED vars
  BY <1>8 DEF Done, vars
<1>9. QED
  BY <1>1, <1>2, <1>3, <1>4, <1>5, <1>6, <1>7, <1>8 DEF Next

LEMMA ScopeInvariant == Spec => []ScopeInv
  BY ScopeInvInit, ScopeInvNext, PTL DEF Spec

-----------------------------------------------------------------------------

\* Every variable keeps its type: no search names a collection that the store
\* is not configured with.
THEOREM ScopeTypeCorrect == Spec => []TypeOK
<1>1. ScopeInv => TypeOK
  BY DEF ScopeInv
<1>2. QED
  BY <1>1, ScopeInvariant, PTL

\* Whatever a request supplies and the router picks, a search that Vault decides
\* reads only collections of categories Vault grants.
THEOREM SearchesWithinGrants == Spec => []WithinGrants
<1>1. ScopeInv => WithinGrants
  <2> SUFFICES ASSUME ScopeInv, pc = "scoped", VaultDecides
               PROVE  scope \subseteq CollectionsFor(Grants)
    BY DEF WithinGrants, Grants
  <2>1. allowed \in SUBSET Categories /\ allowed \subseteq Grants
    BY DEF ScopeInv, TypeOK, Decided
  <2>2. Grants \in SUBSET Categories
    BY DEF ScopeInv, TypeOK, Grants
  <2>3. scope \subseteq CollectionsFor(allowed)
    BY DEF ScopeInv, PermissionCollections, Decided
  <2>4. QED
    BY <2>1, <2>2, <2>3, CollectionsForMonotone
<1>2. QED
  BY <1>1, ScopeInvariant, PTL

\* In every configuration, the categories a caller supplies bound the search.
THEOREM SuppliedOnlyNarrows == Spec => []SuppliedNarrows
<1>1. ScopeInv => SuppliedNarrows
  <2> SUFFICES ASSUME ScopeInv, pc = "scoped", supplied # {}
               PROVE  scope \subseteq CollectionsFor(supplied)
    BY DEF SuppliedNarrows
  <2>1. allowed \subseteq supplied /\ supplied \in SUBSET Categories
    BY DEF ScopeInv, TypeOK, Decided
  <2>2. scope \subseteq CollectionsFor(allowed)
    BY DEF ScopeInv, PermissionCollections, Decided
  <2>3. QED
    BY <2>1, <2>2, CollectionsForMonotone
<1>2. QED
  BY <1>1, ScopeInvariant, PTL

\* A search for which Vault could not be asked about every role, or for nobody
\* in particular, reads no collection.
THEOREM SearchFailsClosed == Spec => []FailsClosed
<1>1. ScopeInv => FailsClosed
  <2> SUFFICES ASSUME ScopeInv, pc = "scoped", VaultDecides,
                      unavailable \/ ~identified
               PROVE  scope = {}
    BY DEF FailsClosed
  <2>1. allowed = {} /\ allowed # Unrestricted
    BY DEF ScopeInv, Decided
  <2>2. CollectionsFor({}) = {}
    BY DEF CollectionsFor
  <2>3. QED
    BY <2>1, <2>2 DEF ScopeInv, PermissionCollections
<1>2. QED
  BY <1>1, ScopeInvariant, PTL

=============================================================================
