------------------------- MODULE RouteChoiceProofs -------------------------
(***************************************************************************)
(* Proofs about RouteChoice, for any providers, owners, requests,          *)
(* administrators and policies: types, that the keys of users and of       *)
(* workspaces stay with their owners, and that the key and the order a     *)
(* request uses were in force while it ran.                                *)
(***************************************************************************)
EXTENDS RouteChoice, FiniteSetTheorems, SequenceTheorems, WellFoundedInduction, TLAPS

Goroutines == Requests \cup Admins

\* Secrets that may serve everyone.
Common == {NoKey, EnvKey} \cup {k \in DOMAIN keys : keys[k].owner = Platform}

AdaptersShared == \A p \in Providers : adapters[p] \subseteq Common

\* What an administrator's goroutine holds: a key it validates, or what it
\* will build an adapter with.
AdminShape(a) ==
  /\ pc[a] = "validate" => held[a] \subseteq DOMAIN keys
  /\ pc[a] = "adapter" => todo[a] # <<>> /\ held[a] \subseteq Common

\* A request holds a shared adapter; its routes are its caller's, and there
\* are none before it has its order.
RequestShape(q) ==
  /\ held[q] \subseteq Common
  /\ pc[q] = "key" => todo[q] # <<>>
  /\ pc[q] \in {"idle", "policy", "stats"} => routes[q] = <<>>
  /\ \A i \in DOMAIN routes[q] :
       routes[q][i].secret \in KeyIds =>
         routes[q][i].secret \in DOMAIN keys /\ MayUse(q, routes[q][i].secret)

ChoiceInv ==
  /\ TypeOK /\ AdaptersShared
  /\ \A a \in Admins : AdminShape(a)
  /\ \A q \in Requests : RequestShape(q)

-----------------------------------------------------------------------------
(* Keys. *)

\* Rows are added and revoked; their owners stay.
KeysKept ==
  \A k \in DOMAIN keys : k \in DOMAIN keys' /\ keys'[k].owner = keys[k].owner

LEMMA KeysChange ==
  ASSUME TypeOK,
         \/ \E p \in Providers, o \in Owners \cup {Platform} : InsertKey(p, o)
         \/ \E k \in KeyIds : RevokeKey(k)
         \/ UNCHANGED keys
  PROVE  keys' \in Seq(KeyRows) /\ Len(keys') <= MaxKeys /\ KeysKept
<1>0. keys \in Seq(KeyRows) /\ Len(keys) <= MaxKeys /\ MaxKeys \in Nat
  BY KeyConstants DEF TypeOK
<1>1. ASSUME NEW p \in Providers, NEW o \in Owners \cup {Platform}, InsertKey(p, o)
      PROVE  keys' \in Seq(KeyRows) /\ Len(keys') <= MaxKeys /\ KeysKept
  <2> DEFINE new == [provider |-> p, owner |-> o, active |-> TRUE]
  <2>1. new \in KeyRows
    BY DEF KeyRows
  <2>2. keys' = Append(keys, new) /\ Len(keys) < MaxKeys
    BY <1>1 DEF InsertKey
  <2> HIDE DEF new
  <2>3. /\ keys' \in Seq(KeyRows) /\ Len(keys') = Len(keys) + 1
        /\ \A i \in 1..Len(keys) : keys'[i] = keys[i]
    BY <1>0, <2>1, <2>2, AppendProperties
  <2> QED
    BY <1>0, <2>2, <2>3 DEF KeysKept
<1>2. ASSUME NEW k \in KeyIds, RevokeKey(k)
      PROVE  keys' \in Seq(KeyRows) /\ Len(keys') <= MaxKeys /\ KeysKept
  <2> DEFINE new == [keys[k] EXCEPT !.active = FALSE]
  <2>1. k \in DOMAIN keys /\ k \in 1..Len(keys) /\ keys[k] \in KeyRows
    BY <1>0, <1>2 DEF RevokeKey
  <2>2. new \in KeyRows /\ new.owner = keys[k].owner
    BY <2>1 DEF KeyRows
  <2>3. keys' = [keys EXCEPT ![k] = new]
    BY <1>2 DEF RevokeKey
  <2> HIDE DEF new
  <2>4. /\ keys' \in Seq(KeyRows) /\ Len(keys') = Len(keys)
        /\ \A i \in 1..Len(keys) : keys'[i] = IF i = k THEN new ELSE keys[i]
    BY <1>0, <2>1, <2>2, <2>3, ExceptSeq
  <2> QED
    BY <1>0, <2>2, <2>4 DEF KeysKept
<1>3. CASE UNCHANGED keys
  BY <1>0, <1>3 DEF KeysKept
<1> QED
  BY <1>1, <1>2, <1>3

LEMMA CommonGrows ==
  ASSUME KeysKept
  PROVE  Common \subseteq Common'
BY DEF KeysKept, Common, EnvKey

\* The query of a key finds none, or one of the caller's.
LEMMA ScopedKeyOwner ==
  ASSUME NEW p, NEW user, NEW workspace
  PROVE  LET k == ScopedKey(keys, p, user, workspace)
         IN  k = NoKey \/ (k \in DOMAIN keys /\ keys[k].owner \in {workspace, user, Platform})
<1> DEFINE best == Selected(keys, p, user, workspace)
<1>1. \A k \in best : k \in DOMAIN keys /\ keys[k].owner \in {workspace, user, Platform}
  BY DEF Selected, Visible
<1>2. ScopedKey(keys, p, user, workspace) = IF best = {} THEN NoKey ELSE CHOOSE k \in best : TRUE
  BY DEF ScopedKey
<1> HIDE DEF best
<1>3. best # {} => (CHOOSE k \in best : TRUE) \in best
  OBVIOUS
<1> QED
  BY <1>1, <1>2, <1>3

LEMMA KeyIdsAre ==
  ASSUME TypeOK
  PROVE  /\ \A k \in DOMAIN keys : k \in KeyIds /\ keys[k] \in KeyRows
         /\ NoKey \notin KeyIds /\ EnvKey \notin KeyIds
         /\ FromEnv \in {NoKey, EnvKey} /\ Common \subseteq Secrets
<1>1. keys \in Seq(KeyRows) /\ Len(keys) <= MaxKeys /\ MaxKeys \in Nat
  BY KeyConstants DEF TypeOK
<1>2. DOMAIN keys = 1..Len(keys) /\ Len(keys) \in Nat
  BY <1>1
<1>3. \A k \in DOMAIN keys : k \in KeyIds /\ keys[k] \in KeyRows
  BY <1>1, <1>2 DEF KeyIds
<1>4. NoKey \notin KeyIds /\ EnvKey \notin KeyIds
  BY <1>1 DEF NoKey, EnvKey, KeyIds
<1>5. FromEnv \in {NoKey, EnvKey}
  BY DEF FromEnv
<1> QED
  BY <1>3, <1>4, <1>5 DEF Common, Secrets

LEMMA PlatformSecretIsCommon ==
  ASSUME TypeOK, NEW p
  PROVE  PlatformSecret(p) \in Common /\ FromEnv \in Common
<1> DEFINE k == ScopedKey(keys, p, Nobody, Nobody)
<1>1. k = NoKey \/ (k \in DOMAIN keys /\ keys[k].owner \in {Nobody, Platform})
  BY ScopedKeyOwner
<1>2. PlatformSecret(p) = IF k = NoKey THEN FromEnv ELSE k
  BY DEF PlatformSecret
<1> HIDE DEF k
<1>3. k # NoKey => keys[k].owner = Platform
  <2>1. ASSUME k # NoKey PROVE keys[k].owner \in Owners \cup {Platform}
    BY <1>1, <2>1, KeyIdsAre DEF KeyRows
  <2> QED
    BY <1>1, <2>1, KeyConstants
<1> QED
  BY <1>1, <1>2, <1>3, KeyIdsAre DEF Common

-----------------------------------------------------------------------------
(* Sequences and rows. *)

LEMMA SortingsAreSequences ==
  ASSUME NEW S, S \subseteq Providers, NEW by, NEW m, NEW s \in Sortings(S, by, m)
  PROVE  s \in Seq(Providers)
<1>1. IsFiniteSet(S)
  BY ChoiceConstants, FS_Subset
<1>2. Cardinality(S) \in Nat
  BY <1>1, FS_CardinalityType
<1>3. s \in [1..Cardinality(S) -> S]
  BY DEF Sortings
<1>4. s \in [1..Cardinality(S) -> Providers]
  BY <1>3
<1> QED
  BY <1>2, <1>4, IsASeq

LEMMA EntriesAreProviders ==
  ASSUME NEW s \in Seq(Providers)
  PROVE  {s[i] : i \in DOMAIN s} \subseteq Providers
BY ElementOfSeq

LEMMA PolicyRowsChange ==
  ASSUME TypeOK, NEW input \in PolicyInputs, CreatePolicy(input)
  PROVE  policies' \in Seq(PolicyRows)
<1>1. input \in PolicyRows
  BY ChoiceConstants
<1> DEFINE weight(w, default) == IF w = 0 THEN default ELSE w
<1>2. \A w \in Nat : weight(w, 4) \in Nat /\ weight(w, 3) \in Nat
  OBVIOUS
<1>3. PolicyRow(input) =
        [input EXCEPT !.latency = weight(@, 4), !.cost = weight(@, 3), !.errors = weight(@, 3)]
  BY DEF PolicyRow
<1>4. input.latency \in Nat /\ input.cost \in Nat /\ input.errors \in Nat
  BY <1>1 DEF PolicyRows
<1> HIDE DEF weight
<1>5. PolicyRow(input) \in PolicyRows
  BY <1>1, <1>2, <1>3, <1>4 DEF PolicyRows
<1>6. policies \in Seq(PolicyRows)
  BY DEF TypeOK
<1> QED
  BY <1>5, <1>6, AppendProperties DEF CreatePolicy

-----------------------------------------------------------------------------
(* What a step leaves alone. *)

LEMMA AdminKeeps ==
  ASSUME NEW a \in Admins, AdminShape(a), KeysKept,
         \/ pc'[a] = pc[a] /\ todo'[a] = todo[a] /\ held'[a] = held[a]
         \/ pc'[a] \notin {"validate", "adapter"}
  PROVE  AdminShape(a)'
<1>1. CASE pc'[a] \notin {"validate", "adapter"}
  BY <1>1 DEF AdminShape
<1>2. CASE pc'[a] = pc[a] /\ todo'[a] = todo[a] /\ held'[a] = held[a]
  <2>1. DOMAIN keys \subseteq DOMAIN keys'
    BY DEF KeysKept
  <2> QED
    BY <1>2, <2>1, CommonGrows, Zenon DEF AdminShape
<1> QED
  BY <1>1, <1>2

LEMMA RoutesStay ==
  ASSUME NEW q \in Requests, RequestShape(q), KeysKept,
         caller'[q] = caller[q], routes'[q] = routes[q]
  PROVE  \A i \in DOMAIN routes'[q] :
           routes'[q][i].secret \in KeyIds =>
             /\ routes'[q][i].secret \in DOMAIN keys'
             /\ keys'[routes'[q][i].secret].owner \in
                  {caller'[q].user, caller'[q].workspace, Platform}
BY DEF RequestShape, KeysKept, MayUse

LEMMA RequestKeeps ==
  ASSUME NEW q \in Requests, RequestShape(q), KeysKept,
         pc'[q] = pc[q], todo'[q] = todo[q], held'[q] = held[q],
         caller'[q] = caller[q], routes'[q] = routes[q]
  PROVE  RequestShape(q)'
<1>1. held'[q] \subseteq Common'
  BY CommonGrows DEF RequestShape
<1>2. /\ pc'[q] = "key" => todo'[q] # <<>>
      /\ pc'[q] \in {"idle", "policy", "stats"} => routes'[q] = <<>>
  BY DEF RequestShape
<1> QED
  BY <1>1, <1>2, RoutesStay DEF RequestShape, MayUse, KeyIds

LEMMA OthersKeep ==
  ASSUME ChoiceInv, KeysKept, NEW g,
         \A h \in Goroutines \ {g} : pc'[h] = pc[h] /\ todo'[h] = todo[h] /\ held'[h] = held[h],
         \A q \in Requests \ {g} : caller'[q] = caller[q] /\ routes'[q] = routes[q]
  PROVE  /\ \A a \in Admins \ {g} : AdminShape(a)'
         /\ \A q \in Requests \ {g} : RequestShape(q)'
<1>1. ASSUME NEW a \in Admins \ {g} PROVE AdminShape(a)'
  BY <1>1, AdminKeeps DEF ChoiceInv, Goroutines
<1>2. ASSUME NEW q \in Requests \ {g} PROVE RequestShape(q)'
  BY <1>2, RequestKeeps DEF ChoiceInv, Goroutines
<1> QED
  BY <1>1, <1>2

\* A write to the tables, and a step of an administrator that touches neither
\* an adapter nor what a goroutine holds.
LEMMA TablesChange ==
  ASSUME ChoiceInv,
         keys' \in Seq(KeyRows), Len(keys') <= MaxKeys, KeysKept,
         policies' \in Seq(PolicyRows),
         rows' \subseteq Providers, bound' \subseteq Providers, health' \subseteq Providers,
         UNCHANGED <<shared, todo, held, caller, routes, missed>>,
         \/ UNCHANGED pc
         \/ \E a \in Admins, l \in Labels \ {"validate", "adapter"} : pc' = [pc EXCEPT ![a] = l]
  PROVE  ChoiceInv'
<1>1. TypeOK'
  BY DEF ChoiceInv, TypeOK, shared
<1>2. AdaptersShared'
  BY CommonGrows DEF ChoiceInv, AdaptersShared, shared
<1>3. ASSUME NEW a \in Admins PROVE AdminShape(a)'
  <2>1. pc'[a] = pc[a] \/ pc'[a] \notin {"validate", "adapter"}
    BY DEF ChoiceInv, TypeOK
  <2> QED
    BY <1>3, <2>1, AdminKeeps DEF ChoiceInv
<1>4. ASSUME NEW q \in Requests PROVE RequestShape(q)'
  <2>1. pc'[q] = pc[q]
    BY ChoiceConstants DEF ChoiceInv, TypeOK
  <2> QED
    BY <1>4, <2>1, RequestKeeps DEF ChoiceInv
<1> QED
  BY <1>1, <1>2, <1>3, <1>4 DEF ChoiceInv

-----------------------------------------------------------------------------
(* Initially. *)

LEMMA ChoiceInit ==
  ASSUME Init
  PROVE  ChoiceInv
<1>1. keys \in Seq(KeyRows) /\ Len(keys) <= MaxKeys
  <2>1. CASE keys = <<>>
    BY <2>1, KeyConstants
  <2>2. CASE keys # <<>>
    <3>1. PICK p \in rows \ {Template} :
            keys = <<[provider |-> p, owner |-> Platform, active |-> TRUE]>>
      BY <2>2 DEF Init
    <3>2. p \in Providers
      BY DEF Init
    <3>3. [provider |-> p, owner |-> Platform, active |-> TRUE] \in KeyRows
      BY <3>2 DEF KeyRows
    <3>4. MaxKeys \in Nat /\ MaxKeys > 0
      BY KeyConstants, ChoiceConstants
    <3> QED
      BY <3>1, <3>3, <3>4
  <2> QED
    BY <2>1, <2>2
<1>2. FromEnv \in {NoKey, EnvKey}
  BY DEF FromEnv
<1>3. \A k \in DOMAIN keys : keys[k].owner = Platform
  BY DEF Init
<1>4. \A k \in DOMAIN keys : k \in KeyIds
  BY <1>1, KeyConstants DEF KeyIds
<1>5. AdaptersShared /\ adapters \in [Providers -> SUBSET Secrets]
  <2> DEFINE scoped(p) == ScopedKey(keys, p, Nobody, Nobody)
             secret(p) == IF scoped(p) = NoKey THEN FromEnv ELSE scoped(p)
  <2>1. ASSUME NEW p \in Providers
        PROVE  scoped(p) = NoKey \/ scoped(p) \in DOMAIN keys
    BY ScopedKeyOwner
  <2>2. adapters = [p \in Providers |->
          IF p \notin rows \/ (Kind[p] = "keyed" /\ secret(p) = NoKey) THEN {} ELSE {secret(p)}]
    BY DEF Init
  <2> HIDE DEF scoped
  <2>3. ASSUME NEW p \in Providers
        PROVE  secret(p) \in Common /\ secret(p) \in Secrets
    BY <1>2, <1>3, <1>4, <2>1 DEF Common, Secrets
  <2> HIDE DEF secret
  <2> QED
    BY <2>2, <2>3 DEF AdaptersShared
<1>6. Anonymous \in Callers
  BY DEF Callers
<1>7. "idle" \in Labels
  BY DEF Labels
<1>8. TypeOK
  <2>1. policies \in Seq(PolicyRows) /\ \A h \in Goroutines : <<>> \in Seq(Providers)
    BY DEF Init
  <2>2. rows \subseteq Providers /\ bound \subseteq Providers /\ health \subseteq Providers
        /\ known \subseteq Providers /\ missed \subseteq Requests
    BY DEF Init
  <2>3. pc \in [Requests \cup Admins -> Labels]
    BY <1>7 DEF Init
  <2>4. todo \in [Requests \cup Admins -> Seq(Providers)]
    BY DEF Init
  <2>5. held \in [Requests \cup Admins -> SUBSET Secrets]
    BY DEF Init
  <2>6. caller \in [Requests -> Callers] /\ routes \in [Requests -> Seq(RouteRecords)]
    BY <1>6 DEF Init
  <2> QED
    BY <1>1, <1>5, <2>1, <2>2, <2>3, <2>4, <2>5, <2>6 DEF TypeOK
<1>9. \A h \in Goroutines : pc[h] = "idle" /\ held[h] = {}
  BY DEF Init, Goroutines
<1>10. \A q \in Requests : routes[q] = <<>>
  BY DEF Init
<1>11. \A a \in Admins : AdminShape(a)
  BY <1>9 DEF AdminShape, Goroutines
<1>12. \A q \in Requests : RequestShape(q)
  BY <1>9, <1>10 DEF RequestShape, Goroutines
<1> QED
  BY <1>5, <1>8, <1>11, <1>12 DEF ChoiceInv

-----------------------------------------------------------------------------
(* The tables, and the administrators. *)

LEMMA NothingButTables ==
  ASSUME UNCHANGED keys, TypeOK
  PROVE  keys' \in Seq(KeyRows) /\ Len(keys') <= MaxKeys /\ KeysKept
BY KeysChange

LEMMA WritesKeep ==
  ASSUME ChoiceInv,
         \/ \E a \in Admins :
              \/ \E p \in Providers, o \in Owners \cup {Platform} : AdminCreatesKey(a, p, o)
              \/ \E k \in KeyIds : AdminRevokesKey(a, k)
              \/ InstallProvider(a) \/ InstallBinding(a) \/ InstallFails(a)
              \/ ReadProvidersFails(a) \/ Refreshed(a)
         \/ \E u \in Users :
              \/ \E p \in Providers : UserCreatesKey(u, p)
              \/ \E k \in KeyIds : UserRevokesKey(u, k)
         \/ \E input \in PolicyInputs : AdminCreatesPolicy(input)
         \/ \E m \in Measurements : TrafficChanges(m)
         \/ \E p \in Providers : Check(p)
  PROVE  ChoiceInv'
<1>0. /\ TypeOK /\ policies \in Seq(PolicyRows) /\ Template \in Providers
      /\ rows \subseteq Providers /\ bound \subseteq Providers /\ health \subseteq Providers
      /\ {"providers", "install", "idle"} \subseteq Labels \ {"validate", "adapter"}
      /\ Users \subseteq Owners
  BY ChoiceConstants DEF ChoiceInv, TypeOK, Labels
<1>1. ASSUME NEW a \in Admins, NEW p \in Providers, NEW o \in Owners \cup {Platform},
             AdminCreatesKey(a, p, o)
      PROVE  ChoiceInv'
  <2>1. keys' \in Seq(KeyRows) /\ Len(keys') <= MaxKeys /\ KeysKept
    BY <1>0, <1>1, KeysChange DEF AdminCreatesKey
  <2> QED
    BY <1>0, <1>1, <2>1, TablesChange DEF AdminCreatesKey, Refreshing, mine, past
<1>2. ASSUME NEW a \in Admins, NEW k \in KeyIds, AdminRevokesKey(a, k)
      PROVE  ChoiceInv'
  <2>1. keys' \in Seq(KeyRows) /\ Len(keys') <= MaxKeys /\ KeysKept
    BY <1>0, <1>2, KeysChange DEF AdminRevokesKey
  <2> QED
    BY <1>0, <1>2, <2>1, TablesChange DEF AdminRevokesKey, Refreshing, mine, past
<1>3. ASSUME NEW a \in Admins,
             InstallProvider(a) \/ InstallBinding(a) \/ InstallFails(a)
      PROVE  ChoiceInv'
  <2>1. /\ keys' \in Seq(KeyRows) /\ Len(keys') <= MaxKeys /\ KeysKept
        /\ UNCHANGED <<policies, health, shared, mine, missed>>
    BY <1>0, <1>3, NothingButTables
    DEF InstallProvider, InstallBinding, InstallFails, Refreshing, past
  <2>2. rows' \subseteq Providers /\ bound' \subseteq Providers
    BY <1>0, <1>3 DEF InstallProvider, InstallBinding, InstallFails
  <2>3. \E l \in Labels \ {"validate", "adapter"} : pc' = [pc EXCEPT ![a] = l]
    BY <1>0, <1>3 DEF InstallProvider, InstallBinding, InstallFails, Refreshing
  <2> QED
    BY <1>0, <2>1, <2>2, <2>3, TablesChange DEF mine
<1>4. ASSUME NEW a \in Admins, ReadProvidersFails(a) \/ Refreshed(a)
      PROVE  ChoiceInv'
  <2>1. /\ keys' \in Seq(KeyRows) /\ Len(keys') <= MaxKeys /\ KeysKept
        /\ UNCHANGED <<policies, rows, bound, health, shared, mine, missed>>
        /\ pc' = [pc EXCEPT ![a] = "idle"]
    BY <1>0, <1>4, NothingButTables DEF ReadProvidersFails, Refreshed, past, tables
  <2> QED
    BY <1>0, <2>1, TablesChange DEF mine
<1>5. ASSUME NEW u \in Users,
             \/ \E p \in Providers : UserCreatesKey(u, p)
             \/ \E k \in KeyIds : UserRevokesKey(u, k)
      PROVE  ChoiceInv'
  <2>1. \/ \E p \in Providers, o \in Owners \cup {Platform} : InsertKey(p, o)
        \/ \E k \in KeyIds : RevokeKey(k)
    BY <1>0, <1>5 DEF UserCreatesKey, UserRevokesKey
  <2>2. keys' \in Seq(KeyRows) /\ Len(keys') <= MaxKeys /\ KeysKept
    BY <1>0, <2>1, KeysChange
  <2>3. UNCHANGED <<policies, rows, bound, health, shared, pc, mine, missed>>
    BY <1>5 DEF UserCreatesKey, UserRevokesKey, past
  <2> QED
    BY <1>0, <2>2, <2>3, TablesChange DEF mine
<1>6. ASSUME NEW input \in PolicyInputs, AdminCreatesPolicy(input)
      PROVE  ChoiceInv'
  <2>1. policies' \in Seq(PolicyRows)
    BY <1>0, <1>6, PolicyRowsChange DEF AdminCreatesPolicy
  <2>2. keys' \in Seq(KeyRows) /\ Len(keys') <= MaxKeys /\ KeysKept
    BY <1>0, <1>6, NothingButTables DEF AdminCreatesPolicy
  <2> QED
    BY <1>0, <1>6, <2>1, <2>2, TablesChange DEF AdminCreatesPolicy, mine, past
<1>7. ASSUME \/ \E m \in Measurements : TrafficChanges(m)
             \/ \E p \in Providers : Check(p)
      PROVE  ChoiceInv'
  <2>1. /\ keys' \in Seq(KeyRows) /\ Len(keys') <= MaxKeys /\ KeysKept
        /\ UNCHANGED <<policies, rows, bound, shared, pc, mine, missed>>
    BY <1>0, <1>7, NothingButTables DEF TrafficChanges, Check, past
  <2>2. health' \subseteq Providers
    BY <1>0, <1>7 DEF TrafficChanges, Check, Found
  <2> QED
    BY <1>0, <2>1, <2>2, TablesChange DEF mine
<1> QED
  BY <1>1, <1>2, <1>3, <1>4, <1>5, <1>6, <1>7

LEMMA ValidationKeeps ==
  ASSUME ChoiceInv, NEW a \in Admins,
         (\E k \in KeyIds : ReadKeyToValidate(a, k)) \/ Validate(a)
  PROVE  ChoiceInv'
<1>0. /\ TypeOK /\ pc \in [Goroutines -> Labels] /\ held \in [Goroutines -> SUBSET Secrets]
      /\ {"validate", "idle"} \subseteq Labels /\ a \in Goroutines /\ a \notin Requests
  BY ChoiceConstants DEF ChoiceInv, TypeOK, Labels, Goroutines
<1>1. /\ UNCHANGED <<keys, policies, rows, bound, shared, todo, caller, routes, missed>>
      /\ \A h \in Goroutines \ {a} : pc'[h] = pc[h] /\ held'[h] = held[h]
  BY <1>0 DEF ReadKeyToValidate, Validate, tables, past
<1>2. keys' \in Seq(KeyRows) /\ Len(keys') <= MaxKeys /\ KeysKept
  BY <1>0, <1>1, NothingButTables
<1>3. health' \subseteq Providers
  <2>1. CASE Validate(a)
    <3>1. PICK k \in held[a] : health' = Found(keys[k].provider, Answers(k, keys[k].provider))
      BY <2>1 DEF Validate
    <3>2. k \in DOMAIN keys
      BY <2>1 DEF Validate, ChoiceInv, AdminShape
    <3>3. keys[k].provider \in Providers
      BY <1>0, <3>2, KeyIdsAre DEF KeyRows
    <3> QED
      BY <1>0, <3>1, <3>3 DEF Found, TypeOK
  <2>2. CASE ~Validate(a)
    BY <1>0, <2>2 DEF ReadKeyToValidate, tables, TypeOK
  <2> QED
    BY <2>1, <2>2
<1>4. /\ pc' \in [Goroutines -> Labels] /\ held' \in [Goroutines -> SUBSET Secrets]
      /\ AdminShape(a)'
  <2>1. CASE Validate(a)
    BY <1>0, <2>1 DEF Validate, AdminShape
  <2>2. ASSUME NEW k \in KeyIds, ReadKeyToValidate(a, k)
        PROVE  /\ pc' \in [Goroutines -> Labels] /\ held' \in [Goroutines -> SUBSET Secrets]
               /\ pc'[a] = "validate" /\ held'[a] = {k} /\ k \in DOMAIN keys
    BY <1>0, <2>2 DEF ReadKeyToValidate, Secrets
  <2>3. ASSUME NEW k \in KeyIds, ReadKeyToValidate(a, k) PROVE AdminShape(a)'
    BY <1>1, <2>2, <2>3 DEF AdminShape
  <2> QED
    BY <2>1, <2>2, <2>3
<1>5. TypeOK'
  BY <1>0, <1>1, <1>2, <1>3, <1>4 DEF TypeOK, Goroutines, shared
<1>6. AdaptersShared'
  BY <1>1, <1>2, CommonGrows DEF ChoiceInv, AdaptersShared, shared
<1> QED
  BY <1>0, <1>1, <1>2, <1>4, <1>5, <1>6, OthersKeep DEF ChoiceInv

LEMMA RefreshKeeps ==
  ASSUME ChoiceInv, NEW a \in Admins,
         ReadProviders(a) \/ Resolve(a) \/ BuildAdapter(a)
  PROVE  ChoiceInv'
<1>0. /\ TypeOK /\ pc \in [Goroutines -> Labels] /\ held \in [Goroutines -> SUBSET Secrets]
      /\ todo \in [Goroutines -> Seq(Providers)] /\ adapters \in [Providers -> SUBSET Secrets]
      /\ known \subseteq Providers /\ rows \subseteq Providers /\ Common \subseteq Secrets
      /\ {"resolve", "adapter"} \subseteq Labels /\ a \in Goroutines /\ a \notin Requests
  BY ChoiceConstants, KeyIdsAre DEF ChoiceInv, TypeOK, Labels, Goroutines
<1>1. /\ UNCHANGED <<tables, caller, routes, missed>>
      /\ \A h \in Goroutines \ {a} : pc'[h] = pc[h] /\ todo'[h] = todo[h] /\ held'[h] = held[h]
      /\ \A h \in Goroutines \ {a} : h \in Goroutines
  BY <1>0 DEF ReadProviders, Resolve, BuildAdapter, past
<1>2. /\ keys' \in Seq(KeyRows) /\ Len(keys') <= MaxKeys /\ KeysKept
      /\ UNCHANGED <<keys, policies, rows, bound, health>>
  BY <1>0, <1>1, NothingButTables DEF tables
<1>3. ASSUME ReadProviders(a)
      PROVE  /\ pc' \in [Goroutines -> Labels] /\ held' \in [Goroutines -> SUBSET Secrets]
             /\ todo' \in [Goroutines -> Seq(Providers)]
             /\ known' \subseteq Providers /\ UNCHANGED adapters
             /\ AdminShape(a)'
  <2>1. PICK s \in Sortings(rows, ByPriority, traffic) : todo' = [todo EXCEPT ![a] = s]
    BY <1>3 DEF ReadProviders
  <2>2. s \in Seq(Providers)
    BY <1>0, SortingsAreSequences
  <2>3. pc' = [pc EXCEPT ![a] = "resolve"] /\ UNCHANGED <<shared, held>>
    BY <1>3 DEF ReadProviders
  <2>4. AdminShape(a)'
    BY <1>0, <2>3 DEF AdminShape
  <2> QED
    BY <1>0, <2>1, <2>2, <2>3, <2>4 DEF shared
<1>4. ASSUME Resolve(a)
      PROVE  /\ pc' \in [Goroutines -> Labels] /\ held' \in [Goroutines -> SUBSET Secrets]
             /\ todo' \in [Goroutines -> Seq(Providers)]
             /\ known' \subseteq Providers /\ UNCHANGED adapters
             /\ AdminShape(a)'
  <2> DEFINE p == Head(todo[a])
  <2>1. p \in Providers
    BY <1>0, <1>4, HeadTailProperties DEF Resolve
  <2>2. PICK secret \in {NoKey, PlatformSecret(p), FromEnv} : held' = [held EXCEPT ![a] = {secret}]
    BY <1>4 DEF Resolve
  <2>3. secret \in Common
    BY <1>0, <2>2, PlatformSecretIsCommon DEF Common
  <2>4. /\ pc' = [pc EXCEPT ![a] = "adapter"] /\ UNCHANGED <<todo, adapters>>
        /\ known' = known \cup {p} /\ todo[a] # <<>>
    BY <1>4 DEF Resolve
  <2>5. Common' = Common
    BY <1>2 DEF Common, EnvKey
  <2>6. pc'[a] = "adapter" /\ held'[a] = {secret} /\ todo'[a] = todo[a]
    BY <1>0, <2>2, <2>4
  <2> HIDE DEF p
  <2>7. AdminShape(a)'
    BY <2>3, <2>4, <2>5, <2>6 DEF AdminShape
  <2> QED
    BY <1>0, <2>1, <2>2, <2>3, <2>4, <2>7
<1>5. ASSUME BuildAdapter(a)
      PROVE  /\ pc' \in [Goroutines -> Labels] /\ held' \in [Goroutines -> SUBSET Secrets]
             /\ todo' \in [Goroutines -> Seq(Providers)]
             /\ UNCHANGED known
             /\ \/ UNCHANGED adapters
                \/ \E p \in Providers : adapters' = [adapters EXCEPT ![p] = held[a]]
             /\ held[a] \subseteq Common
             /\ AdminShape(a)'
  <2>1. todo[a] # <<>> /\ held[a] \subseteq Common
    BY <1>5 DEF BuildAdapter, ChoiceInv, AdminShape
  <2>2. Head(todo[a]) \in Providers /\ Tail(todo[a]) \in Seq(Providers)
    BY <1>0, <2>1, HeadTailProperties
  <2>3. /\ todo' = [todo EXCEPT ![a] = Tail(todo[a])] /\ held' = [held EXCEPT ![a] = {}]
        /\ pc' = [pc EXCEPT ![a] = "resolve"] /\ UNCHANGED known
    BY <1>5 DEF BuildAdapter
  <2>4. \/ UNCHANGED adapters
        \/ adapters' = [adapters EXCEPT ![Head(todo[a])] = held[a]]
    BY <1>5 DEF BuildAdapter
  <2>5. AdminShape(a)'
    BY <1>0, <2>3 DEF AdminShape
  <2> QED
    BY <1>0, <2>1, <2>2, <2>3, <2>4, <2>5
<1>6. /\ adapters' \in [Providers -> SUBSET Secrets]
      /\ \A p \in Providers : adapters'[p] \subseteq Common
  <2>1. CASE UNCHANGED adapters
    BY <1>0, <2>1 DEF ChoiceInv, AdaptersShared
  <2>2. CASE ~UNCHANGED adapters
    BY <1>0, <1>3, <1>4, <1>5, <2>2 DEF ChoiceInv, AdaptersShared
  <2> QED
    BY <2>1, <2>2
<1>7. AdaptersShared'
  BY <1>2, <1>6, CommonGrows DEF AdaptersShared
<1>8. TypeOK'
  <2>1. /\ pc' \in [Goroutines -> Labels] /\ held' \in [Goroutines -> SUBSET Secrets]
        /\ todo' \in [Goroutines -> Seq(Providers)] /\ known' \subseteq Providers
    BY <1>0, <1>3, <1>4, <1>5
  <2> QED
    BY <1>0, <1>1, <1>2, <1>6, <2>1 DEF TypeOK, Goroutines
<1> QED
  BY <1>0, <1>1, <1>2, <1>3, <1>4, <1>5, <1>7, <1>8, OthersKeep DEF ChoiceInv

-----------------------------------------------------------------------------
(* The requests. *)

\* The routes a query leads to are the caller's, whatever it finds: the key it
\* returns is visible to the caller, the adapter at hand is everyone's.
LEMMA RoutesAreTheCallers ==
  ASSUME TypeOK, NEW p \in Providers, NEW adapter, adapter \subseteq Common,
         NEW user, NEW workspace, NEW k,
         k = NoKey \/ k = ScopedKey(keys, p, user, workspace),
         NEW route \in RoutesOf(p, adapter, k)
  PROVE  /\ route \in RouteRecords
         /\ route.secret \in KeyIds =>
              /\ route.secret \in DOMAIN keys
              /\ keys[route.secret].owner \in {user, workspace, Platform}
<1>1. k = NoKey \/ (k \in DOMAIN keys /\ keys[k].owner \in {workspace, user, Platform})
  BY ScopedKeyOwner
<1>2. k \in {NoKey} \cup KeyIds
  BY <1>1, KeyIdsAre
<1>3. \E s \in {NoKey, FromEnv, k} \cup adapter, j \in {NoKey, k} :
        route = [provider |-> p, secret |-> s, key |-> j]
  BY DEF RoutesOf
<1>4. PICK s \in {NoKey, FromEnv, k} \cup adapter, j \in {NoKey, k} :
        route = [provider |-> p, secret |-> s, key |-> j]
  BY <1>3
<1>5. s \in Common \cup {k}
  BY <1>4, PlatformSecretIsCommon DEF Common
<1>6. s \in Secrets
  BY <1>2, <1>5, KeyIdsAre DEF Secrets
<1>7. s \in KeyIds => s \in DOMAIN keys /\ keys[s].owner \in {user, workspace, Platform}
  BY <1>1, <1>5, KeyIdsAre DEF Common
<1> QED
  BY <1>2, <1>4, <1>6, <1>7 DEF RouteRecords

\* One step of a request: what has to be shown of that request alone.
LEMMA RequestSteps ==
  ASSUME ChoiceInv, NEW q \in Requests,
         UNCHANGED <<tables, shared>>,
         \A h \in Goroutines \ {q} : pc'[h] = pc[h] /\ todo'[h] = todo[h] /\ held'[h] = held[h],
         \A r \in Requests \ {q} : caller'[r] = caller[r] /\ routes'[r] = routes[r],
         pc' \in [Goroutines -> Labels], held' \in [Goroutines -> SUBSET Secrets],
         todo' \in [Goroutines -> Seq(Providers)],
         caller' \in [Requests -> Callers], routes' \in [Requests -> Seq(RouteRecords)],
         missed' \subseteq Requests,
         RequestShape(q)'
  PROVE  ChoiceInv'
<1>1. q \in Goroutines /\ q \notin Admins
  BY ChoiceConstants DEF Goroutines
<1>2. /\ keys' \in Seq(KeyRows) /\ Len(keys') <= MaxKeys /\ KeysKept
      /\ UNCHANGED <<keys, policies, rows, bound, health, known, adapters>>
  BY NothingButTables DEF tables, shared, ChoiceInv
<1>3. TypeOK'
  BY <1>2 DEF ChoiceInv, TypeOK, Goroutines
<1>4. AdaptersShared'
  BY <1>2, CommonGrows DEF ChoiceInv, AdaptersShared
<1> QED
  BY <1>1, <1>2, <1>3, <1>4, OthersKeep DEF ChoiceInv

LEMMA RequestTypes ==
  ASSUME ChoiceInv, NEW q \in Requests
  PROVE  /\ TypeOK /\ pc \in [Goroutines -> Labels] /\ held \in [Goroutines -> SUBSET Secrets]
         /\ todo \in [Goroutines -> Seq(Providers)] /\ caller \in [Requests -> Callers]
         /\ routes \in [Requests -> Seq(RouteRecords)] /\ adapters \in [Providers -> SUBSET Secrets]
         /\ missed \subseteq Requests /\ q \in Goroutines
         /\ {"idle", "policy", "stats", "next", "key"} \subseteq Labels
         /\ RequestShape(q) /\ AdaptersShared
BY DEF ChoiceInv, TypeOK, Labels, Goroutines

LEMMA ArriveKeeps ==
  ASSUME ChoiceInv, NEW q \in Requests, NEW who \in Callers, Arrive(q, who)
  PROVE  ChoiceInv'
<1>1. PICK s \in Sortings(bound \cap health, ByPriority, traffic) : todo' = [todo EXCEPT ![q] = s]
  BY DEF Arrive
<1>2. s \in Seq(Providers)
  BY RequestTypes, SortingsAreSequences DEF TypeOK
<1>3. /\ caller' = [caller EXCEPT ![q] = who] /\ pc' = [pc EXCEPT ![q] = "policy"]
      /\ UNCHANGED <<tables, shared, held, routes, missed>> /\ pc[q] = "idle"
  BY DEF Arrive
<1>4. /\ pc' \in [Goroutines -> Labels] /\ todo' \in [Goroutines -> Seq(Providers)]
      /\ caller' \in [Requests -> Callers]
  BY <1>1, <1>2, <1>3, RequestTypes
<1>5. RequestShape(q)'
  <2>1. Common' = Common /\ pc'[q] = "policy" /\ routes'[q] = <<>> /\ held'[q] \subseteq Common
    BY <1>3, RequestTypes DEF RequestShape, Common, EnvKey, tables
  <2> QED
    BY <2>1 DEF RequestShape
<1>6. \A h \in Goroutines \ {q} : pc'[h] = pc[h] /\ todo'[h] = todo[h] /\ held'[h] = held[h]
  BY <1>1, <1>3, RequestTypes
<1> QED
  BY <1>3, <1>4, <1>5, <1>6, RequestTypes, RequestSteps

LEMMA OrderingKeeps ==
  ASSUME ChoiceInv, NEW q \in Requests,
         ReadPolicy(q) \/ ReadStats(q) \/ SortFails(q)
  PROVE  ChoiceInv'
<1>1. \/ \E by : Ordered(q, by)
      \/ pc' = [pc EXCEPT ![q] = "stats"] /\ UNCHANGED todo
  BY DEF ReadPolicy, ReadStats, SortFails
<1>2. /\ UNCHANGED <<tables, shared, held, caller, routes>>
      /\ pc[q] \in {"policy", "stats"} /\ missed' \subseteq Requests
  BY RequestTypes DEF ReadPolicy, ReadStats, SortFails, Rest
<1>3. /\ pc' \in [Goroutines -> Labels] /\ todo' \in [Goroutines -> Seq(Providers)]
      /\ pc'[q] \in {"next", "stats"}
      /\ \A h \in Goroutines \ {q} : pc'[h] = pc[h] /\ todo'[h] = todo[h]
  <2>1. ASSUME NEW by, Ordered(q, by)
        PROVE  /\ pc' = [pc EXCEPT ![q] = "next"]
               /\ \E s \in Seq(Providers) : todo' = [todo EXCEPT ![q] = s]
    <3>1. {todo[q][i] : i \in DOMAIN todo[q]} \subseteq Providers
      BY RequestTypes, EntriesAreProviders
    <3> QED
      BY <2>1, <3>1, SortingsAreSequences DEF Ordered
  <2> QED
    BY <1>1, <2>1, RequestTypes
<1>4. RequestShape(q)'
  <2>1. Common' = Common /\ routes'[q] = <<>> /\ held'[q] \subseteq Common
    BY <1>2, RequestTypes DEF RequestShape, Common, EnvKey, tables
  <2> QED
    BY <1>3, <2>1 DEF RequestShape
<1> QED
  BY <1>2, <1>3, <1>4, RequestTypes, RequestSteps

LEMMA ReadAdapterKeeps ==
  ASSUME ChoiceInv, NEW q \in Requests, ReadAdapter(q)
  PROVE  ChoiceInv'
<1> DEFINE p == Head(todo[q])
<1>1. /\ pc[q] = "next" /\ todo[q] # <<>>
      /\ UNCHANGED <<tables, shared, caller, routes, missed>>
      /\ \/ /\ held' = [held EXCEPT ![q] = adapters[p]]
            /\ pc' = [pc EXCEPT ![q] = "key"] /\ UNCHANGED todo
         \/ todo' = [todo EXCEPT ![q] = Tail(todo[q])] /\ UNCHANGED <<held, pc>>
  BY DEF ReadAdapter, past
<1>2. p \in Providers /\ Tail(todo[q]) \in Seq(Providers)
  BY <1>1, RequestTypes, HeadTailProperties
<1>3. adapters[p] \subseteq Common /\ adapters[p] \in SUBSET Secrets
  BY <1>2, RequestTypes DEF AdaptersShared
<1> HIDE DEF p
<1>4. /\ pc' \in [Goroutines -> Labels] /\ todo' \in [Goroutines -> Seq(Providers)]
      /\ held' \in [Goroutines -> SUBSET Secrets]
      /\ \A h \in Goroutines \ {q} : pc'[h] = pc[h] /\ todo'[h] = todo[h] /\ held'[h] = held[h]
      /\ pc'[q] \in {"next", "key"} /\ (pc'[q] = "key" => todo'[q] # <<>>)
      /\ held'[q] \in {held[q], adapters[p]}
  BY <1>1, <1>2, <1>3, RequestTypes
<1>5. RequestShape(q)'
  <2>1. Common' = Common /\ UNCHANGED keys
    BY <1>1 DEF Common, EnvKey, tables
  <2>2. held'[q] \subseteq Common'
    BY <1>3, <1>4, <2>1, RequestTypes DEF RequestShape
  <2>3. KeysKept
    BY <2>1 DEF KeysKept
  <2>4. caller'[q] = caller[q] /\ routes'[q] = routes[q]
    BY <1>1
  <2> QED
    BY <1>4, <2>2, <2>3, <2>4, RequestTypes, RoutesStay DEF RequestShape, MayUse, KeyIds
<1> QED
  BY <1>1, <1>4, <1>5, RequestTypes, RequestSteps

LEMMA RoutedKeeps ==
  ASSUME ChoiceInv, NEW q \in Requests, ReadScopedKey(q) \/ ReadScopedKeyFails(q)
  PROVE  ChoiceInv'
<1> DEFINE p == Head(todo[q])
           user == caller[q].user
           workspace == caller[q].workspace
<1>1. PICK k \in {NoKey, ScopedKey(keys, p, user, workspace)} : Routed(q, k)
  BY DEF ReadScopedKey, ReadScopedKeyFails
<1>2. pc[q] = "key" /\ missed' \subseteq Requests
  BY RequestTypes DEF ReadScopedKey, ReadScopedKeyFails
<1>3. /\ todo' = [todo EXCEPT ![q] = Tail(todo[q])] /\ held' = [held EXCEPT ![q] = {}]
      /\ pc' = [pc EXCEPT ![q] = "next"] /\ UNCHANGED <<tables, shared, caller>>
      /\ \/ UNCHANGED routes
         \/ \E route \in RoutesOf(p, held[q], k) :
              routes' = [routes EXCEPT ![q] = Append(routes[q], route)]
  BY <1>1 DEF Routed
<1>4. todo[q] # <<>> /\ held[q] \subseteq Common
  BY <1>2, RequestTypes DEF RequestShape
<1>5. p \in Providers /\ Tail(todo[q]) \in Seq(Providers)
  BY <1>4, RequestTypes, HeadTailProperties
<1>6. ASSUME NEW route \in RoutesOf(p, held[q], k)
      PROVE  /\ route \in RouteRecords
             /\ route.secret \in KeyIds =>
                  /\ route.secret \in DOMAIN keys
                  /\ keys[route.secret].owner \in {user, workspace, Platform}
  BY <1>1, <1>4, <1>5, RequestTypes, RoutesAreTheCallers
<1>7. /\ pc' \in [Goroutines -> Labels] /\ todo' \in [Goroutines -> Seq(Providers)]
      /\ held' \in [Goroutines -> SUBSET Secrets]
      /\ \A h \in Goroutines \ {q} : pc'[h] = pc[h] /\ todo'[h] = todo[h] /\ held'[h] = held[h]
      /\ pc'[q] = "next" /\ held'[q] = {}
  BY <1>3, <1>5, RequestTypes
<1> HIDE DEF p, user, workspace
<1>8. /\ routes' \in [Requests -> Seq(RouteRecords)]
      /\ \A r \in Requests \ {q} : routes'[r] = routes[r]
      /\ \A i \in DOMAIN routes'[q] :
           routes'[q][i].secret \in KeyIds =>
             /\ routes'[q][i].secret \in DOMAIN keys
             /\ keys[routes'[q][i].secret].owner \in {user, workspace, Platform}
  <2>0. \A i \in DOMAIN routes[q] :
          routes[q][i].secret \in KeyIds =>
            /\ routes[q][i].secret \in DOMAIN keys
            /\ keys[routes[q][i].secret].owner \in {user, workspace, Platform}
    BY RequestTypes DEF RequestShape, MayUse, user, workspace
  <2>1. CASE UNCHANGED routes
    BY <2>0, <2>1, RequestTypes
  <2>2. ASSUME NEW route \in RoutesOf(p, held[q], k),
               routes' = [routes EXCEPT ![q] = Append(routes[q], route)]
        PROVE  /\ routes' \in [Requests -> Seq(RouteRecords)]
               /\ \A r \in Requests \ {q} : routes'[r] = routes[r]
               /\ \A i \in DOMAIN routes'[q] :
                    routes'[q][i].secret \in KeyIds =>
                      /\ routes'[q][i].secret \in DOMAIN keys
                      /\ keys[routes'[q][i].secret].owner \in {user, workspace, Platform}
    <3>1. routes[q] \in Seq(RouteRecords) /\ route \in RouteRecords
      BY <1>6, RequestTypes
    <3> DEFINE longer == Append(routes[q], route)
    <3>2. /\ longer \in Seq(RouteRecords) /\ Len(longer) = Len(routes[q]) + 1
          /\ \A i \in 1..Len(routes[q]) : longer[i] = routes[q][i]
          /\ longer[Len(routes[q]) + 1] = route
      BY <3>1, AppendProperties
    <3> HIDE DEF longer
    <3>3. \A i \in DOMAIN longer :
            (i \in DOMAIN routes[q] /\ longer[i] = routes[q][i]) \/ longer[i] = route
      BY <3>1, <3>2
    <3>4. routes' = [routes EXCEPT ![q] = longer]
      BY <2>2 DEF longer
    <3>5. routes'[q] = longer
      BY <3>4, RequestTypes
    <3>6. routes' \in [Requests -> Seq(RouteRecords)] /\ \A r \in Requests \ {q} : routes'[r] = routes[r]
      BY <3>2, <3>4, RequestTypes
    <3>7. ASSUME NEW i \in DOMAIN longer, longer[i].secret \in KeyIds
          PROVE  /\ longer[i].secret \in DOMAIN keys
                 /\ keys[longer[i].secret].owner \in {user, workspace, Platform}
      BY <1>6, <2>0, <3>3, <3>7
    <3> QED
      BY <3>5, <3>6, <3>7
  <2> QED
    BY <1>3, <2>1, <2>2
<1>9. RequestShape(q)'
  <2>1. UNCHANGED keys /\ caller'[q] = caller[q]
    BY <1>3 DEF tables
  <2> QED
    BY <1>7, <1>8, <2>1 DEF RequestShape, MayUse, KeyIds, user, workspace
<1> QED
  BY <1>2, <1>3, <1>7, <1>8, <1>9, RequestTypes, RequestSteps

LEMMA LeaveKeeps ==
  ASSUME ChoiceInv, NEW q \in Requests, Leave(q)
  PROVE  ChoiceInv'
<1>1. /\ pc' = [pc EXCEPT ![q] = "idle"] /\ caller' = [caller EXCEPT ![q] = Anonymous]
      /\ routes' = [routes EXCEPT ![q] = <<>>] /\ missed' \subseteq Requests
      /\ UNCHANGED <<tables, shared, todo, held>>
  BY RequestTypes DEF Leave
<1>2. Anonymous \in Callers
  BY DEF Callers
<1>3. /\ pc' \in [Goroutines -> Labels] /\ caller' \in [Requests -> Callers]
      /\ routes' \in [Requests -> Seq(RouteRecords)]
      /\ \A h \in Goroutines \ {q} : pc'[h] = pc[h]
      /\ pc'[q] = "idle" /\ routes'[q] = <<>>
  BY <1>1, <1>2, RequestTypes
<1>4. RequestShape(q)'
  <2>1. Common' = Common /\ held'[q] \subseteq Common
    BY <1>1, RequestTypes DEF RequestShape, Common, EnvKey, tables
  <2> QED
    BY <1>3, <2>1 DEF RequestShape
<1> QED
  BY <1>1, <1>3, <1>4, RequestTypes, RequestSteps

LEMMA ChoiceNext ==
  ASSUME ChoiceInv, [Next]_vars
  PROVE  ChoiceInv'
<1>1. ASSUME NEW q \in Requests, Route(q) PROVE ChoiceInv'
  BY <1>1, ArriveKeeps, OrderingKeeps, ReadAdapterKeeps, RoutedKeeps, LeaveKeeps DEF Route
<1>2. ASSUME NEW a \in Admins, Administer(a) PROVE ChoiceInv'
  BY <1>2, WritesKeep, ValidationKeeps, RefreshKeeps DEF Administer, InitAdapters
<1>3. CASE \/ \E u \in Users :
                \/ \E p \in Providers : UserCreatesKey(u, p)
                \/ \E k \in KeyIds : UserRevokesKey(u, k)
           \/ \E input \in PolicyInputs : AdminCreatesPolicy(input)
           \/ \E m \in Measurements : TrafficChanges(m)
           \/ \E p \in Providers : Check(p)
  BY <1>3, WritesKeep
<1>4. CASE UNCHANGED vars
  <2>1. /\ UNCHANGED <<tables, shared, pc, mine, missed>>
        /\ UNCHANGED <<keys, policies, rows, bound, health>>
    BY <1>4 DEF vars, past, tables
  <2>2. keys' \in Seq(KeyRows) /\ Len(keys') <= MaxKeys /\ KeysKept
    BY <2>1, NothingButTables DEF ChoiceInv
  <2> QED
    BY <2>1, <2>2, TablesChange DEF ChoiceInv, TypeOK, mine
<1> QED
  BY <1>1, <1>2, <1>3, <1>4 DEF Next

-----------------------------------------------------------------------------
(* What a request has seen, against the tables as they are now. *)

\* The table of keys is a later one: rows have been added and revoked.
Outdates(now, then) ==
  \A k \in DOMAIN then :
    /\ k \in DOMAIN now
    /\ now[k].owner = then[k].owner /\ now[k].provider = then[k].provider
    /\ now[k].active => then[k].active

\* The keys that were active then and still are, and those that were active at
\* some time since.
LastingIn(now, then) == {k \in DOMAIN then : then[k].active /\ now[k].active}
LivedIn(now, then) == {k \in DOMAIN now : k \in DOMAIN then => then[k].active}

\* CredentialIsInForce, of one route of a caller.
InForceFor(now, then, who, failed, route) ==
  LET lasting == Visible(now, route.provider, who.user, who.workspace) \cap LastingIn(now, then)
  IN  /\ route.key # NoKey =>
           /\ route.key \in LivedIn(now, then)
           /\ \A j \in lasting :
                j # route.key => Precedes(now, route.key, j, who.user, who.workspace)
      /\ route.key = NoKey => lasting = {} \/ failed
      /\ route.secret \in KeyIds /\ route.secret \notin LivedIn(now, then) =>
           /\ now[route.secret].owner = Platform
           /\ ~HasEnvKey /\ route.key = NoKey

\* The table of policies has grown.
Extends(now, then) ==
  /\ Len(then) <= Len(now)
  /\ \A n \in 0..Len(then) : SubSeq(now, 1, n) = SubSeq(then, 1, n)

RequestHistory(q) ==
  /\ Outdates(keys, since[q].keys)
  /\ Len(since[q].policies) \in Nat /\ Len(since[q].policies) <= Len(policies)
  /\ pc[q] # "idle" => traffic \in measured[q]
  /\ pc[q] = "stats" =>
       \E n \in Len(since[q].policies)..Len(policies) : policy[q] = InForce(SubSeq(policies, 1, n))
  /\ pc[q] \in {"next", "key"} =>
       \/ q \in missed /\ IsSorted(order[q], ByPriority, traffic)
       \/ \E n \in Len(since[q].policies)..Len(policies), m \in measured[q] :
            IsSorted(order[q], InForce(SubSeq(policies, 1, n)), m)
  /\ \A i \in DOMAIN routes[q] :
       InForceFor(keys, since[q].keys, caller[q], q \in missed, routes[q][i])

\* What a request remembers is remembered for each request.
Remembered ==
  /\ DOMAIN since = Requests /\ DOMAIN measured = Requests
  /\ DOMAIN policy = Requests /\ DOMAIN order = Requests

HistoryInv ==
  /\ ChoiceInv /\ Remembered
  /\ \A q \in Requests : RequestHistory(q)

-----------------------------------------------------------------------------
(* The query of a key and the comparison of the sort. *)

LEMMA LeastThereIs ==
  ASSUME NEW T, T \subseteq Nat, T # {}
  PROVE  \E k \in T : \A j \in T : k <= j
<1>1. PICK k \in T : \A j \in T : <<j, k>> \notin OpToRel(<, Nat)
  BY WFMin, NatLessThanWellFounded
<1>2. ASSUME NEW j \in T, j < k PROVE FALSE
  <2>1. j \in Nat /\ k \in Nat
    OBVIOUS
  <2>2. <<j, k>> \in OpToRel(<, Nat)
    BY <1>2, <2>1 DEF OpToRel
  <2> QED
    BY <1>1, <2>2
<1>3. \A j \in T : k <= j
  BY <1>2
<1> QED
  BY <1>3

LEMMA GreatestThereIs ==
  ASSUME NEW N \in Nat, NEW T, T \subseteq 1..N, T # {}
  PROVE  \E k \in T : \A j \in T : j <= k
<1> DEFINE below == {N - j : j \in T}
<1>1. below \subseteq Nat /\ below # {}
  <2>1. \A j \in T : j \in 1..N /\ N - j \in Nat /\ N - j \in below
    OBVIOUS
  <2>2. PICK j \in T : TRUE
    OBVIOUS
  <2> QED
    BY <2>1, <2>2
<1> HIDE DEF below
<1>2. PICK least \in below : \A i \in below : least <= i
  BY <1>1, LeastThereIs, Zenon
<1>3. PICK k \in T : least = N - k
  BY DEF below
<1>4. \A j \in T : N - k <= N - j
  BY <1>2, <1>3 DEF below
<1>5. \A j \in T : j \in Nat
  OBVIOUS
<1> QED
  BY <1>3, <1>4, <1>5

LEMMA Ranks ==
  ASSUME NEW table, NEW k, NEW user, NEW workspace
  PROVE  Rank(table, k, user, workspace) \in 1..3
BY DEF Rank

\* The query returns a key that precedes all others it selects from, and none
\* only when there is nothing to select from.
LEMMA ScopedKeyIsBest ==
  ASSUME NEW table \in Seq(KeyRows), NEW p, NEW user, NEW workspace
  PROVE  LET found == Visible(table, p, user, workspace)
             k == ScopedKey(table, p, user, workspace)
         IN  /\ k = NoKey => found = {}
             /\ k # NoKey =>
                  /\ k \in found
                  /\ \A j \in found : j # k => Precedes(table, k, j, user, workspace)
<1> DEFINE found == Visible(table, p, user, workspace)
           best == Selected(table, p, user, workspace)
           rank(k) == Rank(table, k, user, workspace)
<1>1. found \subseteq 1..Len(table) /\ Len(table) \in Nat
  BY DEF Visible
<1>2. best = {k \in found : \A j \in found \ {k} : Precedes(table, k, j, user, workspace)}
  BY DEF Selected
<1>3. \A k \in found : rank(k) \in 1..3
  BY Ranks
<1>4. \A j, k : Precedes(table, j, k, user, workspace) <=>
                   rank(j) < rank(k) \/ (rank(j) = rank(k) /\ j > k)
  BY DEF Precedes
<1>5. ScopedKey(table, p, user, workspace) = IF best = {} THEN NoKey ELSE CHOOSE k \in best : TRUE
  BY DEF ScopedKey
<1> HIDE DEF found, best, rank
<1>6. ASSUME found # {} PROVE best # {}
  <2> DEFINE of(r) == {k \in found : rank(k) = r}
  <2>1. PICK r \in 1..3 : of(r) # {} /\ \A k \in found : r <= rank(k)
    <3> DEFINE ranks == {rank(k) : k \in found}
    <3>1. ranks \subseteq Nat /\ ranks # {}
      BY <1>3, <1>6
    <3> HIDE DEF ranks
    <3>2. PICK r \in ranks : \A s \in ranks : r <= s
      BY <3>1, LeastThereIs, Zenon
    <3>3. PICK k \in found : r = rank(k)
      BY DEF ranks
    <3>4. \A j \in found : r <= rank(j)
      BY <3>2 DEF ranks
    <3> QED
      BY <1>3, <3>3, <3>4
  <2>2. of(r) \subseteq 1..Len(table)
    BY <1>1
  <2> HIDE DEF of
  <2>3. PICK k \in of(r) : \A j \in of(r) : j <= k
    BY <1>1, <2>1, <2>2, GreatestThereIs, Zenon
  <2>4. k \in found /\ rank(k) = r
    BY DEF of
  <2>5. ASSUME NEW j \in found \ {k} PROVE Precedes(table, k, j, user, workspace)
    <3>1. CASE rank(j) = r
      <4>1. j \in of(r)
        BY <3>1 DEF of
      <4>2. j <= k /\ j \in Nat /\ k \in Nat /\ j # k
        BY <1>1, <2>3, <2>4, <4>1
      <4>3. k > j
        BY <4>2
      <4> QED
        BY <1>4, <2>4, <3>1, <4>3
    <3>2. CASE rank(j) # r
      <4>1. r <= rank(j) /\ rank(j) \in 1..3 /\ r \in 1..3
        BY <1>3, <2>1
      <4>2. r < rank(j)
        BY <3>2, <4>1
      <4> QED
        BY <1>4, <2>4, <4>2
    <3> QED
      BY <3>1, <3>2
  <2> QED
    BY <1>2, <2>4, <2>5
<1>7. CASE best = {}
  BY <1>5, <1>6, <1>7 DEF found
<1>8. CASE best # {}
  <2> DEFINE k == CHOOSE k \in best : TRUE
  <2>1. k \in best /\ ScopedKey(table, p, user, workspace) = k
    BY <1>5, <1>8
  <2> HIDE DEF k
  <2>2. k \in found /\ \A j \in found \ {k} : Precedes(table, k, j, user, workspace)
    BY <1>2, <2>1, Zenon
  <2>3. k \in 1..Len(table)
    BY <1>1, <2>2
  <2>4. k # NoKey
    BY <1>1, <2>3 DEF NoKey
  <2> QED
    BY <2>1, <2>2, <2>4 DEF found
<1> QED
  BY <1>7, <1>8

\* By priority, nothing that was measured counts.
LEMMA PriorityMeasuresNothing ==
  ASSUME NEW o, NEW by, by.strategy = "priority", NEW m, NEW n,
         IsSorted(o, ByPriority, m)
  PROVE  IsSorted(o, by, n)
<1>1. \A p : Score(by, n, p) = 10 * Priority[p] /\ Score(ByPriority, m, p) = 10 * Priority[p]
  BY DEF Score, ByPriority
<1>2. \A p, d : MayPrecede(by, n, p, d) <=> MayPrecede(ByPriority, m, p, d)
  BY <1>1 DEF MayPrecede
<1> QED
  BY <1>2 DEF IsSorted

LEMMA SortingsAreSorted ==
  ASSUME NEW S, NEW by, NEW m, NEW s \in Sortings(S, by, m)
  PROVE  IsSorted(s, by, m)
BY DEF Sortings

-----------------------------------------------------------------------------
(* What a request has seen stays true of it. *)

LEMMA OutdatesAll ==
  ASSUME NEW now, NEW between, NEW then, Outdates(now, between), Outdates(between, then)
  PROVE  Outdates(now, then)
BY DEF Outdates

LEMMA InForceStays ==
  ASSUME NEW later, NEW now, NEW then, NEW who, NEW failed \in BOOLEAN, NEW fails \in BOOLEAN,
         NEW route, Outdates(later, now), Outdates(now, then), failed => fails,
         route.secret \in KeyIds => route.secret \in DOMAIN now,
         InForceFor(now, then, who, failed, route)
  PROVE  InForceFor(later, then, who, fails, route)
<1> DEFINE visible(table) == Visible(table, route.provider, who.user, who.workspace)
           lasting(table) == visible(table) \cap LastingIn(table, then)
           k == route.key
           s == route.secret
<1>1. lasting(later) \subseteq lasting(now) /\ lasting(now) \subseteq DOMAIN now
  BY DEF Visible, LastingIn, Outdates
<1>2. LivedIn(now, then) \subseteq LivedIn(later, then) /\ LivedIn(now, then) \subseteq DOMAIN now
  BY DEF LivedIn, Outdates
<1>3. \A i, j \in DOMAIN now :
        Precedes(now, i, j, who.user, who.workspace) => Precedes(later, i, j, who.user, who.workspace)
  BY DEF Precedes, Rank, Outdates
<1>4. /\ k # NoKey =>
           /\ k \in LivedIn(now, then)
           /\ \A j \in lasting(now) : j # k => Precedes(now, k, j, who.user, who.workspace)
      /\ k = NoKey => lasting(now) = {} \/ failed
      /\ s \in KeyIds /\ s \notin LivedIn(now, then) =>
           now[s].owner = Platform /\ ~HasEnvKey /\ k = NoKey
  BY DEF InForceFor
<1>5. \A j \in DOMAIN now : later[j].owner = now[j].owner
  BY DEF Outdates
<1> HIDE DEF visible, lasting
<1>6. k # NoKey =>
        /\ k \in LivedIn(later, then)
        /\ \A j \in lasting(later) : j # k => Precedes(later, k, j, who.user, who.workspace)
  BY <1>1, <1>2, <1>3, <1>4
<1>7. k = NoKey => lasting(later) = {} \/ fails
  BY <1>1, <1>4
<1>8. s \in KeyIds /\ s \notin LivedIn(later, then) =>
        later[s].owner = Platform /\ ~HasEnvKey /\ k = NoKey
  BY <1>2, <1>4, <1>5
<1> QED
  BY <1>6, <1>7, <1>8 DEF InForceFor, lasting, visible

LEMMA HistoryStays ==
  ASSUME NEW q \in Requests, RequestShape(q), RequestHistory(q),
         Outdates(keys', keys), Extends(policies', policies),
         policies \in Seq(PolicyRows), policies' \in Seq(PolicyRows),
         pc'[q] = pc[q], since'[q] = since[q], caller'[q] = caller[q], policy'[q] = policy[q],
         order'[q] = order[q], routes'[q] = routes[q],
         measured[q] \subseteq measured'[q],
         pc[q] # "idle" => traffic' \in measured'[q],
         q \in missed => q \in missed'
  PROVE  RequestHistory(q)'
<1> DEFINE first == Len(since[q].policies)
<1>1. Outdates(keys', since'[q].keys)
  BY OutdatesAll DEF RequestHistory
<1>2. /\ first \in Nat /\ first <= Len(policies) /\ Len(policies) <= Len(policies')
      /\ Len(policies) \in Nat /\ Len(policies') \in Nat
  BY DEF RequestHistory, Extends
<1>3. ASSUME NEW n \in first..Len(policies)
      PROVE  n \in first..Len(policies') /\ SubSeq(policies', 1, n) = SubSeq(policies, 1, n)
  BY <1>2 DEF Extends
<1>4. first <= Len(policies') /\ Len(since'[q].policies) = first
  BY <1>2
<1> HIDE DEF first
<1>5. ASSUME pc[q] = "stats"
      PROVE  \E n \in first..Len(policies') : policy'[q] = InForce(SubSeq(policies', 1, n))
  <2>1. PICK n \in first..Len(policies) : policy[q] = InForce(SubSeq(policies, 1, n))
    BY <1>5 DEF RequestHistory, first
  <2> QED
    BY <1>3, <2>1
<1>6. ASSUME pc[q] \in {"next", "key"}
      PROVE  \/ q \in missed' /\ IsSorted(order'[q], ByPriority, traffic')
             \/ \E n \in first..Len(policies'), m \in measured'[q] :
                  IsSorted(order'[q], InForce(SubSeq(policies', 1, n)), m)
  <2>1. CASE q \in missed /\ IsSorted(order[q], ByPriority, traffic)
    <3>1. ByPriority.strategy = "priority"
      BY DEF ByPriority
    <3>2. IsSorted(order[q], ByPriority, traffic')
      BY <2>1, <3>1, PriorityMeasuresNothing
    <3> QED
      BY <2>1, <3>2
  <2>2. ASSUME NEW n \in first..Len(policies), NEW m \in measured[q],
               IsSorted(order[q], InForce(SubSeq(policies, 1, n)), m)
        PROVE  \E l \in first..Len(policies'), o \in measured'[q] :
                 IsSorted(order'[q], InForce(SubSeq(policies', 1, l)), o)
    <3>1. n \in first..Len(policies') /\ SubSeq(policies', 1, n) = SubSeq(policies, 1, n)
      BY <1>3
    <3>2. IsSorted(order'[q], InForce(SubSeq(policies', 1, n)), m) /\ m \in measured'[q]
      BY <2>2, <3>1
    <3> QED
      BY <3>1, <3>2
  <2> QED
    BY <1>6, <2>1, <2>2 DEF RequestHistory, first
<1>7. ASSUME NEW i \in DOMAIN routes[q]
      PROVE  InForceFor(keys', since[q].keys, caller[q], q \in missed', routes[q][i])
  <2>1. InForceFor(keys, since[q].keys, caller[q], q \in missed, routes[q][i])
    BY DEF RequestHistory
  <2>2. routes[q][i].secret \in KeyIds => routes[q][i].secret \in DOMAIN keys
    BY DEF RequestShape
  <2>3. Outdates(keys, since[q].keys)
    BY DEF RequestHistory
  <2>4. (q \in missed) \in BOOLEAN /\ (q \in missed') \in BOOLEAN
    OBVIOUS
  <2> QED
    BY <2>1, <2>2, <2>3, <2>4, InForceStays
<1> QED
  BY <1>1, <1>2, <1>4, <1>5, <1>6, <1>7 DEF RequestHistory, first

-----------------------------------------------------------------------------
(* Every step keeps what the requests have seen. *)

LEMMA KeysAreOutdated ==
  ASSUME keys \in Seq(KeyRows),
         \/ \E p \in Providers, o \in Owners \cup {Platform} : InsertKey(p, o)
         \/ \E k \in KeyIds : RevokeKey(k)
         \/ UNCHANGED keys
  PROVE  Outdates(keys', keys)
<1>1. ASSUME NEW p \in Providers, NEW o \in Owners \cup {Platform}, InsertKey(p, o)
      PROVE  Outdates(keys', keys)
  <2> DEFINE new == [provider |-> p, owner |-> o, active |-> TRUE]
  <2>1. new \in KeyRows
    BY DEF KeyRows
  <2>2. keys' = Append(keys, new)
    BY <1>1 DEF InsertKey
  <2> HIDE DEF new
  <2>3. \A k \in DOMAIN keys : k \in DOMAIN keys' /\ keys'[k] = keys[k]
    BY <2>1, <2>2, AppendProperties
  <2> QED
    BY <2>3 DEF Outdates
<1>2. ASSUME NEW k \in KeyIds, RevokeKey(k)
      PROVE  Outdates(keys', keys)
  <2> DEFINE new == [keys[k] EXCEPT !.active = FALSE]
  <2>1. k \in DOMAIN keys /\ keys[k] \in KeyRows
    BY <1>2 DEF RevokeKey
  <2>2. new.owner = keys[k].owner /\ new.provider = keys[k].provider /\ ~new.active
    BY <2>1 DEF KeyRows
  <2>3. keys' = [keys EXCEPT ![k] = new]
    BY <1>2 DEF RevokeKey
  <2> HIDE DEF new
  <2>4. \A j \in DOMAIN keys : j \in DOMAIN keys' /\ (j # k => keys'[j] = keys[j])
    BY <2>3
  <2>5. keys'[k] = new
    BY <2>1, <2>3
  <2> QED
    BY <2>2, <2>4, <2>5 DEF Outdates
<1>3. CASE UNCHANGED keys
  BY <1>3 DEF Outdates
<1> QED
  BY <1>1, <1>2, <1>3

LEMMA PoliciesAreExtended ==
  ASSUME TypeOK, (\E input \in PolicyInputs : CreatePolicy(input)) \/ UNCHANGED policies
  PROVE  Extends(policies', policies) /\ policies' \in Seq(PolicyRows)
<1>0. policies \in Seq(PolicyRows) /\ Len(policies) \in Nat
  BY DEF TypeOK
<1>1. CASE UNCHANGED policies
  BY <1>0, <1>1 DEF Extends
<1>2. ASSUME NEW input \in PolicyInputs, CreatePolicy(input)
      PROVE  Extends(policies', policies)
  <2> DEFINE row == PolicyRow(input)
  <2>1. policies' = Append(policies, row)
    BY <1>2 DEF CreatePolicy
  <2> HIDE DEF row
  <2>2. Len(policies') = Len(policies) + 1
    BY <1>0, <2>1
  <2>3. ASSUME NEW n \in 0..Len(policies)
        PROVE  SubSeq(policies', 1, n) = SubSeq(policies, 1, n)
    <3>1. \A i \in 1..n : policies'[i] = policies[i]
      BY <1>0, <2>1
    <3>2. /\ SubSeq(policies', 1, n) = [i \in 1..n |-> policies'[i]]
          /\ SubSeq(policies, 1, n) = [i \in 1..n |-> policies[i]]
      BY <1>0, <2>1, <2>2
    <3> QED
      BY <3>1, <3>2
  <2> QED
    BY <1>0, <2>2, <2>3 DEF Extends
<1> QED
  BY <1>0, <1>1, <1>2, PolicyRowsChange

\* A step of anyone but a request, and of a health check.
LEMMA BackgroundHistory ==
  ASSUME HistoryInv,
         \/ \E p \in Providers, o \in Owners \cup {Platform} : InsertKey(p, o)
         \/ \E k \in KeyIds : RevokeKey(k)
         \/ UNCHANGED keys,
         (\E input \in PolicyInputs : CreatePolicy(input)) \/ UNCHANGED policies,
         UNCHANGED <<caller, policy, order, routes, since, missed>>,
         \A q \in Requests : pc'[q] = pc[q],
         UNCHANGED <<traffic, measured>> \/ \E m \in Measurements : TrafficChanges(m)
  PROVE  Remembered' /\ \A q \in Requests : RequestHistory(q)'
<1>1. /\ Outdates(keys', keys)
      /\ Extends(policies', policies) /\ policies' \in Seq(PolicyRows)
      /\ policies \in Seq(PolicyRows)
  BY KeysAreOutdated, PoliciesAreExtended DEF HistoryInv, ChoiceInv, TypeOK
<1>2. \/ UNCHANGED <<traffic, measured>>
      \/ measured' = [q \in Requests |->
           IF q \in Running THEN measured[q] \cup {traffic'} ELSE measured[q]]
  BY DEF TrafficChanges
<1>3. ASSUME NEW q \in Requests
      PROVE  /\ measured[q] \subseteq measured'[q]
             /\ pc[q] # "idle" => traffic' \in measured'[q]
  <2>1. pc[q] # "idle" => traffic \in measured[q]
    BY DEF HistoryInv, RequestHistory
  <2> QED
    BY <1>2, <2>1 DEF Running
<1>4. Remembered'
  BY <1>2 DEF HistoryInv, Remembered
<1>5. ASSUME NEW q \in Requests PROVE RequestHistory(q)'
  BY <1>1, <1>3, HistoryStays DEF HistoryInv, ChoiceInv
<1> QED
  BY <1>4, <1>5

\* One step of a request: what has to be shown of that request alone.
LEMMA RequestHistorySteps ==
  ASSUME HistoryInv, NEW q \in Requests,
         UNCHANGED tables,
         \A r \in Requests \ {q} :
           /\ pc'[r] = pc[r] /\ since'[r] = since[r] /\ measured'[r] = measured[r]
           /\ caller'[r] = caller[r] /\ policy'[r] = policy[r]
           /\ order'[r] = order[r] /\ routes'[r] = routes[r]
           /\ r \in missed => r \in missed',
         Remembered', RequestHistory(q)'
  PROVE  Remembered' /\ \A r \in Requests : RequestHistory(r)'
<1>1. /\ Outdates(keys', keys) /\ UNCHANGED <<keys, policies, traffic>>
      /\ Extends(policies', policies)
      /\ policies \in Seq(PolicyRows) /\ policies' \in Seq(PolicyRows)
  BY KeysAreOutdated, PoliciesAreExtended DEF HistoryInv, ChoiceInv, TypeOK, tables
<1>2. ASSUME NEW r \in Requests \ {q} PROVE RequestHistory(r)'
  <2>1. pc[r] # "idle" => traffic' \in measured'[r]
    BY <1>1 DEF HistoryInv, RequestHistory
  <2> QED
    BY <1>1, <2>1, HistoryStays DEF HistoryInv, ChoiceInv
<1> QED
  BY <1>2

LEMMA HistoryTypes ==
  ASSUME HistoryInv, NEW q \in Requests
  PROVE  /\ RequestHistory(q) /\ RequestShape(q) /\ Remembered /\ TypeOK
         /\ DOMAIN pc = Goroutines /\ q \in Goroutines
         /\ DOMAIN caller = Requests /\ DOMAIN routes = Requests
         /\ routes[q] \in Seq(RouteRecords)
         /\ policies \in Seq(PolicyRows) /\ Len(policies) \in Nat
         /\ keys \in Seq(KeyRows) /\ Requests \subseteq Goroutines
BY DEF HistoryInv, ChoiceInv, TypeOK, Goroutines

LEMMA ArriveHistory ==
  ASSUME HistoryInv, NEW q \in Requests, NEW who \in Callers, Arrive(q, who)
  PROVE  Remembered' /\ \A r \in Requests : RequestHistory(r)'
<1>1. /\ pc' = [pc EXCEPT ![q] = "policy"] /\ caller' = [caller EXCEPT ![q] = who]
      /\ since' = [since EXCEPT ![q] = Tables] /\ measured' = [measured EXCEPT ![q] = {traffic}]
      /\ UNCHANGED <<tables, policy, order, routes, missed>> /\ pc[q] = "idle"
  BY DEF Arrive
<1>2. /\ \A r \in Requests \ {q} :
           /\ pc'[r] = pc[r] /\ since'[r] = since[r] /\ measured'[r] = measured[r]
           /\ caller'[r] = caller[r] /\ policy'[r] = policy[r]
           /\ order'[r] = order[r] /\ routes'[r] = routes[r]
           /\ r \in missed => r \in missed'
      /\ Remembered'
  BY <1>1, HistoryTypes DEF Remembered
<1>3. RequestHistory(q)'
  <2>1. /\ pc'[q] = "policy" /\ since'[q] = Tables /\ traffic' \in measured'[q]
        /\ UNCHANGED <<keys, policies>>
    BY <1>1, HistoryTypes DEF Remembered, tables
  <2>2. routes'[q] = <<>>
    BY <1>1, HistoryTypes DEF RequestShape
  <2>3. since'[q].keys = keys /\ since'[q].policies = policies
    BY <2>1 DEF Tables
  <2>4. Outdates(keys', since'[q].keys)
    BY <2>1, <2>3 DEF Outdates
  <2>5. Len(since'[q].policies) \in Nat /\ Len(since'[q].policies) <= Len(policies')
    BY <2>1, <2>3, HistoryTypes
  <2> QED
    BY <2>1, <2>2, <2>4, <2>5 DEF RequestHistory
<1> QED
  BY <1>1, <1>2, <1>3, RequestHistorySteps

\* The policy is read and then the measurements, or a query of them fails.
LEMMA OrderingHistory ==
  ASSUME HistoryInv, NEW q \in Requests,
         ReadPolicy(q) \/ ReadStats(q) \/ SortFails(q)
  PROVE  Remembered' /\ \A r \in Requests : RequestHistory(r)'
<1> DEFINE first == Len(since[q].policies)
           inForce(by) == \E n \in first..Len(policies) : by = InForce(SubSeq(policies, 1, n))
<1>1. UNCHANGED <<tables, caller, routes, since, measured>> /\ pc[q] \in {"policy", "stats"}
  BY DEF ReadPolicy, ReadStats, SortFails, Rest
<1>2. first \in Nat /\ first <= Len(policies) /\ traffic \in measured[q]
  BY <1>1, HistoryTypes DEF RequestHistory
<1>3. inForce(InForce(policies))
  <2>1. SubSeq(policies, 1, Len(policies)) = policies
    BY HistoryTypes
  <2>2. Len(policies) \in first..Len(policies)
    BY <1>2, HistoryTypes
  <2> QED
    BY <2>1, <2>2
<1>4. \/ /\ pc' = [pc EXCEPT ![q] = "stats"] /\ policy' = [policy EXCEPT ![q] = InForce(policies)]
         /\ UNCHANGED <<order, missed>>
      \/ /\ InForce(policies).strategy = "priority"
         /\ Ordered(q, ByPriority) /\ UNCHANGED <<policy, missed>>
      \/ pc[q] = "stats" /\ Ordered(q, policy[q]) /\ UNCHANGED <<policy, missed>>
      \/ Ordered(q, ByPriority) /\ UNCHANGED policy /\ missed' = missed \cup {q}
  BY DEF ReadPolicy, ReadStats, SortFails
<1>5. ASSUME NEW by, Ordered(q, by)
      PROVE  /\ pc' = [pc EXCEPT ![q] = "next"]
             /\ \E s : order' = [order EXCEPT ![q] = s] /\ IsSorted(s, by, traffic)
  BY <1>5, SortingsAreSorted DEF Ordered
<1>6. /\ \A r \in Requests \ {q} :
           /\ pc'[r] = pc[r] /\ policy'[r] = policy[r] /\ order'[r] = order[r]
           /\ r \in missed => r \in missed'
      /\ DOMAIN policy' = Requests /\ DOMAIN order' = Requests
      /\ q \in missed => q \in missed'
  <2>1. ASSUME NEW by, Ordered(q, by)
        PROVE  /\ \A r \in Requests \ {q} : pc'[r] = pc[r] /\ order'[r] = order[r]
               /\ DOMAIN order' = Requests
    BY <1>5, <2>1, HistoryTypes DEF Remembered
  <2> QED
    BY <1>4, <2>1, HistoryTypes DEF Remembered
<1>7. Remembered'
  BY <1>1, <1>6, HistoryTypes DEF Remembered
<1> HIDE DEF first, inForce
<1>8. \/ pc'[q] = "stats" /\ inForce(policy'[q])
      \/ /\ pc'[q] = "next"
         /\ \/ q \in missed' /\ IsSorted(order'[q], ByPriority, traffic)
            \/ \E by : inForce(by) /\ IsSorted(order'[q], by, traffic)
  <2>1. ASSUME pc' = [pc EXCEPT ![q] = "stats"], policy' = [policy EXCEPT ![q] = InForce(policies)]
        PROVE  pc'[q] = "stats" /\ inForce(policy'[q])
    BY <1>3, <2>1, HistoryTypes DEF Remembered
  <2>2. ASSUME NEW by, Ordered(q, by)
        PROVE  pc'[q] = "next" /\ IsSorted(order'[q], by, traffic)
    BY <1>5, <2>2, HistoryTypes DEF Remembered
  <2>3. ASSUME InForce(policies).strategy = "priority", Ordered(q, ByPriority)
        PROVE  pc'[q] = "next" /\ IsSorted(order'[q], InForce(policies), traffic)
    BY <2>2, <2>3, PriorityMeasuresNothing
  <2>4. pc[q] = "stats" => inForce(policy[q])
    BY HistoryTypes DEF RequestHistory, inForce, first
  <2> QED
    BY <1>3, <1>4, <2>1, <2>2, <2>3, <2>4
<1>9. RequestHistory(q)'
  <2>1. /\ UNCHANGED <<keys, policies, traffic>> /\ since'[q] = since[q]
        /\ measured'[q] = measured[q] /\ Len(since'[q].policies) = first
    BY <1>1 DEF tables, first
  <2>2. routes'[q] = <<>>
    BY <1>1, HistoryTypes DEF RequestShape
  <2>3. Outdates(keys', since'[q].keys)
    BY <2>1, HistoryTypes DEF RequestHistory
  <2>4. \A by : inForce(by) =>
          \E n \in Len(since'[q].policies)..Len(policies') : by = InForce(SubSeq(policies', 1, n))
    BY <2>1 DEF inForce
  <2>5. pc'[q] = "stats" =>
          \E n \in Len(since'[q].policies)..Len(policies') : policy'[q] = InForce(SubSeq(policies', 1, n))
    BY <1>8, <2>4
  <2>6. pc'[q] \in {"next", "key"} =>
          \/ q \in missed' /\ IsSorted(order'[q], ByPriority, traffic')
          \/ \E n \in Len(since'[q].policies)..Len(policies'), m \in measured'[q] :
               IsSorted(order'[q], InForce(SubSeq(policies', 1, n)), m)
    <3>1. ASSUME NEW by, inForce(by), IsSorted(order'[q], by, traffic)
          PROVE  \E n \in Len(since'[q].policies)..Len(policies'), m \in measured'[q] :
                   IsSorted(order'[q], InForce(SubSeq(policies', 1, n)), m)
      BY <1>2, <2>1, <2>4, <3>1
    <3> QED
      BY <1>8, <2>1, <3>1
  <2>7. Len(since'[q].policies) \in Nat /\ Len(since'[q].policies) <= Len(policies')
    BY <1>2, <2>1
  <2> QED
    BY <1>2, <2>1, <2>2, <2>3, <2>5, <2>6, <2>7 DEF RequestHistory
<1> QED
  BY <1>1, <1>6, <1>7, <1>9, RequestHistorySteps

LEMMA ReadAdapterHistory ==
  ASSUME HistoryInv, NEW q \in Requests, ReadAdapter(q)
  PROVE  Remembered' /\ \A r \in Requests : RequestHistory(r)'
<1>1. /\ UNCHANGED <<tables, caller, policy, order, routes, since, measured, missed>>
      /\ pc[q] = "next" /\ (pc' = [pc EXCEPT ![q] = "key"] \/ UNCHANGED pc)
  BY DEF ReadAdapter, past
<1>2. Remembered' /\ \A r \in Requests \ {q} : pc'[r] = pc[r]
  BY <1>1, HistoryTypes DEF Remembered
<1>3. RequestHistory(q)'
  <2>1. pc'[q] \in {"next", "key"}
    BY <1>1, HistoryTypes
  <2>2. UNCHANGED <<keys, policies, traffic>>
    BY <1>1 DEF tables
  <2> QED
    BY <1>1, <2>1, <2>2, HistoryTypes DEF RequestHistory
<1> QED
  BY <1>1, <1>2, <1>3, RequestHistorySteps

\* The route a query leads to, when it is made.
LEMMA RouteIsInForce ==
  ASSUME TypeOK, NEW then, Outdates(keys, then), NEW who, NEW failed \in BOOLEAN,
         NEW p \in Providers, NEW adapter, adapter \subseteq Common, NEW k,
         k = ScopedKey(keys, p, who.user, who.workspace) \/ (k = NoKey /\ failed),
         NEW route \in RoutesOf(p, adapter, k)
  PROVE  InForceFor(keys, then, who, failed, route)
<1> DEFINE found == Visible(keys, p, who.user, who.workspace)
           lived == LivedIn(keys, then)
           secret == IF k = NoKey THEN FromEnv ELSE k
<1>0. keys \in Seq(KeyRows)
  BY DEF TypeOK
<1>1. /\ k = NoKey => found = {} \/ failed
      /\ k # NoKey =>
           /\ k \in found
           /\ \A j \in found : j # k => Precedes(keys, k, j, who.user, who.workspace)
  BY <1>0, ScopedKeyIsBest
<1>2. found \subseteq lived
  BY DEF Visible, LivedIn, Outdates
<1>3. NoKey \notin KeyIds /\ EnvKey \notin KeyIds /\ EnvKey # NoKey
  BY KeyIdsAre, KeyConstants, ChoiceConstants DEF EnvKey, NoKey
<1>4. \/ route = [provider |-> p, secret |-> NoKey, key |-> k]
      \/ secret # NoKey /\ route = [provider |-> p, secret |-> secret, key |-> k]
      \/ secret = NoKey /\ \E s \in adapter : route = [provider |-> p, secret |-> s, key |-> NoKey]
  BY DEF RoutesOf
<1>5. /\ route.provider = p /\ route.key = k
      /\ route.secret \in KeyIds /\ route.secret \notin lived =>
           keys[route.secret].owner = Platform /\ ~HasEnvKey /\ k = NoKey
  <2>1. CASE route = [provider |-> p, secret |-> NoKey, key |-> k]
    BY <1>3, <2>1
  <2>2. CASE secret # NoKey /\ route = [provider |-> p, secret |-> secret, key |-> k]
    <3>1. k = NoKey => route.secret \notin KeyIds
      BY <1>3, <2>2 DEF FromEnv
    <3>2. k # NoKey => route.secret \in lived
      BY <1>1, <1>2, <2>2
    <3> QED
      BY <2>2, <3>1, <3>2
  <2>3. ASSUME secret = NoKey, NEW s \in adapter,
               route = [provider |-> p, secret |-> s, key |-> NoKey]
        PROVE  /\ route.provider = p /\ route.key = k
               /\ route.secret \in KeyIds /\ route.secret \notin lived =>
                    keys[route.secret].owner = Platform /\ ~HasEnvKey /\ k = NoKey
    <3>1. k = NoKey /\ ~HasEnvKey
      BY <1>3, <2>3 DEF FromEnv
    <3>2. s \in KeyIds => keys[s].owner = Platform
      BY <1>3 DEF Common
    <3> QED
      BY <2>3, <3>1, <3>2
  <2> QED
    BY <1>4, <2>1, <2>2, <2>3
<1> HIDE DEF secret
<1>6. route.key # NoKey =>
        /\ route.key \in lived
        /\ \A j \in found : j # route.key => Precedes(keys, route.key, j, who.user, who.workspace)
  BY <1>1, <1>2, <1>5
<1>7. route.key = NoKey => found = {} \/ failed
  BY <1>1, <1>5
<1> QED
  BY <1>5, <1>6, <1>7 DEF InForceFor

LEMMA RoutedHistory ==
  ASSUME HistoryInv, NEW q \in Requests, ReadScopedKey(q) \/ ReadScopedKeyFails(q)
  PROVE  Remembered' /\ \A r \in Requests : RequestHistory(r)'
<1> DEFINE p == Head(todo[q])
           who == caller[q]
<1>1. PICK k : /\ Routed(q, k)
               /\ k = ScopedKey(keys, p, who.user, who.workspace) \/ (k = NoKey /\ q \in missed')
               /\ missed \subseteq missed' /\ pc[q] = "key"
  BY DEF ReadScopedKey, ReadScopedKeyFails
<1>2. /\ UNCHANGED <<tables, caller, policy, order, since, measured>>
      /\ pc' = [pc EXCEPT ![q] = "next"]
      /\ \/ UNCHANGED routes
         \/ \E route \in RoutesOf(p, held[q], k) :
              routes' = [routes EXCEPT ![q] = Append(routes[q], route)]
  BY <1>1 DEF Routed
<1>3. /\ \A r \in Requests \ {q} :
           pc'[r] = pc[r] /\ routes'[r] = routes[r] /\ (r \in missed => r \in missed')
      /\ Remembered' /\ pc'[q] = "next"
  BY <1>1, <1>2, HistoryTypes DEF Remembered
<1>4. /\ UNCHANGED <<keys, policies, traffic>> /\ Outdates(keys, since[q].keys)
      /\ Outdates(keys, keys)
  BY <1>2, HistoryTypes DEF tables, RequestHistory, Outdates
<1>5. p \in Providers /\ held[q] \subseteq Common
  <2>1. todo[q] # <<>> /\ held[q] \subseteq Common /\ todo[q] \in Seq(Providers)
    BY <1>1, HistoryTypes DEF RequestShape, TypeOK
  <2> QED
    BY <2>1, HeadTailProperties
<1>6. ASSUME NEW route \in RoutesOf(p, held[q], k)
      PROVE  InForceFor(keys, since[q].keys, who, q \in missed', route)
  <2>1. (q \in missed') \in BOOLEAN
    OBVIOUS
  <2> QED
    BY <1>1, <1>4, <1>5, <2>1, HistoryTypes, RouteIsInForce
<1> HIDE DEF p, who
<1>7. ASSUME NEW i \in DOMAIN routes[q]
      PROVE  InForceFor(keys, since[q].keys, who, q \in missed', routes[q][i])
  <2>1. InForceFor(keys, since[q].keys, who, q \in missed, routes[q][i])
    BY HistoryTypes DEF RequestHistory, who
  <2>2. routes[q][i].secret \in KeyIds => routes[q][i].secret \in DOMAIN keys
    BY HistoryTypes DEF RequestShape
  <2>3. (q \in missed) \in BOOLEAN /\ (q \in missed') \in BOOLEAN /\ (q \in missed => q \in missed')
    BY <1>1
  <2> QED
    BY <1>4, <2>1, <2>2, <2>3, InForceStays
<1>8. \A i \in DOMAIN routes'[q] :
        \/ i \in DOMAIN routes[q] /\ routes'[q][i] = routes[q][i]
        \/ routes'[q][i] \in RoutesOf(p, held[q], k)
  <2>1. ASSUME NEW route \in RoutesOf(p, held[q], k),
               routes' = [routes EXCEPT ![q] = Append(routes[q], route)]
        PROVE  \A i \in DOMAIN routes'[q] :
                 (i \in DOMAIN routes[q] /\ routes'[q][i] = routes[q][i]) \/ routes'[q][i] = route
    <3>1. routes'[q] = Append(routes[q], route)
      BY <2>1, HistoryTypes
    <3> DEFINE R == RouteRecords \cup {route}
    <3>2. routes[q] \in Seq(R) /\ route \in R
      BY HistoryTypes
    <3> HIDE DEF R
    <3> QED
      BY <3>1, <3>2
  <2> QED
    BY <1>2, <2>1
<1>9. RequestHistory(q)'
  <2>1. \A i \in DOMAIN routes'[q] :
          InForceFor(keys, since[q].keys, who, q \in missed', routes'[q][i])
    BY <1>6, <1>7, <1>8
  <2>2. /\ Len(since[q].policies) \in Nat /\ Len(since[q].policies) <= Len(policies)
        /\ traffic \in measured[q]
        /\ \/ q \in missed' /\ IsSorted(order[q], ByPriority, traffic)
           \/ \E n \in Len(since[q].policies)..Len(policies), m \in measured[q] :
                IsSorted(order[q], InForce(SubSeq(policies, 1, n)), m)
    BY <1>1, HistoryTypes DEF RequestHistory
  <2> QED
    BY <1>2, <1>3, <1>4, <2>1, <2>2 DEF RequestHistory, who
<1> QED
  BY <1>2, <1>3, <1>9, RequestHistorySteps

LEMMA LeaveHistory ==
  ASSUME HistoryInv, NEW q \in Requests, Leave(q)
  PROVE  Remembered' /\ \A r \in Requests : RequestHistory(r)'
<1> DEFINE none == [keys |-> <<>>, policies |-> <<>>]
<1>1. /\ pc' = [pc EXCEPT ![q] = "idle"] /\ caller' = [caller EXCEPT ![q] = Anonymous]
      /\ policy' = [policy EXCEPT ![q] = ByPriority] /\ order' = [order EXCEPT ![q] = <<>>]
      /\ routes' = [routes EXCEPT ![q] = <<>>] /\ since' = [since EXCEPT ![q] = none]
      /\ measured' = [measured EXCEPT ![q] = {}] /\ missed' = missed \ {q} /\ UNCHANGED tables
  BY DEF Leave
<1>2. none.keys = <<>> /\ Len(none.policies) = 0
  OBVIOUS
<1> HIDE DEF none
<1>3. /\ \A r \in Requests \ {q} :
           /\ pc'[r] = pc[r] /\ since'[r] = since[r] /\ measured'[r] = measured[r]
           /\ caller'[r] = caller[r] /\ policy'[r] = policy[r]
           /\ order'[r] = order[r] /\ routes'[r] = routes[r]
           /\ r \in missed => r \in missed'
      /\ Remembered'
  BY <1>1, HistoryTypes DEF Remembered
<1>4. pc'[q] = "idle" /\ since'[q] = none /\ routes'[q] = <<>> /\ UNCHANGED policies
  BY <1>1, HistoryTypes DEF Remembered, tables
<1>5. Outdates(keys', since'[q].keys)
  BY <1>2, <1>4 DEF Outdates
<1>6. Len(since'[q].policies) \in Nat /\ Len(since'[q].policies) <= Len(policies')
  BY <1>2, <1>4, HistoryTypes
<1>7. RequestHistory(q)'
  BY <1>4, <1>5, <1>6 DEF RequestHistory
<1> QED
  BY <1>1, <1>3, <1>7, RequestHistorySteps

LEMMA AdministerHistory ==
  ASSUME HistoryInv, NEW a \in Admins, Administer(a)
  PROVE  Remembered' /\ \A q \in Requests : RequestHistory(q)'
<1>1. UNCHANGED <<caller, policy, order, routes, since, measured, missed, policies, traffic>>
  BY DEF Administer, AdminCreatesKey, AdminRevokesKey, ReadKeyToValidate, InstallProvider,
         InstallBinding, InstallFails, Validate, InitAdapters, ReadProviders, ReadProvidersFails,
         Resolve, BuildAdapter, Refreshed, Refreshing, tables, mine, past
<1>2. \/ \E p \in Providers, o \in Owners \cup {Platform} : InsertKey(p, o)
      \/ \E k \in KeyIds : RevokeKey(k)
      \/ UNCHANGED keys
  BY DEF Administer, AdminCreatesKey, AdminRevokesKey, ReadKeyToValidate, InstallProvider,
         InstallBinding, InstallFails, Validate, InitAdapters, ReadProviders, ReadProvidersFails,
         Resolve, BuildAdapter, Refreshed, tables
<1>3. \E l : pc' = [pc EXCEPT ![a] = l]
  BY DEF Administer, AdminCreatesKey, AdminRevokesKey, ReadKeyToValidate, InstallProvider,
         InstallBinding, InstallFails, Validate, InitAdapters, ReadProviders, ReadProvidersFails,
         Resolve, BuildAdapter, Refreshed, Refreshing
<1>4. \A q \in Requests : pc'[q] = pc[q]
  BY <1>3, ChoiceConstants, HistoryTypes
<1> QED
  BY <1>1, <1>2, <1>4, BackgroundHistory

LEMMA OthersHistory ==
  ASSUME HistoryInv,
         \/ \E u \in Users :
              \/ \E p \in Providers : UserCreatesKey(u, p)
              \/ \E k \in KeyIds : UserRevokesKey(u, k)
         \/ \E input \in PolicyInputs : AdminCreatesPolicy(input)
         \/ \E m \in Measurements : TrafficChanges(m)
         \/ \E p \in Providers : Check(p)
         \/ UNCHANGED vars
  PROVE  Remembered' /\ \A q \in Requests : RequestHistory(q)'
<1>1. UNCHANGED <<pc, caller, policy, order, routes, since, missed>>
  BY DEF UserCreatesKey, UserRevokesKey, AdminCreatesPolicy, TrafficChanges, Check, vars, mine, past
<1>2. \/ \E p \in Providers, o \in Owners \cup {Platform} : InsertKey(p, o)
      \/ \E k \in KeyIds : RevokeKey(k)
      \/ UNCHANGED keys
  BY ChoiceConstants DEF UserCreatesKey, UserRevokesKey, AdminCreatesPolicy, TrafficChanges, Check,
                         vars, tables
<1>3. (\E input \in PolicyInputs : CreatePolicy(input)) \/ UNCHANGED policies
  BY DEF UserCreatesKey, UserRevokesKey, AdminCreatesPolicy, TrafficChanges, Check, vars, tables
<1>4. UNCHANGED <<traffic, measured>> \/ \E m \in Measurements : TrafficChanges(m)
  BY DEF UserCreatesKey, UserRevokesKey, AdminCreatesPolicy, Check, vars, tables, past
<1> QED
  BY <1>1, <1>2, <1>3, <1>4, BackgroundHistory

LEMMA HistoryInit ==
  ASSUME Init
  PROVE  HistoryInv
<1>1. Remembered
  BY DEF Init, Remembered
<1>2. ASSUME NEW q \in Requests PROVE RequestHistory(q)
  <2>1. pc[q] = "idle" /\ since[q] = Tables /\ routes[q] = <<>> /\ policies = <<>>
    BY DEF Init
  <2>2. since[q].keys = keys /\ since[q].policies = policies
    BY <2>1 DEF Tables
  <2>3. Len(policies) = 0
    BY <2>1
  <2>4. Outdates(keys, since[q].keys)
    BY <2>2 DEF Outdates
  <2> QED
    BY <2>1, <2>2, <2>3, <2>4 DEF RequestHistory
<1> QED
  BY <1>1, <1>2, ChoiceInit DEF HistoryInv

LEMMA HistoryNext ==
  ASSUME HistoryInv, [Next]_vars
  PROVE  HistoryInv'
<1>1. ChoiceInv'
  BY ChoiceNext DEF HistoryInv
<1>2. ASSUME NEW q \in Requests, Route(q)
      PROVE  Remembered' /\ \A r \in Requests : RequestHistory(r)'
  BY <1>2, ArriveHistory, OrderingHistory, ReadAdapterHistory, RoutedHistory, LeaveHistory DEF Route
<1>3. Remembered' /\ \A q \in Requests : RequestHistory(q)'
  BY <1>2, AdministerHistory, OthersHistory DEF Next
<1> QED
  BY <1>1, <1>3 DEF HistoryInv

-----------------------------------------------------------------------------
(* The theorems. *)

\* The inductive invariant: whatever outlives a request or its key, the shared
\* adapters and what goroutines hold of them, carries only common secrets.
THEOREM ChoiceInvariant == Spec => []ChoiceInv
BY ChoiceInit, ChoiceNext, PTL DEF Spec

\* Every variable keeps its type: what an adapter, a goroutine or a route
\* holds is a secret of the process or of a row there is.
THEOREM TypeCorrect == Spec => []TypeOK
<1>1. ChoiceInv => TypeOK
  BY DEF ChoiceInv
<1> QED
  BY <1>1, ChoiceInvariant, PTL

\* No request is ever routed with the key of another user or another
\* workspace (adapterForRequest, resolveProviderKey), for any number of
\* requests, administrators, providers and keys.
THEOREM PrivateStays == Spec => []PrivateKeysStayPrivate
<1>1. ChoiceInv => PrivateKeysStayPrivate
  BY DEF ChoiceInv, RequestShape, PrivateKeysStayPrivate, RoutesOfRequest
<1> QED
  BY <1>1, ChoiceInvariant, PTL

\* What a request has seen stays true of it: rows of keys are added and
\* revoked and never restored, policies only ever added, measurements of no
\* account by priority.
THEOREM HistoryInvariant == Spec => []HistoryInv
BY HistoryInit, HistoryNext, PTL DEF Spec

\* Every provider is tried with a key that was active while the request ran,
\* and none of the caller's narrower or newer keys is passed over that was
\* active all the time (GetScopedProviderKeySecretWithMetadata,
\* adapterForRequest), for any number of keys, owners, requests and
\* administrators; what is left to a revoked key is the adapter the platform's
\* own was built into.
THEOREM CredentialInForce == Spec => []CredentialIsInForce
<1>1. ASSUME HistoryInv PROVE CredentialIsInForce
  <2>1. ASSUME NEW q \in Requests, NEW route \in RoutesOfRequest(q)
        PROVE  InForceFor(keys, since[q].keys, caller[q], q \in missed, route)
    <3>1. PICK i \in DOMAIN routes[q] : route = routes[q][i]
      BY DEF RoutesOfRequest
    <3> QED
      BY <1>1, <3>1, HistoryTypes DEF RequestHistory
  <2>2. ASSUME NEW q \in Requests
        PROVE  /\ Lasting(q) = LastingIn(keys, since[q].keys)
               /\ Lived(q) = LivedIn(keys, since[q].keys)
    BY DEF Lasting, Lived, LastingIn, LivedIn
  <2> QED
    BY <2>1, <2>2 DEF CredentialIsInForce, InForceFor
<1> QED
  BY <1>1, HistoryInvariant, PTL

\* A request tries its providers in the order of a policy that was in force
\* while it ran (sortCandidates, GetActiveRoutingPolicy), for any policies,
\* priorities, costs and measurements, or by priority when a query failed.
THEOREM OrderOfAPolicyInForce == Spec => []OrderIsOfAPolicyInForce
<1>1. HistoryInv => OrderIsOfAPolicyInForce
  BY DEF HistoryInv, RequestHistory, OrderIsOfAPolicyInForce
<1> QED
  BY <1>1, HistoryInvariant, PTL
=============================================================================
