----------------------------- MODULE RouteChoice -----------------------------
(***************************************************************************)
(* How a request chooses, among the providers of its model, the order in   *)
(* which to try them and the credential to try each with.                  *)
(*                                                                         *)
(* A request reads the policy, the measurements and then, provider by      *)
(* provider, the shared adapter and the caller's key, each by a query of   *)
(* its own.  Administrators meanwhile add policies, create and revoke      *)
(* keys, install providers from templates and validate keys; what they do  *)
(* reaches the shared adapters when initAdapters runs, which adds adapters *)
(* and never removes one.  How the registry follows the tables is the      *)
(* subject of ModelRouter: here a request reads it when it arrives.        *)
(***************************************************************************)
EXTENDS ProviderKeys, RoutingPolicies

CONSTANTS
  Requests,      \* goroutines that route requests for the model
  Admins,        \* goroutines of administrators
  Kind,          \* providers.adapter_type: mock, keyed (dashscope, anthropic)
                 \* or open (openai_compatible, self_hosted)
  Template,      \* the provider a template installs
  Users, Workspaces,
  PolicyInputs,  \* policies an administrator may ask for
  Measurements,  \* what request_logs may show
  HasEnvKey,     \* is DASHSCOPE_API_KEY set?
  Accepted,      \* the secrets that upstream accepts
  DBFaults,      \* may a query fail?
  MaxWrites      \* bound: writes to the tables

EnvKey == MaxKeys + 1
FromEnv == IF HasEnvKey THEN EnvKey ELSE NoKey   \* resolveProviderKeyFromEnv
Secrets == {NoKey, EnvKey} \cup KeyIds

ASSUME ChoiceConstants ==
  /\ IsFiniteSet(Providers)
  /\ Candidates = Providers /\ Template \in Providers
  /\ MaxKeys > 0 /\ PolicyInputs \subseteq PolicyRows
  /\ Requests \cap Admins = {}
  /\ Kind \in [Providers -> {"mock", "keyed", "open"}] /\ Kind[Template] # "mock"
  /\ Owners = Users \cup Workspaces
  /\ HasEnvKey \in BOOLEAN /\ DBFaults \in BOOLEAN
  /\ Accepted \subseteq Secrets /\ MaxWrites \in Nat

VARIABLES
  rows,      \* the providers with a row, all of them enabled
  bound,     \* the providers bound to the model
  health,    \* the providers not found unhealthy
  known,     \* r.providers
  adapters,  \* r.adapters: for each provider, no adapter or its secret
  pc,        \* where each goroutine is
  todo,      \* the providers a goroutine has yet to see to, in order
  held,      \* the adapter, or the secret, a goroutine has read
  caller,    \* the user and the workspace of a request
  policy,    \* the policy a request has read
  order,     \* the order a request has put its providers in
  routes,    \* the routes of a request: provider, secret, key reported
  writes,    \* writes to the tables so far
  since,     \* history: the tables when a request came in
  measured,  \* history: the measurements while a request ran
  missed     \* history: requests of which a query failed

tables == <<keys, policies, traffic, rows, bound, health>>
shared == <<known, adapters>>
mine == <<todo, held, caller, policy, order, routes>>
past == <<since, measured, missed>>
vars == <<tables, shared, pc, mine, writes, past>>

Tables == [keys |-> keys, policies |-> policies]

Labels == {"idle", "policy", "stats", "next", "key",
           "validate", "install", "providers", "resolve", "adapter"}
RouteRecords == [provider : Providers, secret : Secrets, key : {NoKey} \cup KeyIds]

\* A chat request has a user, and a workspace if its API key has one; other
\* requests are routed for nobody.
Anonymous == [user |-> Nobody, workspace |-> Nobody]
Callers == {Anonymous} \cup [user : Users, workspace : Workspaces \cup {Nobody}]

\* The process has started: NewModelRouter has built the adapters.  Bound:
\* at most one key is there, of a provider that no template installs.
Init ==
  /\ rows \in SUBSET Providers /\ Providers \ {Template} \subseteq rows
  /\ bound = rows /\ health = Providers /\ known = rows
  /\ keys \in {<<>>} \cup {<<[provider |-> p, owner |-> Platform, active |-> TRUE]>> : p \in rows \ {Template}}
  /\ adapters = [p \in Providers |->
       LET secret == IF ScopedKey(keys, p, Nobody, Nobody) = NoKey THEN FromEnv
                     ELSE ScopedKey(keys, p, Nobody, Nobody)
       IN  IF p \notin rows \/ (Kind[p] = "keyed" /\ secret = NoKey) THEN {} ELSE {secret}]
  /\ policies = <<>> /\ traffic = [p \in Providers |-> NoTraffic]
  /\ pc = [h \in Requests \cup Admins |-> "idle"]
  /\ todo = [h \in Requests \cup Admins |-> <<>>]
  /\ held = [h \in Requests \cup Admins |-> {}]
  /\ caller = [q \in Requests |-> Anonymous]
  /\ policy = [q \in Requests |-> ByPriority]
  /\ order = [q \in Requests |-> <<>>] /\ routes = [q \in Requests |-> <<>>]
  /\ writes = 0
  /\ since = [q \in Requests |-> Tables] /\ measured = [q \in Requests |-> {}]
  /\ missed = {}

TypeOK ==
  /\ keys \in Seq(KeyRows) /\ Len(keys) <= MaxKeys
  /\ policies \in Seq(PolicyRows)
  /\ rows \subseteq Providers /\ bound \subseteq Providers /\ health \subseteq Providers
  /\ known \subseteq Providers
  /\ adapters \in [Providers -> SUBSET Secrets]
  /\ pc \in [Requests \cup Admins -> Labels]
  /\ todo \in [Requests \cup Admins -> Seq(Providers)]
  /\ held \in [Requests \cup Admins -> SUBSET Secrets]
  /\ caller \in [Requests -> Callers]
  /\ routes \in [Requests -> Seq(RouteRecords)]
  /\ missed \subseteq Requests

-----------------------------------------------------------------------------
(* Writes to the tables. *)

Running == {q \in Requests : pc[q] # "idle"}

Write ==
  /\ writes < MaxWrites
  /\ writes' = writes + 1

\* userCreateProviderKey and userRevokeProviderKey: the adapters stay.
UserCreatesKey(u, p) ==
  /\ p \in rows
  /\ InsertKey(p, u)
  /\ Write
  /\ UNCHANGED <<policies, traffic, rows, bound, health, shared, pc, mine, past>>

UserRevokesKey(u, k) ==
  /\ RevokeKey(k)
  /\ keys[k].owner = u
  /\ Write
  /\ UNCHANGED <<policies, traffic, rows, bound, health, shared, pc, mine, past>>

\* An administrator's handler has written, and refreshes the router.
Refreshing(a) ==
  /\ pc' = [pc EXCEPT ![a] = "providers"]
  /\ UNCHANGED <<shared, mine, past>>

\* adminCreateProviderKey and adminRevokeProviderKey, for any owner.
AdminCreatesKey(a, p, o) ==
  /\ pc[a] = "idle" /\ p \in rows
  /\ InsertKey(p, o)
  /\ Write
  /\ Refreshing(a)
  /\ UNCHANGED <<policies, traffic, rows, bound, health>>

AdminRevokesKey(a, k) ==
  /\ pc[a] = "idle"
  /\ RevokeKey(k)
  /\ Write
  /\ Refreshing(a)
  /\ UNCHANGED <<policies, traffic, rows, bound, health>>

\* adminCreateRoutingPolicy; the refresh it asks for reads no policy.
AdminCreatesPolicy(input) ==
  /\ CreatePolicy(input)
  /\ Write
  /\ UNCHANGED <<keys, traffic, rows, bound, health, shared, pc, mine, past>>

\* Requests are logged, and logs grow old.
TrafficChanges(m) ==
  /\ m # traffic
  /\ traffic' = m
  /\ Write
  /\ measured' = [q \in Requests |-> IF q \in Running THEN measured[q] \cup {m} ELSE measured[q]]
  /\ UNCHANGED <<keys, policies, rows, bound, health, shared, pc, mine, since, missed>>

\* adminInstallProviderTemplate: the row of the provider, ...
InstallProvider(a) ==
  /\ pc[a] = "idle"
  /\ rows' = rows \cup {Template}
  /\ pc' = [pc EXCEPT ![a] = "install"]
  /\ Write
  /\ UNCHANGED <<keys, policies, traffic, bound, health, shared, mine, past>>

\* ... then its models, each with its binding, and a refresh.
InstallBinding(a) ==
  /\ pc[a] = "install"
  /\ bound' = bound \cup {Template}
  /\ Refreshing(a)
  /\ UNCHANGED <<keys, policies, traffic, rows, health, writes>>

\* A model or a binding fails: the handler gives up, without a refresh; the
\* rows written so far stay, the model's own perhaps among them.
InstallFails(a) ==
  /\ DBFaults /\ pc[a] = "install"
  /\ bound' \in {bound, bound \cup {Template}}
  /\ pc' = [pc EXCEPT ![a] = "idle"]
  /\ UNCHANGED <<keys, policies, traffic, rows, health, shared, mine, writes, past>>

-----------------------------------------------------------------------------
(* Health, of which a request reads what the last check has found. *)

Answers(secret, p) == Kind[p] = "mock" \/ secret \in Accepted
Found(p, good) == IF good THEN health \cup {p} ELSE health \ {p}

\* Mutated form: a provider found unhealthy is not checked again.
CheckHealthy(p) ==
  /\ p \in health
  /\ \E secret \in adapters[p] : health' = Found(p, Answers(secret, p))
  /\ UNCHANGED <<keys, policies, traffic, rows, bound, shared, pc, mine, writes, past>>

\* runHealthChecks, by the shared adapter.
Check(p) ==
  /\ \E secret \in adapters[p] : health' = Found(p, Answers(secret, p))
  /\ UNCHANGED <<keys, policies, traffic, rows, bound, shared, pc, mine, writes, past>>

\* adminValidateProviderKey reads a key that is active, and marks its provider
\* for everyone by what upstream says of that key.
ReadKeyToValidate(a, k) ==
  /\ pc[a] = "idle" /\ k \in DOMAIN keys
  /\ keys[k].active
  /\ pc' = [pc EXCEPT ![a] = "validate"]
  /\ held' = [held EXCEPT ![a] = {k}]
  /\ Write
  /\ UNCHANGED <<tables, shared, todo, caller, policy, order, routes, past>>

Validate(a) ==
  /\ pc[a] = "validate"
  /\ \E k \in held[a] : health' = Found(keys[k].provider, Answers(k, keys[k].provider))
  /\ pc' = [pc EXCEPT ![a] = "idle"]
  /\ held' = [held EXCEPT ![a] = {}]
  /\ UNCHANGED <<keys, policies, traffic, rows, bound, shared, todo, caller, policy,
                 order, routes, writes, past>>

-----------------------------------------------------------------------------
(* initAdapters, at the end of an administrator's handler. *)

\* GetProviders, ...
ReadProviders(a) ==
  /\ pc[a] = "providers"
  /\ \E s \in Sortings(rows, ByPriority, traffic) : todo' = [todo EXCEPT ![a] = s]
  /\ pc' = [pc EXCEPT ![a] = "resolve"]
  /\ UNCHANGED <<tables, shared, held, caller, policy, order, routes, writes, past>>

\* ... which may fail, and nothing is refreshed.
ReadProvidersFails(a) ==
  /\ DBFaults /\ pc[a] = "providers"
  /\ pc' = [pc EXCEPT ![a] = "idle"]
  /\ UNCHANGED <<tables, shared, mine, writes, past>>

\* Mutated form: the newest key of the provider, whoever owns it.
PlatformSecretOfAnyone(p) ==
  LET found == {k \in DOMAIN keys : keys[k].active /\ keys[k].provider = p}
  IN  IF found = {} THEN FromEnv ELSE CHOOSE k \in found : \A j \in found : j <= k

\* resolveProviderKey: a key of the platform, or the environment's.
PlatformSecret(p) ==
  LET k == ScopedKey(keys, p, Nobody, Nobody)
  IN  IF k = NoKey THEN FromEnv ELSE k

Resolve(a) ==
  /\ pc[a] = "resolve" /\ todo[a] # <<>>
  /\ LET p == Head(todo[a])
     IN  /\ known' = known \cup {p}
         /\ \/ held' = [held EXCEPT ![a] = {IF Kind[p] = "mock" THEN NoKey ELSE PlatformSecret(p)}]
            \/ DBFaults /\ Kind[p] # "mock" /\ held' = [held EXCEPT ![a] = {FromEnv}]
  /\ pc' = [pc EXCEPT ![a] = "adapter"]
  /\ UNCHANGED <<tables, adapters, todo, caller, policy, order, routes, writes, past>>

\* Without a secret, a provider that needs one keeps the adapter it has.
BuildAdapter(a) ==
  /\ pc[a] = "adapter"
  /\ LET p == Head(todo[a])
     IN  adapters' = IF Kind[p] = "keyed" /\ held[a] = {NoKey} THEN adapters
                     ELSE [adapters EXCEPT ![p] = held[a]]
  /\ todo' = [todo EXCEPT ![a] = Tail(@)]
  /\ held' = [held EXCEPT ![a] = {}]
  /\ pc' = [pc EXCEPT ![a] = "resolve"]
  /\ UNCHANGED <<tables, known, caller, policy, order, routes, writes, past>>

\* refreshRegistry follows, and the answer.
Refreshed(a) ==
  /\ pc[a] = "resolve" /\ todo[a] = <<>>
  /\ pc' = [pc EXCEPT ![a] = "idle"]
  /\ UNCHANGED <<tables, shared, mine, writes, past>>

-----------------------------------------------------------------------------
(* RouteAllForRequest. *)

\* The entry of the model is read; unhealthy providers will be skipped.
Arrive(q, who) ==
  /\ pc[q] = "idle"
  /\ caller' = [caller EXCEPT ![q] = who]
  /\ \E s \in Sortings(bound \cap health, ByPriority, traffic) : todo' = [todo EXCEPT ![q] = s]
  /\ since' = [since EXCEPT ![q] = Tables]
  /\ measured' = [measured EXCEPT ![q] = {traffic}]
  /\ pc' = [pc EXCEPT ![q] = "policy"]
  /\ UNCHANGED <<tables, shared, held, policy, order, routes, writes, missed>>

Rest == <<tables, shared, held, caller, routes, writes, since, measured>>

Ordered(q, by) ==
  /\ \E s \in Sortings({todo[q][i] : i \in DOMAIN todo[q]}, by, traffic) :
       todo' = [todo EXCEPT ![q] = s] /\ order' = [order EXCEPT ![q] = s]
  /\ pc' = [pc EXCEPT ![q] = "next"]

\* Mutated form: the oldest policy is used.
ReadPolicyOldest(q) ==
  LET old == InForce(SubSeq(policies, 1, IF policies = <<>> THEN 0 ELSE 1))
  IN  /\ pc[q] = "policy"
      /\ IF old.strategy = "priority"
           THEN Ordered(q, ByPriority) /\ UNCHANGED policy
           ELSE /\ pc' = [pc EXCEPT ![q] = "stats"]
                /\ policy' = [policy EXCEPT ![q] = old]
                /\ UNCHANGED <<todo, order>>
      /\ UNCHANGED <<Rest, missed>>

\* sortCandidates: the policy, ...
ReadPolicy(q) ==
  /\ pc[q] = "policy"
  /\ IF InForce(policies).strategy = "priority"
       THEN Ordered(q, ByPriority) /\ UNCHANGED policy
       ELSE /\ pc' = [pc EXCEPT ![q] = "stats"]
            /\ policy' = [policy EXCEPT ![q] = InForce(policies)]
            /\ UNCHANGED <<todo, order>>
  /\ UNCHANGED <<Rest, missed>>

\* ... then the measurements.
ReadStats(q) ==
  /\ pc[q] = "stats"
  /\ Ordered(q, policy[q])
  /\ UNCHANGED <<Rest, policy, missed>>

\* Either query fails: by priority.
SortFails(q) ==
  /\ DBFaults /\ pc[q] \in {"policy", "stats"}
  /\ Ordered(q, ByPriority)
  /\ missed' = missed \cup {q}
  /\ UNCHANGED <<Rest, policy>>

\* adapterForRequest: the shared adapter, under the lock; a provider that
\* initAdapters has not met has none, and is skipped.
ReadAdapter(q) ==
  /\ pc[q] = "next" /\ todo[q] # <<>>
  /\ LET p == Head(todo[q])
     IN  IF p \in known
           THEN /\ held' = [held EXCEPT ![q] = adapters[p]]
                /\ pc' = [pc EXCEPT ![q] = "key"]
                /\ UNCHANGED todo
           ELSE todo' = [todo EXCEPT ![q] = Tail(@)] /\ UNCHANGED <<held, pc>>
  /\ UNCHANGED <<tables, shared, caller, policy, order, routes, writes, past>>

\* Mutated form: the adapter at hand before the key of the caller.
RoutesOfAdapterFirst(p, adapter, k) ==
  LET secret == IF k = NoKey THEN FromEnv ELSE k
  IN  IF adapter # {} THEN {[provider |-> p, secret |-> s, key |-> k] : s \in adapter}
      ELSE IF secret # NoKey THEN {[provider |-> p, secret |-> secret, key |-> k]}
      ELSE {}

\* What adapterForRequest makes of an adapter and the key a query returned: a
\* mock uses no secret; a key, or the environment's, makes an adapter of its
\* own; else the one at hand will do, whatever secret it was built with.
RoutesOf(p, adapter, k) ==
  LET secret == IF k = NoKey THEN FromEnv ELSE k
  IN  IF Kind[p] = "mock" THEN {[provider |-> p, secret |-> NoKey, key |-> k]}
      ELSE IF secret # NoKey THEN {[provider |-> p, secret |-> secret, key |-> k]}
      ELSE {[provider |-> p, secret |-> s, key |-> NoKey] : s \in adapter}

Routed(q, k) ==
  LET p == Head(todo[q])
  IN  /\ IF RoutesOf(p, held[q], k) = {} THEN UNCHANGED routes
         ELSE \E route \in RoutesOf(p, held[q], k) :
                routes' = [routes EXCEPT ![q] = Append(@, route)]
      /\ todo' = [todo EXCEPT ![q] = Tail(@)]
      /\ held' = [held EXCEPT ![q] = {}]
      /\ pc' = [pc EXCEPT ![q] = "next"]
      /\ UNCHANGED <<tables, shared, caller, policy, order, writes, since, measured>>

ReadScopedKey(q) ==
  /\ pc[q] = "key"
  /\ Routed(q, ScopedKey(keys, Head(todo[q]), caller[q].user, caller[q].workspace))
  /\ UNCHANGED missed

ReadScopedKeyFails(q) ==
  /\ DBFaults /\ pc[q] = "key"
  /\ missed' = missed \cup {q}
  /\ Routed(q, NoKey)

\* The request has its routes, or none.
Done(q) == pc[q] = "next" /\ todo[q] = <<>>

Leave(q) ==
  /\ Done(q)
  /\ pc' = [pc EXCEPT ![q] = "idle"]
  /\ caller' = [caller EXCEPT ![q] = Anonymous]
  /\ policy' = [policy EXCEPT ![q] = ByPriority]
  /\ order' = [order EXCEPT ![q] = <<>>]
  /\ routes' = [routes EXCEPT ![q] = <<>>]
  /\ since' = [since EXCEPT ![q] = [keys |-> <<>>, policies |-> <<>>]]
  /\ measured' = [measured EXCEPT ![q] = {}]
  /\ missed' = missed \ {q}
  /\ UNCHANGED <<tables, shared, todo, held, writes>>

-----------------------------------------------------------------------------
Route(q) ==
  \/ \E who \in Callers : Arrive(q, who)
  \/ ReadPolicy(q) \/ ReadStats(q) \/ SortFails(q)
  \/ ReadAdapter(q) \/ ReadScopedKey(q) \/ ReadScopedKeyFails(q)
  \/ Leave(q)

InitAdapters(a) ==
  ReadProviders(a) \/ ReadProvidersFails(a) \/ Resolve(a) \/ BuildAdapter(a) \/ Refreshed(a)

Administer(a) ==
  \/ \E p \in Providers, o \in Owners \cup {Platform} : AdminCreatesKey(a, p, o)
  \/ \E k \in KeyIds : AdminRevokesKey(a, k) \/ ReadKeyToValidate(a, k)
  \/ InstallProvider(a) \/ InstallBinding(a) \/ InstallFails(a)
  \/ Validate(a)
  \/ InitAdapters(a)

Next ==
  \/ \E q \in Requests : Route(q)
  \/ \E a \in Admins : Administer(a)
  \/ \E u \in Users :
       \/ \E p \in Providers : UserCreatesKey(u, p)
       \/ \E k \in KeyIds : UserRevokesKey(u, k)
  \/ \E input \in PolicyInputs : AdminCreatesPolicy(input)
  \/ \E m \in Measurements : TrafficChanges(m)
  \/ \E p \in Providers : Check(p)

Spec == Init /\ [][Next]_vars

\* The loop of health checks goes on.
FairSpec == Spec /\ \A p \in Providers : WF_vars(Check(p))

-----------------------------------------------------------------------------
(* Properties. *)

RoutesOfRequest(q) == {routes[q][i] : i \in DOMAIN routes[q]}

\* Keys of a table that were active when the request came in, and still are.
Lasting(q) == {k \in DOMAIN since[q].keys : since[q].keys[k].active /\ keys[k].active}

\* Keys that were active at some time while the request ran.
Lived(q) == {k \in DOMAIN keys : k \in DOMAIN since[q].keys => since[q].keys[k].active}

MayUse(q, k) == keys[k].owner \in {caller[q].user, caller[q].workspace, Platform}

\* The key of a user or of a workspace is never used for anyone else, although
\* the adapters are shared, outlive every key and are rebuilt by goroutines
\* that overtake each other.
PrivateKeysStayPrivate ==
  \A q \in Requests : \A route \in RoutesOfRequest(q) :
    route.secret \in KeyIds => MayUse(q, route.secret)

\* A request tries each provider with a key that was active while it ran, and
\* no narrower or newer key of the caller's was passed over that was active
\* all that time.  Only the platform's revoked key may be used still, by the
\* adapter it was built into, and only when nothing else is left: no key of the
\* environment, and none of the caller's unless the query failed.
CredentialIsInForce ==
  \A q \in Requests : \A route \in RoutesOfRequest(q) :
    LET p == route.provider
        best(k) == \A j \in Visible(keys, p, caller[q].user, caller[q].workspace) \cap Lasting(q) :
                     j # k => Precedes(keys, k, j, caller[q].user, caller[q].workspace)
        nothingLasts == Visible(keys, p, caller[q].user, caller[q].workspace) \cap Lasting(q) = {}
    IN  /\ route.key # NoKey => route.key \in Lived(q) /\ best(route.key)
        /\ route.key = NoKey => nothingLasts \/ q \in missed
        /\ route.secret \in KeyIds /\ route.secret \notin Lived(q) =>
             /\ keys[route.secret].owner = Platform
             /\ ~HasEnvKey /\ route.key = NoKey

\* A request tries its providers in the order of a policy that was in force
\* while it ran, so that a policy acknowledged before it came in is not passed
\* over, by measurements made while it ran; or by priority if a query failed.
OrderIsOfAPolicyInForce ==
  \A q \in Requests : pc[q] \in {"next", "key"} =>
    \/ q \in missed /\ IsSorted(order[q], ByPriority, traffic)
    \/ \E n \in Len(since[q].policies)..Len(policies), m \in measured[q] :
         IsSorted(order[q], InForce(SubSeq(policies, 1, n)), m)

\* A provider that someone's key has made unhealthy comes back, as long as the
\* adapter everyone shares is accepted upstream.
ProviderComesBack ==
  \A p \in Providers :
    p \notin health ~> p \in health \/ ~\E secret \in adapters[p] : Answers(secret, p)

=============================================================================
