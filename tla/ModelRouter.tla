---------------------------- MODULE ModelRouter ----------------------------
(***************************************************************************)
(* The model router's registry, for one model.                             *)
(*                                                                         *)
(* The tables models, providers and model_providers are the truth.  Each   *)
(* request that is routed first copies what they say into the shared       *)
(* registry, by two queries and an assignment under the router's lock;     *)
(* administrators' handlers do so after a write, a listener when it is     *)
(* notified.  Copies overlap, and the last assignment wins, however old    *)
(* its queries are.  Health checks mark the registry at once and the       *)
(* table later, from goroutines of their own.                              *)
(***************************************************************************)
EXTENDS FiniteSets

CONSTANTS
  Providers,   \* providers the model may be bound to
  Requests,    \* goroutines that route requests for the model
  Admins,      \* goroutines of administrators' writes
  Loop,        \* the goroutine of refreshLoop
  Unlisted,    \* a registry without the model
  Failed,      \* a copy whose second query failed
  DBFaults     \* may a query or a write fail?

Procs == Requests \cup Admins \cup {Loop}
Healths == {"unknown", "healthy", "unhealthy"}
Entries == UNION {[S -> Healths] : S \in SUBSET Providers}

ASSUME RouterConstants ==
  /\ Requests \cap Admins = {} /\ Loop \notin Requests \cup Admins
  /\ Unlisted \notin Entries /\ Failed \notin Entries /\ Unlisted # Failed
  /\ DBFaults \in BOOLEAN

VARIABLES
  active,     \* models.status is active
  enabled,    \* the providers with providers.is_enabled
  binding,    \* the rows of model_providers: none, off or on (is_enabled)
  health,     \* model_providers.health_status
  adapters,   \* the providers with an adapter
  registry,   \* r.models: the providers of the entry, with their health
  notified,   \* a signal waits in refreshCh
  writes,     \* health records on their way to the table
  pc,         \* where each goroutine is
  copy,       \* what a goroutine has read and not yet assigned
  routes,     \* the providers a request was routed to
  own,        \* history: bindings in force at some time since a copy began
  seen,       \* history: the same, or since one that was under way then began
  kept,       \* history: bindings in force all the time since a copy began
  lasting,    \* history: the same, and since those under way then began
  fault       \* history: none, dropped (a copy lost its bindings) or blind
              \* (the request's own copy failed)

tableVars == <<active, enabled, binding, health>>
historyVars == <<own, seen, kept, lasting, fault>>
vars == <<tableVars, adapters, registry, notified, writes, pc, copy, routes,
          historyVars>>

Copying == {"models", "bindings", "assign"}
UnderWay == {h \in Procs : pc[h] \in Copying}
Routing == {q \in Requests : pc[q] \in Copying \cup {"select"}}

\* What GetModelProviders returns.
InForce == {p \in enabled : binding[p] = "on"}

\* What a request should be routed to.
Good == IF active THEN {p \in InForce \cap adapters : health[p] # "unhealthy"} ELSE {}

\* The tables when the process starts: NewModelRouter has read them.
Init ==
  /\ active = TRUE
  /\ enabled \in SUBSET Providers
  /\ binding \in [Providers -> {"none", "off", "on"}]
  /\ health = [p \in Providers |-> "unknown"]
  /\ adapters = enabled
  /\ registry = [p \in InForce |-> "unknown"]
  /\ notified = FALSE
  /\ writes = {}
  /\ pc = [h \in Procs |-> "idle"]
  /\ copy = [h \in Procs |-> Unlisted]
  /\ routes = [h \in Requests |-> {}]
  /\ own = [h \in Procs |-> {}] /\ seen = [q \in Requests |-> {}]
  /\ kept = [h \in Procs |-> {}] /\ lasting = [q \in Requests |-> {}]
  /\ fault = [q \in Requests |-> "none"]

-----------------------------------------------------------------------------
(* History: what the copies under way may have met. *)

\* A copy begins.
Begin(h) ==
  /\ own' = [own EXCEPT ![h] = InForce]
  /\ kept' = [kept EXCEPT ![h] = Good]
  /\ IF h \in Requests
       THEN /\ seen' = [seen EXCEPT ![h] = InForce \cup UNION {own[g] : g \in UnderWay}]
            /\ lasting' = [lasting EXCEPT ![h] = {p \in Good : \A g \in UnderWay : p \in kept[g]}]
       ELSE UNCHANGED <<seen, lasting>>
  /\ UNCHANGED fault

\* What a copy met is forgotten once it is assigned, or has failed.
Forget(h) ==
  /\ own' = [own EXCEPT ![h] = {}]
  /\ kept' = [kept EXCEPT ![h] = {}]

\* The tables have changed.
Witness ==
  /\ own' = [h \in Procs |-> IF h \in UnderWay THEN own[h] \cup InForce' ELSE own[h]]
  /\ seen' = [q \in Requests |-> IF q \in Routing THEN seen[q] \cup InForce' ELSE seen[q]]
  /\ kept' = [h \in Procs |-> IF h \in UnderWay THEN kept[h] \cap Good' ELSE kept[h]]
  /\ lasting' = [q \in Requests |-> IF q \in Routing THEN lasting[q] \cap Good' ELSE lasting[q]]
  /\ UNCHANGED fault

-----------------------------------------------------------------------------
(* Administrators: what their handlers write to the tables. *)

UpdateModel ==
  /\ active' = ~active
  /\ UNCHANGED <<enabled, binding, health>>

\* The model goes, and its bindings with it.
DeleteModel ==
  /\ active' = FALSE
  /\ binding' = [p \in Providers |-> "none"]
  /\ health' = [p \in Providers |-> "unknown"]
  /\ UNCHANGED enabled

\* A provider is created, enabled or disabled.
WriteProvider(p) ==
  /\ enabled' = IF p \in enabled THEN enabled \ {p} ELSE enabled \cup {p}
  /\ UNCHANGED <<active, binding, health>>

\* A binding is created, enabled or disabled; its health stays.
WriteBinding(p, b) ==
  /\ binding' = [binding EXCEPT ![p] = b]
  /\ UNCHANGED <<active, enabled, health>>

Unbind(p) ==
  /\ binding' = [binding EXCEPT ![p] = "none"]
  /\ health' = [health EXCEPT ![p] = "unknown"]
  /\ UNCHANGED <<active, enabled>>

\* A handler's write; the refresh of the router that ends the handler follows.
AdminWrite(a) ==
  /\ pc[a] = "idle"
  /\ \/ UpdateModel
     \/ DeleteModel
     \/ \E p \in Providers :
          \/ WriteProvider(p) \/ Unbind(p)
          \/ \E b \in {"on", "off"} : WriteBinding(p, b)
  /\ pc' = [pc EXCEPT ![a] = "adapters"]
  /\ UNCHANGED <<adapters, registry, notified, writes, copy, routes>>
  /\ Witness

\* initAdapters: adapters are added, never removed.
InitAdapters(a) ==
  /\ pc[a] = "adapters"
  /\ adapters' = adapters \cup enabled
  /\ pc' = [pc EXCEPT ![a] = "models"]
  /\ Begin(a)
  /\ UNCHANGED <<tableVars, registry, notified, writes, copy, routes>>

\* GetProviders fails: the registry is not refreshed.
InitAdaptersFails(a) ==
  /\ DBFaults /\ pc[a] = "adapters"
  /\ pc' = [pc EXCEPT ![a] = "idle"]
  /\ UNCHANGED <<tableVars, adapters, registry, notified, writes, copy, routes, historyVars>>

\* adminCreateRoutingPolicy asks refreshLoop to refresh.
NotifyRefresh ==
  /\ notified' = TRUE
  /\ UNCHANGED <<tableVars, adapters, registry, writes, pc, copy, routes, historyVars>>

RefreshLoop ==
  /\ notified /\ pc[Loop] = "idle"
  /\ notified' = FALSE
  /\ pc' = [pc EXCEPT ![Loop] = "models"]
  /\ Begin(Loop)
  /\ UNCHANGED <<tableVars, adapters, registry, writes, copy, routes>>

-----------------------------------------------------------------------------
(* refreshRegistry. *)

After(h) == IF h \in Requests THEN "select" ELSE "idle"

\* Mutated form: the registry is emptied first, and filled in place.
ReadModelsClearing(h) ==
  /\ pc[h] = "models"
  /\ registry' = Unlisted
  /\ IF active
       THEN pc' = [pc EXCEPT ![h] = "bindings"] /\ UNCHANGED copy
       ELSE pc' = [pc EXCEPT ![h] = "assign"] /\ copy' = [copy EXCEPT ![h] = Unlisted]
  /\ UNCHANGED <<tableVars, adapters, notified, writes, routes, historyVars>>

\* GetModels: is the model there, and active?
ReadModels(h) ==
  /\ pc[h] = "models"
  /\ IF active
       THEN pc' = [pc EXCEPT ![h] = "bindings"] /\ UNCHANGED copy
       ELSE pc' = [pc EXCEPT ![h] = "assign"] /\ copy' = [copy EXCEPT ![h] = Unlisted]
  /\ UNCHANGED <<tableVars, adapters, registry, notified, writes, routes, historyVars>>

\* GetModels fails: the registry stays, and a request uses it as it is.
ReadModelsFails(h) ==
  /\ DBFaults /\ pc[h] = "models"
  /\ pc' = [pc EXCEPT ![h] = After(h)]
  /\ fault' = [q \in Requests |-> IF q = h THEN "blind" ELSE fault[q]]
  /\ Forget(h)
  /\ UNCHANGED <<tableVars, adapters, registry, notified, writes, copy, routes,
                 seen, lasting>>

\* GetModelProviders.
ReadBindings(h) ==
  /\ pc[h] = "bindings"
  /\ copy' = [copy EXCEPT ![h] = [p \in InForce |-> health[p]]]
  /\ pc' = [pc EXCEPT ![h] = "assign"]
  /\ UNCHANGED <<tableVars, adapters, registry, notified, writes, routes, historyVars>>

\* GetModelProviders fails: the model is left out.
ReadBindingsFails(h) ==
  /\ DBFaults /\ pc[h] = "bindings"
  /\ copy' = [copy EXCEPT ![h] = Failed]
  /\ pc' = [pc EXCEPT ![h] = "assign"]
  /\ UNCHANGED <<tableVars, adapters, registry, notified, writes, routes, historyVars>>

\* The copy is assigned, and its goroutine goes on.
Assigned(h) ==
  /\ copy' = [copy EXCEPT ![h] = Unlisted]
  /\ pc' = [pc EXCEPT ![h] = After(h)]
  /\ fault' = [q \in Requests |-> IF copy[h] = Failed /\ q \in Routing /\ fault[q] = "none"
                                  THEN "dropped" ELSE fault[q]]
  /\ Forget(h)
  /\ UNCHANGED <<tableVars, adapters, notified, writes, routes, seen, lasting>>

\* Mutated form: what was read is merged into the entry that is there.
AssignMerged(h) ==
  /\ pc[h] = "assign"
  /\ registry' =
       IF copy[h] \in {Unlisted, Failed} THEN Unlisted
       ELSE IF registry = Unlisted THEN copy[h]
       ELSE [p \in DOMAIN registry \cup DOMAIN copy[h] |->
               IF p \in DOMAIN copy[h] THEN copy[h][p] ELSE registry[p]]
  /\ Assigned(h)

\* r.models = newModels, under the lock.
Assign(h) ==
  /\ pc[h] = "assign"
  /\ registry' = IF copy[h] = Failed THEN Unlisted ELSE copy[h]
  /\ Assigned(h)

-----------------------------------------------------------------------------
(* RouteAllForRequest, and Route. *)

Arrive(q) ==
  /\ pc[q] = "idle"
  /\ pc' = [pc EXCEPT ![q] = "models"]
  /\ Begin(q)
  /\ UNCHANGED <<tableVars, adapters, registry, notified, writes, copy, routes>>

Candidates ==
  IF registry = Unlisted THEN {}
  ELSE {p \in DOMAIN registry \cap adapters : registry[p] # "unhealthy"}

\* The entry is read under the lock; no candidate means no route.
Select(q) ==
  /\ pc[q] = "select"
  /\ routes' = [routes EXCEPT ![q] = Candidates]
  /\ pc' = [pc EXCEPT ![q] = "routed"]
  /\ UNCHANGED <<tableVars, adapters, registry, notified, writes, copy, historyVars>>

\* The request is over; its goroutine takes another one.
Leave(q) ==
  /\ pc[q] = "routed"
  /\ routes' = [routes EXCEPT ![q] = {}]
  /\ pc' = [pc EXCEPT ![q] = "idle"]
  /\ seen' = [seen EXCEPT ![q] = {}] /\ lasting' = [lasting EXCEPT ![q] = {}]
  /\ fault' = [fault EXCEPT ![q] = "none"]
  /\ UNCHANGED <<tableVars, adapters, registry, notified, writes, copy, own, kept>>

-----------------------------------------------------------------------------
(* Health checks: a provider answers one as it likes. *)

Without(h, p, s) == IF s = "unhealthy" THEN h \ {p} ELSE h

\* runHealthChecks: the registry is marked under the lock, and a goroutine
\* started for the table.
Check(p, s) ==
  /\ p \in adapters
  /\ registry' = IF registry = Unlisted THEN Unlisted
                 ELSE [d \in DOMAIN registry |-> IF d = p THEN s ELSE registry[d]]
  /\ writes' = writes \cup {<<p, s>>}
  /\ kept' = [h \in Procs |-> Without(kept[h], p, s)]
  /\ lasting' = [q \in Requests |-> Without(lasting[q], p, s)]
  /\ UNCHANGED <<tableVars, adapters, notified, pc, copy, routes, own, seen, fault>>

\* adminProviderHealthCheck records the answer in the table alone.
CheckByAdmin(p, s) ==
  /\ p \in adapters
  /\ writes' = writes \cup {<<p, s>>}
  /\ UNCHANGED <<tableVars, adapters, registry, notified, pc, copy, routes, historyVars>>

\* RecordProviderHealthCheck: rows of the provider, if any, take the health.
WriteHealth(p, s) ==
  /\ <<p, s>> \in writes
  /\ writes' = writes \ {<<p, s>>}
  /\ health' = IF binding[p] = "none" THEN health ELSE [health EXCEPT ![p] = s]
  /\ UNCHANGED <<active, enabled, binding, adapters, registry, notified, pc, copy, routes>>
  /\ Witness

WriteHealthFails(p, s) ==
  /\ DBFaults /\ <<p, s>> \in writes
  /\ writes' = writes \ {<<p, s>>}
  /\ UNCHANGED <<tableVars, adapters, registry, notified, pc, copy, routes,
                 historyVars>>

-----------------------------------------------------------------------------
Refresh(h) ==
  ReadModels(h) \/ ReadModelsFails(h) \/ ReadBindings(h) \/ ReadBindingsFails(h) \/ Assign(h)

Route(q) == Arrive(q) \/ Refresh(q) \/ Select(q) \/ Leave(q)

Administer(a) == AdminWrite(a) \/ InitAdapters(a) \/ InitAdaptersFails(a) \/ Refresh(a)

HealthChecks ==
  \E p \in Providers, s \in {"healthy", "unhealthy"} :
    Check(p, s) \/ CheckByAdmin(p, s) \/ WriteHealth(p, s) \/ WriteHealthFails(p, s)

Next ==
  \/ \E q \in Requests : Route(q)
  \/ \E a \in Admins : Administer(a)
  \/ NotifyRefresh \/ RefreshLoop \/ Refresh(Loop)
  \/ HealthChecks

Spec == Init /\ [][Next]_vars

-----------------------------------------------------------------------------
(* Properties. *)

TypeOK ==
  /\ active \in BOOLEAN /\ notified \in BOOLEAN
  /\ enabled \subseteq Providers /\ adapters \subseteq Providers
  /\ binding \in [Providers -> {"none", "off", "on"}]
  /\ health \in [Providers -> Healths]
  /\ registry \in Entries \cup {Unlisted}
  /\ writes \subseteq Providers \X {"healthy", "unhealthy"}
  /\ pc \in [Procs -> {"idle", "adapters", "models", "bindings", "assign", "select", "routed"}]
  /\ copy \in [Procs -> Entries \cup {Unlisted, Failed}]
  /\ routes \in [Requests -> SUBSET Providers]
  /\ own \in [Procs -> SUBSET Providers] /\ seen \in [Requests -> SUBSET Providers]
  /\ kept \in [Procs -> SUBSET Providers] /\ lasting \in [Requests -> SUBSET Providers]
  /\ fault \in [Requests -> {"none", "dropped", "blind"}]

Routed(q) == pc[q] = "routed"

\* A request whose own refresh did not fail is routed only to bindings that
\* were in force after it came in, or after a refresh that was under way when it
\* came in had begun: the registry is never older than that, although any
\* goroutine may overwrite it with an older copy.
RoutesAreRecent ==
  \A q \in Requests : Routed(q) /\ fault[q] # "blind" => routes[q] \subseteq seen[q]

\* A provider that was enabled, bound, served by an adapter and not found
\* unhealthy all that time is among the routes, unless a query failed: no
\* interleaving of copies, writes and marks hides it.
RoutesAreComplete ==
  \A q \in Requests : Routed(q) /\ fault[q] = "none" => lasting[q] \subseteq routes[q]

=============================================================================
