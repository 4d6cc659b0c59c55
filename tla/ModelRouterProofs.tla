-------------------------- MODULE ModelRouterProofs --------------------------
(***************************************************************************)
(* Proofs about ModelRouter, for any providers and any number of           *)
(* goroutines.                                                             *)
(***************************************************************************)
EXTENDS ModelRouter, TLAPS

\* A copy of a set of bindings is an entry.
LEMMA EntryType ==
  ASSUME NEW S \in SUBSET Providers, NEW f \in [S -> Healths]
  PROVE  f \in Entries
BY DEF Entries

LEMMA EntryDomain ==
  ASSUME NEW f \in Entries
  PROVE  DOMAIN f \subseteq Providers /\ f \in [DOMAIN f -> Healths]
BY DEF Entries

-----------------------------------------------------------------------------
(* Types. *)

LEMMA TypeInit == Init => TypeOK
<1> SUFFICES ASSUME Init PROVE TypeOK
  OBVIOUS
<1>1. registry \in Entries
  <2>1. InForce \in SUBSET Providers
    BY DEF Init, InForce
  <2>2. registry \in [InForce -> Healths]
    BY DEF Init, Healths
  <2> QED
    BY <2>1, <2>2, EntryType
<1> QED
  BY <1>1 DEF Init, TypeOK, Healths

LEMMA BeginType ==
  ASSUME TypeOK, NEW h \in Procs, Begin(h)
  PROVE  /\ own' \in [Procs -> SUBSET Providers] /\ seen' \in [Requests -> SUBSET Providers]
         /\ kept' \in [Procs -> SUBSET Providers] /\ lasting' \in [Requests -> SUBSET Providers]
         /\ fault' \in [Requests -> {"none", "dropped", "blind"}]
<1>1. InForce \subseteq Providers /\ Good \subseteq Providers
  BY DEF TypeOK, InForce, Good
<1>2. UNION {own[g] : g \in UnderWay} \subseteq Providers
  BY DEF TypeOK, UnderWay
<1>3. {p \in Good : \A g \in UnderWay : p \in kept[g]} \subseteq Providers
  BY <1>1
<1>4. own' \in [Procs -> SUBSET Providers] /\ kept' \in [Procs -> SUBSET Providers]
  BY <1>1 DEF Begin, TypeOK
<1>5. CASE h \in Requests
  BY <1>1, <1>2, <1>3, <1>4, <1>5 DEF Begin, TypeOK
<1>6. CASE h \notin Requests
  BY <1>4, <1>6 DEF Begin, TypeOK
<1> QED
  BY <1>5, <1>6

LEMMA ForgetType ==
  ASSUME TypeOK, NEW h \in Procs, Forget(h)
  PROVE  own' \in [Procs -> SUBSET Providers] /\ kept' \in [Procs -> SUBSET Providers]
BY DEF Forget, TypeOK

LEMMA WitnessType ==
  ASSUME TypeOK, Witness, enabled' \subseteq Providers, adapters' = adapters
  PROVE  /\ own' \in [Procs -> SUBSET Providers] /\ seen' \in [Requests -> SUBSET Providers]
         /\ kept' \in [Procs -> SUBSET Providers] /\ lasting' \in [Requests -> SUBSET Providers]
         /\ fault' = fault
<1>1. InForce' \subseteq Providers
  BY DEF InForce
<1>2. \A h \in Procs : own[h] \cup InForce' \subseteq Providers
  BY <1>1 DEF TypeOK
<1>3. \A q \in Requests : seen[q] \cup InForce' \subseteq Providers
  BY <1>1 DEF TypeOK
<1>4. own' \in [Procs -> SUBSET Providers]
  BY <1>2 DEF Witness, TypeOK
<1>5. seen' \in [Requests -> SUBSET Providers]
  BY <1>3 DEF Witness, TypeOK
<1>6. kept' \in [Procs -> SUBSET Providers]
  BY DEF Witness, TypeOK
<1>7. lasting' \in [Requests -> SUBSET Providers]
  BY DEF Witness, TypeOK
<1> QED
  BY <1>4, <1>5, <1>6, <1>7 DEF Witness

LEMMA AdministerType ==
  ASSUME TypeOK, NEW a \in Admins,
         AdminWrite(a) \/ InitAdapters(a) \/ InitAdaptersFails(a)
  PROVE  TypeOK'
<1>0. a \in Procs
  BY DEF Procs
<1>1. CASE AdminWrite(a)
  <2>1. /\ active' \in BOOLEAN /\ enabled' \subseteq Providers
        /\ binding' \in [Providers -> {"none", "off", "on"}]
        /\ health' \in [Providers -> Healths]
    <3>1. CASE UpdateModel
      BY <3>1 DEF UpdateModel, TypeOK
    <3>2. CASE DeleteModel
      BY <3>2 DEF DeleteModel, TypeOK, Healths
    <3>3. ASSUME NEW p \in Providers, WriteProvider(p)
          PROVE  enabled' \subseteq Providers
      BY <3>3 DEF WriteProvider, TypeOK
    <3>4. CASE \E p \in Providers : WriteProvider(p)
      BY <3>3, <3>4 DEF WriteProvider, TypeOK
    <3>5. CASE \E p \in Providers : Unbind(p)
      BY <3>5 DEF Unbind, TypeOK, Healths
    <3>6. CASE \E p \in Providers : \E b \in {"on", "off"} : WriteBinding(p, b)
      BY <3>6 DEF WriteBinding, TypeOK
    <3> QED
      BY <1>1, <3>1, <3>2, <3>4, <3>5, <3>6 DEF AdminWrite
  <2>2. /\ Witness /\ UNCHANGED <<adapters, registry, notified, writes, copy, routes>>
        /\ pc' = [pc EXCEPT ![a] = "adapters"]
    BY <1>1 DEF AdminWrite
  <2> QED
    BY <1>0, <2>1, <2>2, WitnessType DEF TypeOK
<1>2. CASE InitAdapters(a)
  <2>1. Begin(a) /\ UNCHANGED <<tableVars, registry, notified, writes, copy, routes>>
        /\ adapters' \subseteq Providers /\ pc' = [pc EXCEPT ![a] = "models"]
    BY <1>2 DEF InitAdapters, TypeOK
  <2> QED
    BY <1>0, <2>1, BeginType DEF TypeOK, tableVars
<1>3. CASE InitAdaptersFails(a)
  BY <1>0, <1>3 DEF InitAdaptersFails, TypeOK, tableVars, historyVars
<1> QED
  BY <1>1, <1>2, <1>3

LEMMA RefreshType ==
  ASSUME TypeOK, NEW h \in Procs, Refresh(h)
  PROVE  TypeOK'
<1>0. After(h) \in {"select", "idle"}
  BY DEF After
<1>1. CASE ReadModels(h)
  <2>1. copy' \in [Procs -> Entries \cup {Unlisted, Failed}]
    BY <1>1 DEF ReadModels, TypeOK
  <2>2. pc' \in [Procs -> {"idle", "adapters", "models", "bindings", "assign", "select", "routed"}]
    BY <1>1 DEF ReadModels, TypeOK
  <2> QED
    BY <1>1, <2>1, <2>2 DEF ReadModels, TypeOK, tableVars, historyVars
<1>2. CASE ReadModelsFails(h)
  <2>1. fault' \in [Requests -> {"none", "dropped", "blind"}]
    BY <1>2 DEF ReadModelsFails, TypeOK
  <2> QED
    BY <1>0, <1>2, <2>1, ForgetType DEF ReadModelsFails, TypeOK, tableVars
<1>3. CASE ReadBindings(h)
  <2>1. InForce \in SUBSET Providers /\ [p \in InForce |-> health[p]] \in [InForce -> Healths]
    BY DEF InForce, TypeOK
  <2>2. [p \in InForce |-> health[p]] \in Entries
    BY <2>1, EntryType
  <2> QED
    BY <1>3, <2>2 DEF ReadBindings, TypeOK, tableVars, historyVars
<1>4. CASE ReadBindingsFails(h)
  BY <1>4 DEF ReadBindingsFails, TypeOK, tableVars, historyVars
<1>5. CASE Assign(h)
  <2>1. registry' \in Entries \cup {Unlisted}
    BY <1>5 DEF Assign, TypeOK
  <2>2. fault' \in [Requests -> {"none", "dropped", "blind"}]
    BY <1>5 DEF Assign, Assigned, TypeOK
  <2>3. UNCHANGED <<tableVars, adapters, notified, writes, routes, seen, lasting>>
        /\ Forget(h) /\ copy' = [copy EXCEPT ![h] = Unlisted]
        /\ pc' = [pc EXCEPT ![h] = After(h)]
    BY <1>5 DEF Assign, Assigned
  <2> QED
    BY <1>0, <2>1, <2>2, <2>3, ForgetType DEF TypeOK, tableVars
<1> QED
  BY <1>1, <1>2, <1>3, <1>4, <1>5 DEF Refresh

LEMMA RouteType ==
  ASSUME TypeOK, NEW q \in Requests, Arrive(q) \/ Select(q) \/ Leave(q)
  PROVE  TypeOK'
<1>0. q \in Procs
  BY DEF Procs
<1>1. CASE Arrive(q)
  BY <1>0, <1>1, BeginType DEF Arrive, TypeOK, tableVars
<1>2. CASE Select(q)
  <2>1. Candidates \subseteq Providers
    BY DEF Candidates, TypeOK
  <2>2. routes' \in [Requests -> SUBSET Providers]
    BY <1>2, <2>1 DEF Select, TypeOK
  <2> QED
    BY <1>0, <1>2, <2>2 DEF Select, TypeOK, tableVars, historyVars
<1>3. CASE Leave(q)
  BY <1>0, <1>3 DEF Leave, TypeOK, tableVars
<1> QED
  BY <1>1, <1>2, <1>3

LEMMA HealthType ==
  ASSUME TypeOK, HealthChecks
  PROVE  TypeOK'
<1>1. PICK p \in Providers, s \in {"healthy", "unhealthy"} :
        Check(p, s) \/ CheckByAdmin(p, s) \/ WriteHealth(p, s) \/ WriteHealthFails(p, s)
  BY DEF HealthChecks
<1>2. CASE Check(p, s)
  <2>1. registry' \in Entries \cup {Unlisted}
    <3>1. CASE registry = Unlisted
      BY <1>2, <3>1 DEF Check
    <3>2. CASE registry # Unlisted
      <4>1. registry \in Entries
        BY <3>2 DEF TypeOK
      <4>2. DOMAIN registry \in SUBSET Providers /\ registry \in [DOMAIN registry -> Healths]
        BY <4>1, EntryDomain
      <4>3. registry' \in [DOMAIN registry -> Healths]
        BY <1>2, <3>2, <4>2 DEF Check, Healths
      <4> QED
        BY <4>2, <4>3, EntryType
    <3> QED
      BY <3>1, <3>2
  <2>2. kept' \in [Procs -> SUBSET Providers] /\ lasting' \in [Requests -> SUBSET Providers]
    BY <1>2 DEF Check, Without, TypeOK
  <2> QED
    BY <1>2, <2>1, <2>2 DEF Check, TypeOK, tableVars
<1>3. CASE CheckByAdmin(p, s)
  BY <1>3 DEF CheckByAdmin, TypeOK, tableVars, historyVars
<1>4. CASE WriteHealth(p, s)
  <2>1. health' \in [Providers -> Healths]
    BY <1>4 DEF WriteHealth, TypeOK, Healths
  <2>2. /\ Witness /\ writes' \subseteq writes
        /\ UNCHANGED <<active, enabled, binding, adapters, registry, notified, pc, copy, routes>>
    BY <1>4 DEF WriteHealth
  <2>3. enabled' \subseteq Providers
    BY <2>2 DEF TypeOK
  <2> QED
    BY <2>1, <2>2, <2>3, WitnessType DEF TypeOK
<1>5. CASE WriteHealthFails(p, s)
  BY <1>5 DEF WriteHealthFails, TypeOK, tableVars, historyVars
<1> QED
  BY <1>1, <1>2, <1>3, <1>4, <1>5

LEMMA TypeNext == TypeOK /\ [Next]_vars => TypeOK'
<1> SUFFICES ASSUME TypeOK, [Next]_vars PROVE TypeOK'
  OBVIOUS
<1>0. Loop \in Procs /\ Requests \subseteq Procs /\ Admins \subseteq Procs
  BY DEF Procs
<1>1. CASE \E q \in Requests : Route(q)
  BY <1>0, <1>1, RefreshType, RouteType DEF Route
<1>2. CASE \E a \in Admins : Administer(a)
  BY <1>0, <1>2, RefreshType, AdministerType DEF Administer
<1>3. CASE NotifyRefresh
  BY <1>3 DEF NotifyRefresh, TypeOK, tableVars, historyVars
<1>4. CASE RefreshLoop
  BY <1>0, <1>4, BeginType DEF RefreshLoop, TypeOK, tableVars
<1>5. CASE Refresh(Loop)
  BY <1>0, <1>5, RefreshType
<1>6. CASE HealthChecks
  BY <1>6, HealthType
<1>7. CASE UNCHANGED vars
  BY <1>7 DEF vars, tableVars, historyVars, TypeOK
<1> QED
  BY <1>1, <1>2, <1>3, <1>4, <1>5, <1>6, <1>7 DEF Next

\* Every variable keeps its type, whatever goroutines there are.
THEOREM TypeCorrect == Spec => []TypeOK
BY TypeInit, TypeNext, PTL DEF Spec

-----------------------------------------------------------------------------
(* The invariant: what the history says of the tables, of the copies and of *)
(* the registry.                                                           *)

Listed(r) == IF r \in {Unlisted, Failed} THEN {} ELSE DOMAIN r
Offered(r) == {p \in Listed(r) : r[p] # "unhealthy"}

\* What is in force now has been met by the copies under way.
Met(h) == h \in UnderWay => InForce \subseteq own[h] /\ kept[h] \subseteq Good

\* A request has met it too, and all that those copies met.
MetBy(q) ==
  q \in Routing =>
    /\ InForce \subseteq seen[q] /\ lasting[q] \subseteq Good
    /\ \A g \in UnderWay : own[g] \subseteq seen[q] /\ lasting[q] \subseteq kept[g]

\* What was read had been met, and has all that lasted.
Copied(h) ==
  pc[h] = "assign" =>
    /\ Listed(copy[h]) \subseteq own[h]
    /\ copy[h] # Failed => kept[h] \subseteq Offered(copy[h])

\* So it is with the registry, from the request's own assignment on: whoever
\* assigns next was under way, and was met.
Current(q) ==
  pc[q] = "select" =>
    /\ fault[q] # "blind" => Listed(registry) \subseteq seen[q]
    /\ fault[q] = "none" => lasting[q] \subseteq Offered(registry)

MetOK == \A h \in Procs : Met(h)
MetByOK == \A q \in Requests : MetBy(q)
CopiedOK == \A h \in Procs : Copied(h)
CurrentOK == \A q \in Requests : Current(q)

IInv ==
  /\ TypeOK
  /\ MetOK /\ MetByOK /\ CopiedOK /\ CurrentOK
  /\ RoutesAreRecent /\ RoutesAreComplete

LEMMA InitIInv == Init => IInv
<1> SUFFICES ASSUME Init PROVE IInv
  OBVIOUS
<1>1. TypeOK
  BY TypeInit
<1>2. \A h \in Procs : pc[h] = "idle"
  BY DEF Init
<1>3. UnderWay = {} /\ Routing = {}
  BY <1>2 DEF UnderWay, Routing, Copying, Procs
<1>4. MetOK /\ MetByOK
  BY <1>3 DEF MetOK, MetByOK, Met, MetBy
<1>5. CopiedOK /\ CurrentOK
  BY <1>2 DEF CopiedOK, CurrentOK, Copied, Current, Procs
<1>6. RoutesAreRecent /\ RoutesAreComplete
  BY <1>2 DEF RoutesAreRecent, RoutesAreComplete, Routed, Procs
<1> QED
  BY <1>1, <1>4, <1>5, <1>6 DEF IInv

\* The tables change, and whoever is under way meets it.
LEMMA WitnessKeeps ==
  ASSUME IInv, TypeOK', Witness,
         UNCHANGED <<registry, copy, routes>>,
         UnderWay' = UnderWay, Routing' = Routing,
         \A h \in Procs, s \in {"assign", "select", "routed"} : pc'[h] = s => pc[h] = s
  PROVE  IInv'
<1>0. Requests \subseteq Procs
  BY DEF Procs
<1>1. MetOK'
  BY DEF MetOK, Met, Witness, UnderWay
<1>2. ASSUME NEW q \in Requests, q \in Routing
      PROVE  /\ InForce' \subseteq seen'[q] /\ lasting'[q] \subseteq Good'
             /\ \A g \in UnderWay : own'[g] \subseteq seen'[q] /\ lasting'[q] \subseteq kept'[g]
  <2>1. seen'[q] = seen[q] \cup InForce' /\ lasting'[q] = lasting[q] \cap Good'
    BY <1>2 DEF Witness
  <2>2. \A g \in UnderWay : own[g] \subseteq seen[q] /\ lasting[q] \subseteq kept[g]
    BY <1>2 DEF IInv, MetByOK, MetBy
  <2>3. \A g \in UnderWay : own'[g] = own[g] \cup InForce' /\ kept'[g] = kept[g] \cap Good'
    BY DEF Witness, UnderWay
  <2> QED
    BY <2>1, <2>2, <2>3
<1>3. MetByOK'
  BY <1>2 DEF MetByOK, MetBy
<1>4. ASSUME NEW h \in Procs, pc'[h] = "assign"
      PROVE  Copied(h)'
  <2>1. Copied(h) /\ pc[h] = "assign" /\ h \in UnderWay
    BY <1>4 DEF IInv, CopiedOK, UnderWay, Copying
  <2>2. own[h] \subseteq own'[h] /\ kept'[h] \subseteq kept[h]
    BY <2>1 DEF Witness
  <2>3. Listed(copy[h]) \subseteq own[h] /\ (copy[h] # Failed => kept[h] \subseteq Offered(copy[h]))
    BY <2>1 DEF Copied
  <2>4. copy'[h] = copy[h] /\ Listed(copy[h])' = Listed(copy[h]) /\ Offered(copy[h])' = Offered(copy[h])
    BY DEF Listed, Offered
  <2> QED
    BY <2>2, <2>3, <2>4 DEF Copied
<1>5. CopiedOK'
  BY <1>4 DEF CopiedOK, Copied
<1>6. \A q \in Requests : seen[q] \subseteq seen'[q] /\ lasting'[q] \subseteq lasting[q]
                          /\ fault'[q] = fault[q]
  BY DEF Witness
<1>7. ASSUME NEW q \in Requests, pc'[q] = "select"
      PROVE  Current(q)'
  <2>1. Current(q) /\ pc[q] = "select"
    BY <1>0, <1>7 DEF IInv, CurrentOK
  <2>2. Listed(registry)' = Listed(registry) /\ Offered(registry)' = Offered(registry)
    BY DEF Listed, Offered
  <2> QED
    BY <1>6, <2>1, <2>2 DEF Current
<1>8. CurrentOK'
  BY <1>7 DEF CurrentOK, Current
<1>9. RoutesAreRecent' /\ RoutesAreComplete'
  BY <1>0, <1>6 DEF IInv, RoutesAreRecent, RoutesAreComplete, Routed
<1> QED
  BY <1>1, <1>3, <1>5, <1>8, <1>9 DEF IInv

\* A copy begins.  Adapters may have been added.
LEMMA BeginKeeps ==
  ASSUME IInv, TypeOK', NEW h \in Procs, Begin(h),
         h \notin UnderWay, pc' = [pc EXCEPT ![h] = "models"],
         UNCHANGED <<tableVars, registry, copy, routes>>, adapters \subseteq adapters'
  PROVE  IInv'
<1>0. Requests \subseteq Procs
  BY DEF Procs
<1>1. UnderWay' = UnderWay \cup {h}
  BY DEF UnderWay, Copying, IInv, TypeOK
<1>2. InForce' = InForce /\ Good \subseteq Good'
  BY DEF InForce, Good, tableVars
<1>3. /\ own'[h] = InForce /\ kept'[h] = Good
      /\ \A g \in Procs : g # h => own'[g] = own[g] /\ kept'[g] = kept[g]
  BY DEF Begin, IInv, TypeOK
<1>4. \A q \in Requests : q # h => seen'[q] = seen[q] /\ lasting'[q] = lasting[q] /\ fault'[q] = fault[q]
  BY DEF Begin, IInv, TypeOK
<1>5. ASSUME NEW g \in Procs, g \in UnderWay'
      PROVE  InForce' \subseteq own'[g] /\ kept'[g] \subseteq Good'
  BY <1>1, <1>2, <1>3, <1>5 DEF IInv, MetOK, Met
<1>6. MetOK'
  BY <1>5 DEF MetOK, Met
<1>7. ASSUME NEW q \in Requests, q \in Routing'
      PROVE  /\ InForce' \subseteq seen'[q] /\ lasting'[q] \subseteq Good'
             /\ \A g \in UnderWay' : own'[g] \subseteq seen'[q] /\ lasting'[q] \subseteq kept'[g]
  <2>1. UnderWay \subseteq Procs
    BY DEF UnderWay
  <2>2. CASE q = h
    <3>1. /\ seen'[q] = InForce \cup UNION {own[g] : g \in UnderWay}
          /\ lasting'[q] = {p \in Good : \A g \in UnderWay : p \in kept[g]}
      BY <2>2 DEF Begin, IInv, TypeOK
    <3>2. InForce \subseteq seen'[q] /\ lasting'[q] \subseteq Good
      BY <3>1
    <3>3. \A g \in UnderWay : own[g] \subseteq seen'[q] /\ lasting'[q] \subseteq kept[g]
      BY <3>1
    <3> QED
      BY <1>1, <1>2, <1>3, <2>1, <3>2, <3>3
  <2>3. CASE q # h
    <3>1. q \in Routing
      BY <1>0, <1>7, <2>3 DEF Routing, IInv, TypeOK
    <3>2. /\ InForce \subseteq seen[q] /\ lasting[q] \subseteq Good
          /\ \A g \in UnderWay : own[g] \subseteq seen[q] /\ lasting[q] \subseteq kept[g]
      BY <3>1 DEF IInv, MetByOK, MetBy
    <3> QED
      BY <1>1, <1>2, <1>3, <1>4, <2>1, <2>3, <3>2
  <2> QED
    BY <2>2, <2>3
<1>8. MetByOK'
  BY <1>7 DEF MetByOK, MetBy
<1>9. \A g \in Procs, s \in {"assign", "select", "routed"} : pc'[g] = s => g # h /\ pc[g] = s
  BY DEF IInv, TypeOK
<1>10. CopiedOK'
  BY <1>3, <1>9 DEF IInv, CopiedOK, Copied, Listed, Offered
<1>11. CurrentOK'
  BY <1>0, <1>4, <1>9 DEF IInv, CurrentOK, Current, Listed, Offered
<1>12. RoutesAreRecent' /\ RoutesAreComplete'
  BY <1>0, <1>4, <1>9 DEF IInv, RoutesAreRecent, RoutesAreComplete, Routed
<1> QED
  BY <1>6, <1>8, <1>10, <1>11, <1>12 DEF IInv

\* Everything that holds of the copies is left as it is.
LEMMA QuietKeeps ==
  ASSUME IInv, TypeOK',
         UNCHANGED <<tableVars, adapters, registry, copy, routes, historyVars>>,
         UnderWay' = UnderWay, Routing' = Routing,
         \A h \in Procs, s \in {"assign", "select", "routed"} : pc'[h] = s => pc[h] = s
  PROVE  IInv'
<1>0. Requests \subseteq Procs
  BY DEF Procs
<1>1. MetOK' /\ MetByOK'
  BY DEF IInv, MetOK, MetByOK, Met, MetBy, InForce, Good, tableVars, historyVars
<1>2. CopiedOK'
  BY DEF IInv, CopiedOK, Copied, Listed, Offered, historyVars
<1>3. CurrentOK'
  BY <1>0 DEF IInv, CurrentOK, Current, Listed, Offered, historyVars
<1>4. RoutesAreRecent' /\ RoutesAreComplete'
  BY <1>0 DEF IInv, RoutesAreRecent, RoutesAreComplete, Routed, historyVars
<1> QED
  BY <1>1, <1>2, <1>3, <1>4 DEF IInv

\* A query of a copy: what it reads has been met.
LEMMA ReadKeeps ==
  ASSUME IInv, TypeOK', NEW h \in Procs,
         ReadModels(h) \/ ReadBindings(h) \/ ReadBindingsFails(h)
  PROVE  IInv'
<1>0. Requests \subseteq Procs
  BY DEF Procs
<1>1. /\ UNCHANGED <<tableVars, adapters, registry, routes, historyVars>>
      /\ \A g \in Procs : g # h => pc'[g] = pc[g] /\ copy'[g] = copy[g]
      /\ pc[h] \in {"models", "bindings"} /\ pc'[h] \in {"bindings", "assign"}
  BY DEF ReadModels, ReadBindings, ReadBindingsFails, IInv, TypeOK
<1>2. UnderWay' = UnderWay /\ Routing' = Routing /\ h \in UnderWay
  BY <1>0, <1>1 DEF UnderWay, Routing, Copying
<1>3. MetOK' /\ MetByOK'
  BY <1>1, <1>2 DEF IInv, MetOK, MetByOK, Met, MetBy, InForce, Good, tableVars, historyVars
<1>4. InForce \subseteq own[h] /\ kept[h] \subseteq Good
  BY <1>2 DEF IInv, MetOK, Met
<1>5. pc'[h] = "assign" => /\ Listed(copy'[h]) \subseteq own[h]
                           /\ copy'[h] # Failed => kept[h] \subseteq Offered(copy'[h])
  <2>1. CASE ReadModels(h)
    <3>1. pc'[h] = "assign" => ~active /\ copy'[h] = Unlisted
      BY <2>1 DEF ReadModels, IInv, TypeOK
    <3>2. ~active => kept[h] = {}
      BY <1>4 DEF Good
    <3> QED
      BY <3>1, <3>2 DEF Listed, Offered
  <2>2. CASE ReadBindings(h)
    <3>1. copy'[h] = [p \in InForce |-> health[p]]
      BY <2>2 DEF ReadBindings, IInv, TypeOK
    <3>2. InForce \in SUBSET Providers /\ [p \in InForce |-> health[p]] \in [InForce -> Healths]
      BY DEF IInv, InForce, TypeOK
    <3>3. copy'[h] \in Entries
      BY <3>1, <3>2, EntryType
    <3>4. Listed(copy'[h]) = InForce
      BY <3>1, <3>3, RouterConstants DEF Listed
    <3>5. Good \subseteq Offered(copy'[h])
      BY <3>1, <3>4 DEF Good, Offered
    <3> QED
      BY <1>4, <3>4, <3>5
  <2>3. CASE ReadBindingsFails(h)
    <3>1. copy'[h] = Failed
      BY <2>3 DEF ReadBindingsFails, IInv, TypeOK
    <3> QED
      BY <3>1 DEF Listed
  <2> QED
    BY <2>1, <2>2, <2>3
<1>6. Copied(h)'
  BY <1>1, <1>5 DEF Copied, Listed, Offered, historyVars
<1>7. \A g \in Procs : g # h => Copied(g)'
  BY <1>1 DEF IInv, CopiedOK, Copied, Listed, Offered, historyVars
<1>8. CopiedOK'
  BY <1>6, <1>7 DEF CopiedOK
<1>9. CurrentOK'
  BY <1>0, <1>1 DEF IInv, CurrentOK, Current, Listed, Offered, historyVars
<1>10. RoutesAreRecent' /\ RoutesAreComplete'
  BY <1>0, <1>1 DEF IInv, RoutesAreRecent, RoutesAreComplete, Routed, historyVars
<1> QED
  BY <1>3, <1>8, <1>9, <1>10 DEF IInv

\* A copy ends, by an assignment or because its first query failed; a
\* request goes on to select.  The registry is the same, or what was copied.
LEMMA EndKeeps ==
  ASSUME IInv, TypeOK', NEW h \in Procs, h \in UnderWay, Forget(h),
         pc' = [pc EXCEPT ![h] = After(h)],
         UNCHANGED <<tableVars, adapters, routes, seen, lasting>>,
         \A g \in Procs : g # h => copy'[g] = copy[g],
         CurrentOK',
         \A q \in Requests : pc[q] = "routed" => fault'[q] = fault[q]
  PROVE  IInv'
<1>0. Requests \subseteq Procs
  BY DEF Procs
<1>1. After(h) \notin Copying \cup {"routed"} /\ (h \in Requests => After(h) = "select")
  BY DEF After, Copying
<1>2. UnderWay' = UnderWay \ {h} /\ Routing' = Routing
  BY <1>0, <1>1 DEF UnderWay, Routing, IInv, TypeOK, Copying
<1>3. \A g \in Procs : g # h => own'[g] = own[g] /\ kept'[g] = kept[g] /\ pc'[g] = pc[g]
  BY DEF Forget, IInv, TypeOK
<1>4. InForce' = InForce /\ Good' = Good
  BY DEF InForce, Good, tableVars
<1>5. MetOK'
  BY <1>2, <1>3, <1>4 DEF IInv, MetOK, Met
<1>6. UnderWay \subseteq Procs
  BY DEF UnderWay
<1>7. MetByOK'
  BY <1>2, <1>3, <1>4, <1>6 DEF IInv, MetByOK, MetBy
<1>8. pc'[h] = After(h)
  BY DEF IInv, TypeOK
<1>9. CopiedOK'
  BY <1>1, <1>3, <1>8 DEF IInv, CopiedOK, Copied, Listed, Offered, Copying
<1>10. \A q \in Requests : pc'[q] = "routed" => pc[q] = "routed"
  BY <1>0, <1>1, <1>3, <1>8
<1>11. RoutesAreRecent' /\ RoutesAreComplete'
  BY <1>10 DEF IInv, RoutesAreRecent, RoutesAreComplete, Routed
<1> QED
  BY <1>5, <1>7, <1>9, <1>11 DEF IInv

LEMMA AssignKeeps ==
  ASSUME IInv, TypeOK', NEW h \in Procs, Assign(h)
  PROVE  IInv'
<1>0. Requests \subseteq Procs
  BY DEF Procs
<1>1. /\ pc[h] = "assign" /\ registry' = IF copy[h] = Failed THEN Unlisted ELSE copy[h]
      /\ copy' = [copy EXCEPT ![h] = Unlisted]
      /\ pc' = [pc EXCEPT ![h] = After(h)]
      /\ Forget(h)
      /\ UNCHANGED <<tableVars, adapters, notified, writes, routes, seen, lasting>>
  BY DEF Assign, Assigned
<1>2. h \in UnderWay
  BY <1>1 DEF UnderWay, Copying
<1>3. \A q \in Requests :
        fault'[q] = IF copy[h] = Failed /\ q \in Routing /\ fault[q] = "none"
                    THEN "dropped" ELSE fault[q]
  BY DEF Assign, Assigned
<1>4. /\ Listed(copy[h]) \subseteq own[h]
      /\ copy[h] # Failed => kept[h] \subseteq Offered(copy[h])
  BY <1>1 DEF IInv, CopiedOK, Copied
<1>5. Listed(registry') = Listed(copy[h])
      /\ (copy[h] # Failed => Offered(registry') = Offered(copy[h]))
  BY <1>1, RouterConstants DEF Listed, Offered
<1>6. ASSUME NEW q \in Requests, pc'[q] = "select"
      PROVE  Current(q)'
  <2>1. q \in Routing
    BY <1>0, <1>1, <1>6 DEF Routing, Copying, IInv, TypeOK
  <2>2. own[h] \subseteq seen[q] /\ lasting[q] \subseteq kept[h]
    BY <1>2, <2>1 DEF IInv, MetByOK, MetBy
  <2>3. Listed(registry') \subseteq seen'[q]
    BY <1>1, <1>4, <1>5, <2>2
  <2>4. fault'[q] = "none" => lasting'[q] \subseteq Offered(registry')
    BY <1>1, <1>3, <1>4, <1>5, <2>1, <2>2
  <2> QED
    BY <2>3, <2>4 DEF Current, Listed, Offered
<1>7. CurrentOK'
  BY <1>6 DEF CurrentOK, Current
<1>8. \A q \in Requests : pc[q] = "routed" => fault'[q] = fault[q]
  BY <1>3 DEF Routing, Copying
<1>9. \A g \in Procs : g # h => copy'[g] = copy[g]
  BY <1>1 DEF IInv, TypeOK
<1> QED
  BY <1>1, <1>2, <1>7, <1>8, <1>9, EndKeeps

LEMMA ReadModelsFailsKeeps ==
  ASSUME IInv, TypeOK', NEW h \in Procs, ReadModelsFails(h)
  PROVE  IInv'
<1>0. Requests \subseteq Procs
  BY DEF Procs
<1>1. /\ pc[h] = "models" /\ pc' = [pc EXCEPT ![h] = After(h)] /\ Forget(h)
      /\ fault' = [q \in Requests |-> IF q = h THEN "blind" ELSE fault[q]]
      /\ UNCHANGED <<tableVars, adapters, registry, copy, routes, seen, lasting>>
  BY DEF ReadModelsFails
<1>2. h \in UnderWay
  BY <1>1 DEF UnderWay, Copying
<1>3. ASSUME NEW q \in Requests, pc'[q] = "select"
      PROVE  Current(q)'
  <2>1. CASE q = h
    BY <1>1, <2>1 DEF Current
  <2>2. CASE q # h
    <3>1. Current(q) /\ pc[q] = "select" /\ fault'[q] = fault[q]
      BY <1>0, <1>1, <1>3, <2>2 DEF IInv, TypeOK, CurrentOK
    <3> QED
      BY <1>1, <3>1 DEF Current, Listed, Offered
  <2> QED
    BY <2>1, <2>2
<1>4. CurrentOK'
  BY <1>3 DEF CurrentOK, Current
<1>5. \A q \in Requests : pc[q] = "routed" => fault'[q] = fault[q]
  BY <1>1
<1> QED
  BY <1>1, <1>2, <1>4, <1>5, EndKeeps

LEMMA RefreshKeeps ==
  ASSUME IInv, TypeOK', NEW h \in Procs, Refresh(h)
  PROVE  IInv'
BY ReadKeeps, AssignKeeps, ReadModelsFailsKeeps DEF Refresh

\* What is selected is what the registry offers, if it has an adapter.
LEMMA SelectKeeps ==
  ASSUME IInv, TypeOK', NEW q \in Requests, Select(q)
  PROVE  IInv'
<1>0. Requests \subseteq Procs
  BY DEF Procs
<1>1. /\ UNCHANGED <<tableVars, adapters, registry, copy, historyVars>>
      /\ pc[q] = "select" /\ pc' = [pc EXCEPT ![q] = "routed"]
      /\ routes' = [routes EXCEPT ![q] = Candidates]
  BY DEF Select
<1>2. UnderWay' = UnderWay /\ Routing' = Routing \ {q}
  BY <1>0, <1>1 DEF UnderWay, Routing, Copying, IInv, TypeOK
<1>3. MetOK' /\ MetByOK'
  BY <1>1, <1>2 DEF IInv, MetOK, MetByOK, Met, MetBy, InForce, Good, tableVars, historyVars
<1>4. \A h \in Procs, s \in {"assign", "select"} : pc'[h] = s => pc[h] = s
  BY <1>1 DEF IInv, TypeOK
<1>5. CopiedOK' /\ CurrentOK'
  BY <1>0, <1>1, <1>4
  DEF IInv, CopiedOK, Copied, CurrentOK, Current, Listed, Offered, historyVars
<1>6. lasting[q] \subseteq adapters
  BY <1>0, <1>1 DEF IInv, MetByOK, MetBy, Routing, Good
<1>7. Candidates = Offered(registry) \cap adapters
  <2>1. registry # Failed
    BY RouterConstants DEF IInv, TypeOK
  <2> QED
    BY <2>1 DEF Candidates, Offered, Listed
<1>8. Current(q)
  BY DEF IInv, CurrentOK
<1>9. /\ fault[q] # "blind" => Candidates \subseteq seen[q]
      /\ fault[q] = "none" => lasting[q] \subseteq Candidates
  BY <1>1, <1>6, <1>7, <1>8 DEF Current, Offered
<1>10. \A d \in Requests : d # q => pc'[d] = pc[d] /\ routes'[d] = routes[d]
  BY <1>0, <1>1 DEF IInv, TypeOK
<1>11. routes'[q] = Candidates
  BY <1>1 DEF IInv, TypeOK
<1>12. RoutesAreRecent' /\ RoutesAreComplete'
  BY <1>1, <1>9, <1>10, <1>11
  DEF IInv, RoutesAreRecent, RoutesAreComplete, Routed, historyVars
<1> QED
  BY <1>3, <1>5, <1>12 DEF IInv

LEMMA LeaveKeeps ==
  ASSUME IInv, TypeOK', NEW q \in Requests, Leave(q)
  PROVE  IInv'
<1>0. Requests \subseteq Procs
  BY DEF Procs
<1>1. /\ UNCHANGED <<tableVars, adapters, registry, copy, own, kept>>
      /\ pc[q] = "routed" /\ pc' = [pc EXCEPT ![q] = "idle"]
      /\ \A d \in Requests : d # q => /\ routes'[d] = routes[d] /\ fault'[d] = fault[d]
                                     /\ seen'[d] = seen[d] /\ lasting'[d] = lasting[d]
  BY DEF Leave, IInv, TypeOK
<1>2. UnderWay' = UnderWay /\ Routing' = Routing /\ q \notin Routing
  BY <1>0, <1>1 DEF UnderWay, Routing, Copying, IInv, TypeOK
<1>3. MetOK'
  BY <1>1, <1>2 DEF IInv, MetOK, Met, InForce, Good, tableVars
<1>4. MetByOK'
  BY <1>1, <1>2 DEF IInv, MetByOK, MetBy, InForce, Good, tableVars
<1>5. \A h \in Procs, s \in {"assign", "select", "routed"} : pc'[h] = s => h # q /\ pc[h] = s
  BY <1>0, <1>1 DEF IInv, TypeOK
<1>6. CopiedOK'
  BY <1>1, <1>5 DEF IInv, CopiedOK, Copied, Listed, Offered
<1>7. CurrentOK'
  BY <1>0, <1>1, <1>5 DEF IInv, CurrentOK, Current, Listed, Offered
<1>8. RoutesAreRecent' /\ RoutesAreComplete'
  BY <1>0, <1>1, <1>5 DEF IInv, RoutesAreRecent, RoutesAreComplete, Routed
<1> QED
  BY <1>3, <1>4, <1>6, <1>7, <1>8 DEF IInv

LEMMA AdministerKeeps ==
  ASSUME IInv, TypeOK', NEW a \in Admins,
         AdminWrite(a) \/ InitAdapters(a) \/ InitAdaptersFails(a)
  PROVE  IInv'
<1>0. a \in Procs /\ a \notin Requests /\ Requests \subseteq Procs
  BY RouterConstants DEF Procs
<1>1. CASE AdminWrite(a)
  <2>1. /\ Witness /\ UNCHANGED <<registry, copy, routes>>
        /\ pc[a] = "idle" /\ pc' = [pc EXCEPT ![a] = "adapters"]
    BY <1>1 DEF AdminWrite
  <2>2. UnderWay' = UnderWay /\ Routing' = Routing
    BY <1>0, <2>1 DEF UnderWay, Routing, Copying, IInv, TypeOK
  <2>3. \A h \in Procs, s \in {"assign", "select", "routed"} : pc'[h] = s => pc[h] = s
    BY <2>1 DEF IInv, TypeOK
  <2> QED
    BY <2>1, <2>2, <2>3, WitnessKeeps
<1>2. CASE InitAdapters(a)
  <2>1. /\ Begin(a) /\ UNCHANGED <<tableVars, registry, copy, routes>>
        /\ adapters \subseteq adapters' /\ pc' = [pc EXCEPT ![a] = "models"]
        /\ pc[a] = "adapters"
    BY <1>2 DEF InitAdapters
  <2>2. a \notin UnderWay
    BY <2>1 DEF UnderWay, Copying
  <2> QED
    BY <1>0, <2>1, <2>2, BeginKeeps
<1>3. CASE InitAdaptersFails(a)
  <2>1. /\ UNCHANGED <<tableVars, adapters, registry, copy, routes, historyVars>>
        /\ pc[a] = "adapters" /\ pc' = [pc EXCEPT ![a] = "idle"]
    BY <1>3 DEF InitAdaptersFails
  <2>2. UnderWay' = UnderWay /\ Routing' = Routing
    BY <1>0, <2>1 DEF UnderWay, Routing, Copying, IInv, TypeOK
  <2>3. \A h \in Procs, s \in {"assign", "select", "routed"} : pc'[h] = s => pc[h] = s
    BY <2>1 DEF IInv, TypeOK
  <2> QED
    BY <2>1, <2>2, <2>3, QuietKeeps
<1> QED
  BY <1>1, <1>2, <1>3

\* A health check: what is found unhealthy leaves the histories and what the
\* registry offers in one step.
LEMMA CheckKeeps ==
  ASSUME IInv, TypeOK', NEW p \in Providers, NEW s \in {"healthy", "unhealthy"}, Check(p, s)
  PROVE  IInv'
<1>0. Requests \subseteq Procs
  BY DEF Procs
<1>1. /\ UNCHANGED <<tableVars, adapters, pc, copy, routes, own, seen, fault>>
      /\ \A h \in Procs : kept'[h] = Without(kept[h], p, s)
      /\ \A q \in Requests : lasting'[q] = Without(lasting[q], p, s)
  BY DEF Check
<1>2. UnderWay' = UnderWay /\ Routing' = Routing /\ InForce' = InForce /\ Good' = Good
  BY <1>1 DEF UnderWay, Routing, InForce, Good, tableVars
<1>3. /\ \A h \in Procs : kept'[h] \subseteq kept[h]
      /\ \A q \in Requests : lasting'[q] \subseteq lasting[q]
  BY <1>1 DEF Without
<1>4. MetOK'
  BY <1>1, <1>2, <1>3 DEF IInv, MetOK, Met
<1>5. ASSUME NEW q \in Requests, q \in Routing
      PROVE  /\ InForce \subseteq seen[q] /\ lasting'[q] \subseteq Good
             /\ \A g \in UnderWay : own[g] \subseteq seen[q] /\ lasting'[q] \subseteq kept'[g]
  <2>1. /\ InForce \subseteq seen[q] /\ lasting[q] \subseteq Good
        /\ \A g \in UnderWay : own[g] \subseteq seen[q] /\ lasting[q] \subseteq kept[g]
    BY <1>5 DEF IInv, MetByOK, MetBy
  <2>2. UnderWay \subseteq Procs
    BY DEF UnderWay
  <2> QED
    BY <1>1, <2>1, <2>2 DEF Without
<1>6. MetByOK'
  BY <1>1, <1>2, <1>5 DEF MetByOK, MetBy
<1>7. CopiedOK'
  BY <1>1, <1>3 DEF IInv, CopiedOK, Copied, Listed, Offered
<1>8. Listed(registry') = Listed(registry) /\ Without(Offered(registry), p, s) \subseteq Offered(registry')
  <2>1. registry # Failed
    BY RouterConstants DEF IInv, TypeOK
  <2>2. CASE registry = Unlisted
    <3>1. registry' = Unlisted
      BY <2>2 DEF Check
    <3> QED
      BY <2>2, <3>1 DEF Listed, Offered, Without
  <2>3. CASE registry # Unlisted
    <3>1. registry' = [d \in DOMAIN registry |-> IF d = p THEN s ELSE registry[d]]
      BY <2>3 DEF Check
    <3>2. DOMAIN registry \subseteq Providers /\ registry \in [DOMAIN registry -> Healths]
      BY <2>3, EntryDomain DEF IInv, TypeOK
    <3>3. registry' \in [DOMAIN registry -> Healths]
      BY <3>1, <3>2 DEF Healths
    <3>4. registry' \in Entries
      BY <3>2, <3>3, EntryType
    <3>5. Listed(registry') = DOMAIN registry /\ Listed(registry) = DOMAIN registry
      BY <2>1, <2>3, <3>1, <3>4, RouterConstants DEF Listed
    <3> QED
      BY <3>1, <3>5 DEF Offered, Without
  <2> QED
    BY <2>2, <2>3
<1>9. ASSUME NEW q \in Requests, pc[q] = "select"
      PROVE  Current(q)'
  <2>1. Current(q)
    BY DEF IInv, CurrentOK
  <2>2. fault[q] = "none" => lasting'[q] \subseteq Offered(registry')
    BY <1>1, <1>8, <1>9, <2>1 DEF Current, Without
  <2>3. fault[q] # "blind" => Listed(registry') \subseteq seen[q]
    BY <1>8, <1>9, <2>1 DEF Current
  <2> QED
    BY <1>1, <2>2, <2>3 DEF Current, Listed, Offered
<1>10. CurrentOK'
  BY <1>1, <1>9 DEF CurrentOK, Current
<1>11. RoutesAreRecent' /\ RoutesAreComplete'
  BY <1>1, <1>3 DEF IInv, RoutesAreRecent, RoutesAreComplete, Routed
<1> QED
  BY <1>4, <1>6, <1>7, <1>10, <1>11 DEF IInv

LEMMA HealthKeeps ==
  ASSUME IInv, TypeOK', HealthChecks
  PROVE  IInv'
<1>1. PICK p \in Providers, s \in {"healthy", "unhealthy"} :
        Check(p, s) \/ CheckByAdmin(p, s) \/ WriteHealth(p, s) \/ WriteHealthFails(p, s)
  BY DEF HealthChecks
<1>2. CASE Check(p, s)
  BY <1>2, CheckKeeps
<1>3. CASE CheckByAdmin(p, s) \/ WriteHealthFails(p, s)
  <2>1. UNCHANGED <<tableVars, adapters, registry, pc, copy, routes, historyVars>>
    BY <1>3 DEF CheckByAdmin, WriteHealthFails
  <2>2. UnderWay' = UnderWay /\ Routing' = Routing
    BY <2>1 DEF UnderWay, Routing
  <2> QED
    BY <2>1, <2>2, QuietKeeps
<1>4. CASE WriteHealth(p, s)
  <2>1. Witness /\ UNCHANGED <<registry, copy, routes, pc>>
    BY <1>4 DEF WriteHealth
  <2>2. UnderWay' = UnderWay /\ Routing' = Routing
    BY <2>1 DEF UnderWay, Routing
  <2> QED
    BY <2>1, <2>2, WitnessKeeps
<1> QED
  BY <1>1, <1>2, <1>3, <1>4

LEMMA IInvNext == IInv /\ [Next]_vars => IInv'
<1> SUFFICES ASSUME IInv, [Next]_vars PROVE IInv'
  OBVIOUS
<1>0. Loop \in Procs /\ Requests \subseteq Procs /\ Admins \subseteq Procs
  BY DEF Procs
<1>1. TypeOK'
  BY TypeNext DEF IInv
<1>2. ASSUME NEW q \in Requests, Arrive(q)
      PROVE  IInv'
  <2>1. /\ Begin(q) /\ pc[q] = "idle" /\ pc' = [pc EXCEPT ![q] = "models"]
        /\ UNCHANGED <<tableVars, adapters, registry, copy, routes>>
    BY <1>2 DEF Arrive
  <2>2. q \notin UnderWay
    BY <2>1 DEF UnderWay, Copying
  <2> QED
    BY <1>0, <1>1, <2>1, <2>2, BeginKeeps
<1>3. CASE \E q \in Requests : Route(q)
  BY <1>0, <1>1, <1>2, <1>3, RefreshKeeps, SelectKeeps, LeaveKeeps DEF Route
<1>4. CASE \E a \in Admins : Administer(a)
  BY <1>0, <1>1, <1>4, RefreshKeeps, AdministerKeeps DEF Administer
<1>5. CASE NotifyRefresh
  <2>1. UNCHANGED <<tableVars, adapters, registry, pc, copy, routes, historyVars>>
    BY <1>5 DEF NotifyRefresh
  <2>2. UnderWay' = UnderWay /\ Routing' = Routing
    BY <2>1 DEF UnderWay, Routing
  <2> QED
    BY <1>1, <2>1, <2>2, QuietKeeps
<1>6. CASE RefreshLoop
  <2>1. /\ Begin(Loop) /\ pc[Loop] = "idle" /\ pc' = [pc EXCEPT ![Loop] = "models"]
        /\ UNCHANGED <<tableVars, adapters, registry, copy, routes>>
    BY <1>6 DEF RefreshLoop
  <2>2. Loop \notin UnderWay
    BY <2>1 DEF UnderWay, Copying
  <2> QED
    BY <1>0, <1>1, <2>1, <2>2, BeginKeeps
<1>7. CASE Refresh(Loop)
  BY <1>0, <1>1, <1>7, RefreshKeeps
<1>8. CASE HealthChecks
  BY <1>1, <1>8, HealthKeeps
<1>9. CASE UNCHANGED vars
  <2>1. UNCHANGED <<tableVars, adapters, registry, pc, copy, routes, historyVars>>
    BY <1>9 DEF vars
  <2>2. UnderWay' = UnderWay /\ Routing' = Routing
    BY <2>1 DEF UnderWay, Routing
  <2> QED
    BY <1>1, <2>1, <2>2, QuietKeeps
<1> QED
  BY <1>3, <1>4, <1>5, <1>6, <1>7, <1>8, <1>9 DEF Next

-----------------------------------------------------------------------------
\* A request whose refresh did not fail is routed only to bindings in force
\* since it came in, or since a refresh it met had begun.
THEOREM RoutesRecent == Spec => []RoutesAreRecent
<1>1. IInv => RoutesAreRecent
  BY DEF IInv
<1> QED
  BY InitIInv, IInvNext, <1>1, PTL DEF Spec

\* A provider that was good all that time is among its routes, if no query failed.
THEOREM RoutesComplete == Spec => []RoutesAreComplete
<1>1. IInv => RoutesAreComplete
  BY DEF IInv
<1> QED
  BY InitIInv, IInvNext, <1>1, PTL DEF Spec
=============================================================================
