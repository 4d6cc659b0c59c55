--------------------------- MODULE SettingsCache ---------------------------
(***************************************************************************)
(* One system setting: the row in PostgreSQL is the truth, a Redis key      *)
(* with a short life is what most reads see.                               *)
(*                                                                         *)
(* A read tries Redis, then the row, then fills the key.  A write changes  *)
(* the row, then deletes the key.  Reads and writes of different           *)
(* goroutines overlap, so a read may fill the key with what a write has    *)
(* replaced; errors of Redis are dropped.  Time passes in ticks.           *)
(***************************************************************************)
EXTENDS Integers

CONSTANTS
  Readers,    \* goroutines that read the setting
  Writers,    \* administrators' goroutines that change it
  Values,     \* what it may be set to
  NoValue,    \* no key in Redis
  TTL,        \* settingCacheTTL, in ticks
  Patience,   \* bound: the ticks a read may take from its query to its fill
  Faults      \* may a call to Redis or PostgreSQL fail?

ASSUME CacheConstants ==
  /\ NoValue \notin Values
  /\ TTL \in Nat \ {0} /\ Patience \in Nat
  /\ Faults \in BOOLEAN

VARIABLES
  setting,   \* system_settings.value
  cached,    \* the Redis key, or NoValue
  left,      \* the ticks it has to live
  reading,   \* where each read is: idle, get, query, fill, got
  answer,    \* what it has read
  waited,    \* the ticks since its query
  writing,   \* where each write is: idle, del
  since,     \* history: the ticks since a value was in force, up to a cap
  firm,      \* history: the value acknowledged when a read began, if no
             \* write has overlapped it
  doubt      \* history: a write overlapped a fill, or lost its deletion

settingVars == <<setting, cached, left, reading, answer, waited, writing, since, firm, doubt>>

Cap == TTL + Patience + 1

\* Redis may have the setting from before.
SettingInit ==
  /\ setting \in Values
  /\ cached \in {NoValue, setting} /\ left = (IF cached = NoValue THEN 0 ELSE TTL)
  /\ reading = [r \in Readers |-> "idle"]
  /\ answer = [r \in Readers |-> NoValue]
  /\ waited = [r \in Readers |-> 0]
  /\ writing = [w \in Writers |-> "idle"]
  /\ since = [v \in Values |-> IF v = setting THEN 0 ELSE Cap]
  /\ firm = [r \in Readers |-> NoValue]
  /\ doubt = FALSE

-----------------------------------------------------------------------------
(* GetSetting. *)

BeginRead(r) ==
  /\ reading[r] = "idle"
  /\ reading' = [reading EXCEPT ![r] = "get"]
  /\ firm' = [firm EXCEPT ![r] = IF \A w \in Writers : writing[w] = "idle"
                                 THEN setting ELSE NoValue]
  /\ UNCHANGED <<setting, cached, left, answer, waited, writing, since, doubt>>

\* Mutated form: a hit renews the life of the key.
CacheHitRenewing(r) ==
  /\ reading[r] = "get" /\ cached # NoValue
  /\ answer' = [answer EXCEPT ![r] = cached]
  /\ reading' = [reading EXCEPT ![r] = "got"]
  /\ left' = TTL
  /\ UNCHANGED <<setting, cached, waited, writing, since, firm, doubt>>

CacheHit(r) ==
  /\ reading[r] = "get" /\ cached # NoValue
  /\ answer' = [answer EXCEPT ![r] = cached]
  /\ reading' = [reading EXCEPT ![r] = "got"]
  /\ UNCHANGED <<setting, cached, left, waited, writing, since, firm, doubt>>

\* On a miss, and on an error of Redis, the row is read.
CacheMiss(r) ==
  /\ reading[r] = "get" /\ (cached = NoValue \/ Faults)
  /\ reading' = [reading EXCEPT ![r] = "query"]
  /\ UNCHANGED <<setting, cached, left, answer, waited, writing, since, firm, doubt>>

QuerySetting(r) ==
  /\ reading[r] = "query"
  /\ answer' = [answer EXCEPT ![r] = setting]
  /\ waited' = [waited EXCEPT ![r] = 0]
  /\ reading' = [reading EXCEPT ![r] = "fill"]
  /\ UNCHANGED <<setting, cached, left, writing, since, firm, doubt>>

\* The query fails, and so does the read.
QueryFails(r) ==
  /\ Faults /\ reading[r] = "query"
  /\ reading' = [reading EXCEPT ![r] = "idle"]
  /\ UNCHANGED <<setting, cached, left, answer, waited, writing, since, firm, doubt>>

FillCache(r) ==
  /\ reading[r] = "fill"
  /\ cached' = answer[r] /\ left' = TTL
  /\ reading' = [reading EXCEPT ![r] = "got"]
  /\ UNCHANGED <<setting, answer, waited, writing, since, firm, doubt>>

FillFails(r) ==
  /\ Faults /\ reading[r] = "fill"
  /\ reading' = [reading EXCEPT ![r] = "got"]
  /\ UNCHANGED <<setting, cached, left, answer, waited, writing, since, firm, doubt>>

\* The caller has used the answer.
EndRead(r) ==
  /\ reading[r] = "got"
  /\ reading' = [reading EXCEPT ![r] = "idle"]
  /\ answer' = [answer EXCEPT ![r] = NoValue]
  /\ firm' = [firm EXCEPT ![r] = NoValue]
  /\ UNCHANGED <<setting, cached, left, waited, writing, since, doubt>>

-----------------------------------------------------------------------------
(* SetSettingAdmin; an upsert that fails changes nothing and is left out. *)

\* What the history makes of a write.
Replaced(v) ==
  /\ setting' = v
  /\ since' = [since EXCEPT ![v] = 0]
  /\ firm' = [r \in Readers |-> NoValue]
  /\ UNCHANGED <<cached, left, reading, answer, waited>>

Upsert(w, v) ==
  /\ writing[w] = "idle"
  /\ Replaced(v)
  /\ writing' = [writing EXCEPT ![w] = "del"]
  /\ doubt' = (doubt \/ \E r \in Readers : reading[r] = "fill")

\* The upsert has taken effect, but its connection is lost: the handler
\* answers 500 and leaves the key alone.
UpsertUnacked(w, v) ==
  /\ Faults /\ writing[w] = "idle"
  /\ Replaced(v)
  /\ doubt' = TRUE
  /\ UNCHANGED writing

\* Mutated form: the key is left to its own end.
InvalidateLater(w) ==
  /\ writing[w] = "del"
  /\ writing' = [writing EXCEPT ![w] = "idle"]
  /\ UNCHANGED <<setting, cached, left, reading, answer, waited, since, firm, doubt>>

\* The key is deleted; then the row is read back, for the answer.
Invalidate(w) ==
  /\ writing[w] = "del"
  /\ cached' = NoValue /\ left' = 0
  /\ writing' = [writing EXCEPT ![w] = "idle"]
  /\ UNCHANGED <<setting, reading, answer, waited, since, firm, doubt>>

\* The error is dropped.
InvalidateFails(w) ==
  /\ Faults /\ writing[w] = "del"
  /\ writing' = [writing EXCEPT ![w] = "idle"]
  /\ doubt' = TRUE
  /\ UNCHANGED <<setting, cached, left, reading, answer, waited, since, firm>>

-----------------------------------------------------------------------------
\* A tick of the clock: the key may reach the end of its life.
Tick ==
  /\ \A r \in Readers : reading[r] = "fill" => waited[r] < Patience
  /\ waited' = [r \in Readers |-> IF reading[r] = "fill" THEN waited[r] + 1 ELSE waited[r]]
  /\ left' = IF left > 0 THEN left - 1 ELSE 0
  /\ cached' = IF left > 1 THEN cached ELSE NoValue
  /\ since' = [v \in Values |-> IF v = setting \/ since[v] = Cap THEN since[v] ELSE since[v] + 1]
  /\ UNCHANGED <<setting, reading, answer, writing, firm, doubt>>

\* The process dies and starts again; Redis and PostgreSQL live on.
SettingCrash ==
  /\ reading' = [r \in Readers |-> "idle"] /\ answer' = [r \in Readers |-> NoValue]
  /\ firm' = [r \in Readers |-> NoValue]
  /\ writing' = [w \in Writers |-> "idle"]
  /\ doubt' = (doubt \/ \E w \in Writers : writing[w] = "del")
  /\ UNCHANGED <<setting, cached, left, waited, since>>

\* The steps of a read that GetSetting makes by itself.
ReadStep(r) ==
  \/ CacheHit(r) \/ CacheMiss(r) \/ QuerySetting(r) \/ QueryFails(r)
  \/ FillCache(r) \/ FillFails(r)

WriteStep(w) ==
  (\E v \in Values : Upsert(w, v) \/ UpsertUnacked(w, v)) \/ Invalidate(w) \/ InvalidateFails(w)

SettingNext ==
  \/ \E r \in Readers : BeginRead(r) \/ ReadStep(r) \/ EndRead(r)
  \/ \E w \in Writers : WriteStep(w)
  \/ Tick \/ SettingCrash

SettingSpec == SettingInit /\ [][SettingNext]_settingVars

-----------------------------------------------------------------------------
(* Properties. *)

SettingTypeOK ==
  /\ setting \in Values
  /\ cached \in Values \cup {NoValue} /\ left \in 0 .. TTL
  /\ reading \in [Readers -> {"idle", "get", "query", "fill", "got"}]
  /\ answer \in [Readers -> Values \cup {NoValue}]
  /\ waited \in [Readers -> 0 .. Patience]
  /\ writing \in [Writers -> {"idle", "del"}]
  /\ since \in [Values -> 0 .. Cap]
  /\ firm \in [Readers -> Values \cup {NoValue}]
  /\ doubt \in BOOLEAN

\* What a read returns was in force less than the life of the key, and of the
\* read that filled it, ago: no chain of fills and hits makes an old value last.
StaleIsBounded ==
  [][\A r \in Readers : reading[r] # "got" /\ reading'[r] = "got"
       => since[answer'[r]] <= TTL + Patience]_settingVars

\* A read that begins after a write was acknowledged, and that no write
\* overlaps, returns what was written, as long as no fill has overlapped a
\* write and no deletion of the key was lost.
FreshUnlessDoubted ==
  \A r \in Readers : reading[r] = "got" /\ firm[r] # NoValue /\ ~doubt => answer[r] = firm[r]

=============================================================================
