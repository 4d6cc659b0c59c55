---------------------------- MODULE RequestRate ----------------------------
(***************************************************************************)
(* The requests-per-minute limit of one API key.                           *)
(*                                                                         *)
(* A request handler reads its clock, then sends four commands to Redis    *)
(* in a pipeline: remove what left the window, count, add itself, renew    *)
(* the key's time to live.  A pipeline is no transaction: the commands of  *)
(* two handlers may interleave.  The member a request adds is made of its  *)
(* millisecond alone, so the sorted set is a set of milliseconds.          *)
(*                                                                         *)
(* Time is counted in ticks.  MaxTime bounds the clock, MaxPerTick the     *)
(* requests that read the same time.                                       *)
(***************************************************************************)
EXTENDS Totals

CONSTANTS
  Handlers,     \* concurrent request handlers of the key
  Limit,        \* rate_limit_rpm or the default
  Minute,       \* ticks in a minute
  Patience,     \* ticks until the Redis client's timeouts end a pipeline
  RedisFaults,  \* may a pipeline fail?
  MaxTime,
  MaxPerTick

ASSUME RateConstants ==
  /\ IsFiniteSet(Handlers) /\ Handlers # {} /\ Limit \in Nat \ {0} /\ MaxTime \in Nat
  /\ Minute \in Nat /\ Patience \in Nat /\ Patience < Minute
  /\ RedisFaults \in BOOLEAN /\ MaxPerTick \in Nat

VARIABLES
  clock,
  stage,     \* idle, remove, count, add, expire, decide, rejecting
  now,       \* the time a handler read
  count,     \* what its ZCARD returned
  zset,      \* the milliseconds in the sorted set
  expiry,    \* when the key expires
  attempts,  \* history: requests added, by the time they read
  admitted   \* history: requests let through on a count, by the time they read

rateVars == <<clock, stage, now, count, zset, expiry, attempts, admitted>>

Times == 0..MaxTime

RateInit ==
  /\ clock = 0
  /\ stage = [h \in Handlers |-> "idle"]
  /\ now = [h \in Handlers |-> 0]
  /\ count = [h \in Handlers |-> 0]
  /\ zset = {} /\ expiry = 0
  /\ attempts = [t \in Times |-> 0]
  /\ admitted = [t \in Times |-> 0]

Adding == {"remove", "count", "add"}

To(h, label) == stage' = [stage EXCEPT ![h] = label]

\* The handler is through with the limit.
Finish(h) ==
  /\ To(h, "idle")
  /\ now' = [now EXCEPT ![h] = 0]
  /\ count' = [count EXCEPT ![h] = 0]

\* A request comes in and reads the clock.
ReadClock(h) ==
  /\ stage[h] = "idle"
  /\ attempts[clock] + Cardinality({g \in Handlers : stage[g] \in Adding /\ now[g] = clock})
       < MaxPerTick
  /\ now' = [now EXCEPT ![h] = clock]
  /\ To(h, "remove")
  /\ UNCHANGED <<clock, count, zset, expiry, attempts, admitted>>

\* Mutated form: the bound is exclusive, an entry one minute old stays.
RemoveExclusive(h) ==
  /\ stage[h] = "remove"
  /\ zset' = {t \in zset : t >= now[h] - Minute}
  /\ To(h, "count")
  /\ UNCHANGED <<clock, now, count, expiry, attempts, admitted>>

\* Mutated form: the window begins with the request's own millisecond.
RemoveAllOlder(h) ==
  /\ stage[h] = "remove"
  /\ zset' = {t \in zset : t >= now[h]}
  /\ To(h, "count")
  /\ UNCHANGED <<clock, now, count, expiry, attempts, admitted>>

\* ZREMRANGEBYSCORE -inf windowStart
RemoveExpired(h) ==
  /\ stage[h] = "remove"
  /\ zset' = {t \in zset : t > now[h] - Minute}
  /\ To(h, "count")
  /\ UNCHANGED <<clock, now, count, expiry, attempts, admitted>>

\* ZCARD
CountCurrent(h) ==
  /\ stage[h] = "count"
  /\ count' = [count EXCEPT ![h] = Cardinality(zset)]
  /\ To(h, "add")
  /\ UNCHANGED <<clock, now, zset, expiry, attempts, admitted>>

\* Mutated form: the score is rounded up.
AddRoundedUp(h) ==
  /\ stage[h] = "add"
  /\ zset' = zset \cup {now[h] + 1}
  /\ expiry' = IF zset = {} THEN MaxTime + 1 ELSE expiry
  /\ attempts' = [attempts EXCEPT ![now[h]] = @ + 1]
  /\ To(h, "expire")
  /\ UNCHANGED <<clock, now, count, admitted>>

\* ZADD: a member of the same millisecond is there already.
AddCurrent(h) ==
  /\ stage[h] = "add"
  /\ zset' = zset \cup {now[h]}
  /\ expiry' = IF zset = {} THEN MaxTime + 1 ELSE expiry
  /\ attempts' = [attempts EXCEPT ![now[h]] = @ + 1]
  /\ To(h, "expire")
  /\ UNCHANGED <<clock, now, count, admitted>>

\* EXPIRE key, two minutes.
Expire(h) ==
  /\ stage[h] = "expire"
  /\ expiry' = IF zset = {} THEN expiry ELSE clock + 2 * Minute
  /\ To(h, "decide")
  /\ UNCHANGED <<clock, now, count, zset, attempts, admitted>>

\* The pipeline returned a count below the limit.
Allow(h) ==
  /\ stage[h] = "decide" /\ count[h] < Limit
  /\ admitted' = [admitted EXCEPT ![now[h]] = @ + 1]
  /\ Finish(h)
  /\ UNCHANGED <<clock, zset, expiry, attempts>>

\* It returned the limit or more.
Reject(h) ==
  /\ stage[h] = "decide" /\ count[h] >= Limit
  /\ To(h, "rejecting")
  /\ UNCHANGED <<clock, now, count, zset, expiry, attempts, admitted>>

\* ZRANGE 0 0, to compute the Retry-After of the answer: an error is dropped.
AnswerRetryAfter(h) ==
  /\ stage[h] = "rejecting"
  /\ Finish(h)
  /\ UNCHANGED <<clock, zset, expiry, attempts, admitted>>

\* The pipeline fails after some of its commands: the request is let through.
FailOpen(h) ==
  /\ RedisFaults
  /\ stage[h] \in {"remove", "count", "add", "expire", "decide"}
  /\ Finish(h)
  /\ UNCHANGED <<clock, zset, expiry, attempts, admitted>>

\* Time goes on, but a pipeline ends in time; Redis drops the key
\* when its time is up.
Tick ==
  /\ clock < MaxTime
  /\ \A h \in Handlers : stage[h] # "idle" => clock < now[h] + Patience
  /\ clock' = clock + 1
  /\ zset' = IF zset # {} /\ expiry <= clock + 1 THEN {} ELSE zset
  /\ UNCHANGED <<stage, now, count, expiry, attempts, admitted>>

checkRPM(h) ==
  \/ ReadClock(h) \/ RemoveExpired(h) \/ CountCurrent(h) \/ AddCurrent(h) \/ Expire(h)
  \/ Allow(h) \/ Reject(h) \/ AnswerRetryAfter(h) \/ FailOpen(h)

RateNext == (\E h \in Handlers : checkRPM(h)) \/ Tick

RateSpec == RateInit /\ [][RateNext]_rateVars

-----------------------------------------------------------------------------
(* Properties. *)

RateTypeOK ==
  /\ clock \in Times
  /\ stage \in [Handlers -> {"idle", "remove", "count", "add", "expire", "decide", "rejecting"}]
  /\ now \in [Handlers -> Times]
  /\ count \in [Handlers -> Nat]
  /\ zset \subseteq 0..clock
  /\ expiry \in 0..(MaxTime + 2 * Minute + 1)
  /\ attempts \in [Times -> Nat]
  /\ admitted \in [Times -> Nat]

\* The minute that ends with t.
WindowOf(t) == {s \in Times : t - Minute < s /\ s <= t}

\* Interleaved pipelines let through more than the limit, but not without
\* bound: in no minute are there more milliseconds with an admission than the
\* limit, two for each further handler - one that counted before the others
\* added themselves, and one whose window a later request has cut short - and
\* one for each handler whose own entry went when the key's time was up, which
\* an add does not renew.
OverrunIsBounded ==
  \A t \in Times :
    Cardinality({s \in WindowOf(t) : admitted[s] > 0})
      <= Limit + 2 * (Cardinality(Handlers) - 1) + Cardinality(Handlers)

\* A request is rejected only if the minute before it, and what came in beside
\* it, had as many other requests as the limit, rejected ones included.
RejectedWhenBusy ==
  \A h \in Handlers :
    stage[h] = "rejecting" =>
      TotalOver({t \in Times : t > now[h] - Minute}, attempts) > Limit
=============================================================================
