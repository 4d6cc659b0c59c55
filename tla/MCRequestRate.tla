--------------------------- MODULE MCRequestRate ---------------------------
(***************************************************************************)
(* RequestRate for TLC.  The handlers are interchangeable.                 *)
(*                                                                         *)
(* The clock starts when the key has lived for almost two minutes: the     *)
(* first request went through at 0 and gave the key its time to live; the  *)
(* pipelines of two more broke off between ZADD and EXPIRE, and so left    *)
(* members without renewing it.  RequestRate reaches this state; from here *)
(* TLC sees the key expire under pipelines in flight, and what a key that  *)
(* starts afresh does after that.                                          *)
(***************************************************************************)
EXTENDS RequestRate, TLC

Interchangeable == Permutations(Handlers)

BrokenOff == {Minute - 2, Minute + 2}

MCInit ==
  /\ clock = 2 * Minute - 2
  /\ stage = [h \in Handlers |-> "idle"]
  /\ now = [h \in Handlers |-> 0]
  /\ count = [h \in Handlers |-> 0]
  /\ zset = BrokenOff /\ expiry = 2 * Minute
  /\ attempts = [t \in Times |-> IF t \in {0} \cup BrokenOff THEN 1 ELSE 0]
  /\ admitted = [t \in Times |-> IF t = 0 THEN 1 ELSE 0]

MCSpec == MCInit /\ [][RateNext]_rateVars
=============================================================================
