------------------------------- MODULE Ladder -------------------------------
(***************************************************************************)
(* The rungs as CacheManager sees them, for one key: what each bound rung  *)
(* holds, and the failure counters of the circuit breaker (TierRegistry in *)
(* src/src/tier/mod.rs).  A call of a rung is one step at the moment it    *)
(* takes effect; what the caller does with the answer is a later step.     *)
(*                                                                         *)
(* A refused write may have stored its value all the same, unless the      *)
(* error proves otherwise (manager.rs, write_provably_stored_nothing).     *)
(***************************************************************************)
EXTENDS ControlEntry

CONSTANTS
  Bound,             \* number of bound rungs: L0 .. L(Bound-1)
  MaxValues,         \* number of values ever written or fetched
  WriteErrors,       \* the errors the rungs may answer a set with
  ReadErrors,        \* the errors the rungs may answer a get or a remove with
  FailureThreshold   \* failures in a row that open a circuit (5 in the code)

ASSUME BoundIsRungs == Bound \in 1..7

ASSUME MaxValuesIsNat == MaxValues \in Nat

ASSUME ThresholdIsPositive == FailureThreshold \in Nat \ {0}

VARIABLES
  data,       \* the value of the key at each rung
  failures    \* consecutive failures of each rung, up to the threshold

ladderVars == <<data, failures>>

LastCacheRung == 5

CacheRung == 0..LastCacheRung

BoundRung == 0..(Bound - 1)

NoValue == 0

(* The record of truth on the authority rung.                              *)
Truth == MaxValues + 1

Value == 1..MaxValues

(* nearest_bound_rung, for a wanted cache rung; also where the walk of set *)
(* from the wanted rung first meets a bound one.                           *)
NearestBound(want) == IF want < Bound THEN want ELSE Bound - 1

ProvablyClean == {"SerializationFailed", "CapacityExhausted"}

IsCircuitOpen(r) == failures[r] >= FailureThreshold

(* record_outcome and record_read.                                         *)
RecordOk(r) == failures' = [failures EXCEPT ![r] = 0]

RecordErr(r, err) ==
  failures' = IF err = "TierUnavailable" /\ ~IsCircuitOpen(r)
              THEN [failures EXCEPT ![r] = @ + 1] ELSE failures

LadderInit ==
  /\ data = [r \in BoundRung |-> IF r = AuthorityRung THEN Truth ELSE NoValue]
  /\ failures = [r \in BoundRung |-> 0]

TierSet(r, v) == data' = [data EXCEPT ![r] = v] /\ RecordOk(r)

(* A set answered with an error: the value may be there or not.            *)
TierSetFails(r, v, err) ==
  /\ \/ data' = data
     \/ err \notin ProvablyClean /\ data' = [data EXCEPT ![r] = v]
  /\ RecordErr(r, err)

(* A removal nobody looks at the answer of: it may have failed.            *)
TierRemove(r) ==
  /\ data' \in {data, [data EXCEPT ![r] = NoValue]}
  /\ UNCHANGED failures

(* Expiry in the rung, eviction for another key, or a swapped backend.     *)
Lose(r) ==
  /\ r \in BoundRung \cap CacheRung /\ data[r] # NoValue
  /\ data' = [data EXCEPT ![r] = NoValue]
  /\ UNCHANGED failures

LadderTypeOK ==
  /\ data \in [BoundRung -> Value \cup {NoValue, Truth}]
  /\ failures \in [BoundRung -> 0..FailureThreshold]

=============================================================================
