---------------------------- MODULE FixedTierStub ----------------------------
(***************************************************************************)
(* The storage of one in-memory rung (src/src/tier/fixed_tier_stub.rs over *)
(* src/src/pool.rs): a fixed table of slots, probed linearly from the home *)
(* of the key, over a pool of values with a free list.  Every method runs  *)
(* under the lock of its shard, so each is one step; get and contains      *)
(* change nothing and are the operators Get and Found.                     *)
(*                                                                         *)
(* A key's fingerprint identifies it, so slots hold the key itself; its    *)
(* placement is Home[key].  A digest tells any two values apart, so a slot *)
(* holds the value that was written and the pool the value as it is now.   *)
(* The free list is a set: nothing depends on which free index is taken.   *)
(*                                                                         *)
(* The operators whose names end in Mutant are mutants of the one each     *)
(* precedes; nothing uses them.                                            *)
(***************************************************************************)
EXTENDS Naturals, FiniteSetsExt

CONSTANTS
  Keys,
  Versions,    \* the values of a key k are <<k, n>> for n in Versions
  Capacity,    \* number of slots, and of pool indices
  Home,        \* the placement of each key
  Garbage      \* what a damaged value reads as

ASSUME CapacityIsPositive == Capacity \in Nat \ {0}

ASSUME HomesAreNat == Home \in [Keys -> Nat]

ASSUME GarbageIsNoValue == Garbage \notin (Keys \X Versions) \cup {<<>>}

VARIABLES
  slots,      \* the slot table
  pool,       \* the values, by pool index
  free        \* the free pool indices

vars == <<slots, pool, free>>

Index == 0..(Capacity - 1)

ValuesOf(k) == {k} \X Versions

Value == Keys \X Versions

(* Tuples, so that they are comparable with every value.                   *)
NoValue == <<>>

Corrupted == <<Garbage>>

Empty == <<>>

Expiry == {"never", "armed", "elapsed"}

Slot == [key : Keys, digest : Value, idx : Index, expiry : Expiry]

Occupied(i) == slots[i] # Empty

Expired(i) == slots[i].expiry = "elapsed"

Live(i) == Occupied(i) /\ ~Expired(i)

-----------------------------------------------------------------------------
(* The slot at distance d of the home of a key.                            *)
Probe(k, d) == (Home[k] + d) % Capacity

(* Distances at which find_slot meets the key, and at which find_empty     *)
(* meets a slot it may write.                                              *)
Own(k) == {d \in Index : Occupied(Probe(k, d)) /\ slots[Probe(k, d)].key = k}

UsableMutant(k) == {d \in Index : \/ ~Occupied(Probe(k, d))
                                  \/ Home[slots[Probe(k, d)].key] = Home[k]
                                  \/ Expired(Probe(k, d))}

UsableIgnoresOwnMutant(k) == {d \in Index : ~Occupied(Probe(k, d)) \/ Expired(Probe(k, d))}

Usable(k) == {d \in Index : \/ ~Occupied(Probe(k, d))
                            \/ slots[Probe(k, d)].key = k
                            \/ Expired(Probe(k, d))}

Nearest(k, D) == Probe(k, Min(D))

(* find_slot: the first slot of the key, unless that one has expired.      *)
Found(k) == Own(k) # {} /\ ~Expired(Nearest(k, Own(k)))

FindSlot(k) == Nearest(k, Own(k))

GetUncheckedMutant(k) == IF Found(k) THEN pool[slots[FindSlot(k)].idx] ELSE NoValue

(* get: NoValue is a miss, Corrupted the error.                            *)
Get(k) ==
  LET s == slots[FindSlot(k)]
  IN  IF ~Found(k) \/ pool[s.idx] = NoValue THEN NoValue
      ELSE IF pool[s.idx] # s.digest THEN Corrupted
      ELSE pool[s.idx]

-----------------------------------------------------------------------------
InitOffByOneMutant ==
  /\ slots = [i \in Index |-> Empty]
  /\ pool = [x \in Index |-> NoValue]
  /\ free = 0..Capacity

Init ==
  /\ slots = [i \in Index |-> Empty]
  /\ pool = [x \in Index |-> NoValue]
  /\ free = Index

(* set, where find_empty finds a slot; a refused set changes nothing.  The *)
(* pool index of an occupied slot is used again.                           *)
Set(k, v, ttl) ==
  /\ Usable(k) # {}
  /\ LET i == Nearest(k, Usable(k))
         reuse == Occupied(i) /\ pool[slots[i].idx] # NoValue
     IN  \E x \in IF reuse THEN {slots[i].idx} ELSE free :
           /\ pool' = [pool EXCEPT ![x] = v]
           /\ free' = IF reuse THEN free ELSE free \ {x}
           /\ slots' = [slots EXCEPT ![i] = [key |-> k, digest |-> v, idx |-> x,
                                             expiry |-> IF ttl THEN "armed" ELSE "never"]]

FreedKeepsIndexMutant(i) ==
  /\ slots' = [slots EXCEPT ![i] = Empty]
  /\ pool' = [pool EXCEPT ![slots[i].idx] = NoValue]
  /\ UNCHANGED free

(* Taking a slot out and giving its pool index back.                       *)
Freed(i) ==
  /\ slots' = [slots EXCEPT ![i] = Empty]
  /\ pool' = [pool EXCEPT ![slots[i].idx] = NoValue]
  /\ free' = free \cup {slots[i].idx}

Remove(k) ==
  /\ Found(k)
  /\ Freed(FindSlot(k))

(* remove_if_address: the lowest slot of the key, expired or not.          *)
RemoveIfAddress(k) ==
  LET at == {i \in Index : Occupied(i) /\ slots[i].key = k}
  IN  /\ at # {}
      /\ Freed(Min(at))

(* Time, and damage done to a value behind the table's back (the crate's   *)
(* corrupt_stored_value_for_test).                                         *)
Elapse(i) ==
  /\ Occupied(i) /\ slots[i].expiry = "armed"
  /\ slots' = [slots EXCEPT ![i].expiry = "elapsed"]
  /\ UNCHANGED <<pool, free>>

Damage(k) ==
  /\ Found(k) /\ pool[slots[FindSlot(k)].idx] # NoValue
  /\ pool' = [pool EXCEPT ![slots[FindSlot(k)].idx] = Garbage]
  /\ UNCHANGED <<slots, free>>

StepOn(k) ==
  \/ \E v \in ValuesOf(k), ttl \in BOOLEAN : Set(k, v, ttl)
  \/ Remove(k) \/ RemoveIfAddress(k) \/ Damage(k)

Next ==
  \/ \E k \in Keys : StepOn(k)
  \/ \E i \in Index : Elapse(i)

Spec == Init /\ [][Next]_vars

-----------------------------------------------------------------------------
(* Type invariant of the table and the pool.                               *)
TypeOK ==
  /\ slots \in [Index -> Slot \cup {Empty}]
  /\ pool \in [Index -> Value \cup {NoValue, Garbage}]
  /\ free \subseteq Index

(* The pool is neither leaked nor shared: an index is free exactly when no *)
(* slot uses it, no two slots use one index, and a used index has a value. *)
(* set never fails for want of an index, and what remove gives back is     *)
(* nobody else's.                                                          *)
PoolAccounting ==
  /\ \A x \in Index : x \in free <=> ~\E i \in Index : Occupied(i) /\ slots[i].idx = x
  /\ \A i, j \in Index : Occupied(i) /\ Occupied(j) /\ slots[i].idx = slots[j].idx => i = j
  /\ \A i \in Index : Occupied(i) => pool[slots[i].idx] # NoValue

(* A read never answers with another key's value, nor with a damaged one:  *)
(* what keys that share a home, reused slots and reused pool indices could *)
(* bring about.                                                            *)
NoCrossKeyRead == \A k \in Keys : Get(k) \in ValuesOf(k) \cup {NoValue, Corrupted}

(* A write that was accepted is what the next read finds, although         *)
(* find_empty and find_slot walk the table by different rules.             *)
WriteIsRead ==
  [][\A k \in Keys : \A v \in ValuesOf(k) :
       Get(k)' # v => \A ttl \in BOOLEAN : ~Set(k, v, ttl)]_vars

(* A value that can be read stays as it is while other keys are written,   *)
(* removed and evicted, whatever holes and expired slots that leaves.      *)
OthersUndisturbed ==
  [][\A j \in Keys : Get(j) # NoValue /\ Get(j)' # Get(j) => \A k \in Keys \ {j} : ~StepOn(k)]_vars

(* tests/negative/main.rs:297 asserts of a key that was set and removed    *)
(* that get answers None.                                                  *)
RemovedIsGone == [][\A k \in Keys : Remove(k) => Get(k)' = NoValue]_vars

=============================================================================
