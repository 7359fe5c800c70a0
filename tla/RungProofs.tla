----------------------------- MODULE RungProofs -----------------------------
(***************************************************************************)
(* Proofs about the tier stub, for every capacity, every set of keys and   *)
(* every placement of them, the placements that collide included, about    *)
(* its eviction cursor, about the sharded stub, for any keys, hashes and   *)
(* scanning tasks, and the backends, for any values, times to live and     *)
(* length of a second.                                                     *)
(***************************************************************************)
EXTENDS EvictionCursor, ShardedStub, Backends, FiniteSetTheorems, TLAPS

(* A leaf goes to Zenon unless it names another prover: most are first-    *)
(* order, and those with arithmetic or several updates of a record say SMT.*)
USE Zenon

(* set writes a value together with its digest, so what a slot promises is *)
(* a value of the slot's own key.                                          *)
DigestOfKey == \A i \in Index : Occupied(i) => slots[i].digest \in ValuesOf(slots[i].key)

Inv == TypeOK /\ PoolAccounting /\ DigestOfKey

-----------------------------------------------------------------------------
(* A nonempty set of naturals has a least element, and Min is it: the      *)
(* first distance at which a probe succeeds.                               *)
LEMMA MinIsLeast ==
  ASSUME NEW S \in SUBSET Nat, S # {}
  PROVE  Min(S) \in S /\ \A y \in S : Min(S) <= y
<1> DEFINE R == {ss \in Nat \X Nat : ss[1] < ss[2]}
<1>1. IsWellFoundedOn(R, Nat)
  BY NatLessThanWellFounded DEF OpToRel
<1>2. \A a, b \in Nat : a < b => <<a, b>> \in R
  OBVIOUS
<1> HIDE DEF R
<1>3. PICK x \in S : \A y \in S : ~(<<y, x>> \in R)
  BY <1>1, WFMin
<1>4. ASSUME NEW y \in S PROVE x <= y
  <2>1. x \in Nat /\ y \in Nat
    OBVIOUS
  <2>2. ~(<<y, x>> \in R)
    BY <1>3
  <2>3. ~(y < x)
    BY <1>2, <2>1, <2>2
  <2> QED BY <2>1, <2>3, SMT
<1>5. \E z \in S : \A y \in S : z <= y
  BY <1>4
<1> QED BY <1>5 DEF Min

(* Every slot a probe looks at is a slot of the table.                     *)
LEMMA ProbeInTable ==
  ASSUME NEW k \in Keys, NEW d \in Index
  PROVE  Probe(k, d) \in Index
BY CapacityIsPositive, HomesAreNat, SMT DEF Probe, Index

(* The slot a probe settles on: within the table, at the least distance.   *)
LEMMA NearestInTable ==
  ASSUME NEW k \in Keys, NEW D \in SUBSET Index, D # {}
  PROVE  /\ Min(D) \in D
         /\ \A d \in D : Min(D) <= d
         /\ Nearest(k, D) \in Index
<1>1. D \in SUBSET Nat
  BY CapacityIsPositive, SMT DEF Index
<1>2. Min(D) \in D /\ \A d \in D : Min(D) <= d
  BY <1>1, MinIsLeast
<1> QED BY <1>2, ProbeInTable DEF Nearest

(* Slots are records, so none of them is the empty slot.                   *)
LEMMA SlotsAreNotEmpty == \A s \in Slot : s # Empty
BY SMT DEF Slot, Empty

(* find_slot answers with an occupied slot of the key itself.              *)
LEMMA FindSlotIsOwn ==
  ASSUME NEW k \in Keys, Own(k) # {}
  PROVE  FindSlot(k) \in Index /\ Occupied(FindSlot(k)) /\ slots[FindSlot(k)].key = k
<1>1. Own(k) \in SUBSET Index
  BY DEF Own
<1>2. Min(Own(k)) \in Own(k) /\ Nearest(k, Own(k)) \in Index
  BY <1>1, NearestInTable
<1> QED BY <1>2 DEF Own, FindSlot, Nearest

-----------------------------------------------------------------------------
(* What an accepted set does: it writes one slot and one pool index.  The  *)
(* index is the slot's own if the slot was occupied, otherwise a free one. *)
LEMMA SetWritesOneSlot ==
  ASSUME Inv, NEW k \in Keys, NEW v \in ValuesOf(k), NEW ttl \in BOOLEAN, Set(k, v, ttl)
  PROVE  \E i \in Index, x \in Index, s \in Slot :
           /\ i = Nearest(k, Usable(k)) /\ Min(Usable(k)) \in Usable(k)
           /\ \A d \in Usable(k) : Min(Usable(k)) <= d
           /\ s.key = k /\ s.digest = v /\ s.idx = x /\ s.expiry # "elapsed"
           /\ slots' = [slots EXCEPT ![i] = s]
           /\ pool' = [pool EXCEPT ![x] = v]
           /\ \/ Occupied(i) /\ x = slots[i].idx /\ free' = free
              \/ ~Occupied(i) /\ x \in free /\ free' = free \ {x}
<1> DEFINE i == Nearest(k, Usable(k))
<1> DEFINE reuse == Occupied(i) /\ pool[slots[i].idx] # NoValue
<1> DEFINE s(x) == [key |-> k, digest |-> v, idx |-> x, expiry |-> IF ttl THEN "armed" ELSE "never"]
<1>1. Usable(k) \in SUBSET Index /\ Usable(k) # {}
  BY DEF Usable, Set
<1>2. i \in Index /\ Min(Usable(k)) \in Usable(k) /\ \A d \in Usable(k) : Min(Usable(k)) <= d
  BY <1>1, NearestInTable
<1>3. reuse <=> Occupied(i)
  BY <1>2 DEF Inv, PoolAccounting
<1>4. PICK x \in IF reuse THEN {slots[i].idx} ELSE free :
        /\ pool' = [pool EXCEPT ![x] = v]
        /\ free' = IF reuse THEN free ELSE free \ {x}
        /\ slots' = [slots EXCEPT ![i] = s(x)]
  BY DEF Set
<1>5. slots[i] \in Slot \cup {Empty} /\ free \subseteq Index
  BY <1>2 DEF Inv, TypeOK
<1>6. Occupied(i) => slots[i].idx \in Index
  BY <1>5 DEF Occupied, Slot
<1>7. x \in Index
  BY <1>3, <1>4, <1>5, <1>6
<1>8. s(x) \in Slot /\ s(x).key = k /\ s(x).digest = v /\ s(x).idx = x /\ s(x).expiry # "elapsed"
  BY <1>7 DEF Slot, ValuesOf, Value, Expiry
<1>9. \/ Occupied(i) /\ x = slots[i].idx /\ free' = free
      \/ ~Occupied(i) /\ x \in free /\ free' = free \ {x}
  BY <1>3, <1>4
<1> HIDE DEF i, s, reuse
<1> QED BY <1>2, <1>4, <1>7, <1>8, <1>9 DEF i

-----------------------------------------------------------------------------
(* No value of a key is the absence of one.                                *)
LEMMA ValuesAreValues ==
  ASSUME NEW k \in Keys, NEW v \in ValuesOf(k)
  PROVE  v \in Value /\ v # NoValue
<1>1. PICK n \in Versions : v = <<k, n>>
  BY SMT DEF ValuesOf
<1> QED BY <1>1 DEF Value, NoValue

(* Writing one slot and its pool index keeps the invariant.                *)
LEMMA WriteKeepsInv ==
  ASSUME Inv, NEW k \in Keys, NEW v \in ValuesOf(k),
         NEW i \in Index, NEW x \in Index, NEW s \in Slot,
         s.key = k, s.digest = v, s.idx = x,
         slots' = [slots EXCEPT ![i] = s],
         pool' = [pool EXCEPT ![x] = v],
         \/ Occupied(i) /\ x = slots[i].idx /\ free' = free
         \/ ~Occupied(i) /\ x \in free /\ free' = free \ {x}
  PROVE  Inv'
<1> USE DEF Inv
<1>1. TypeOK'
  BY ValuesAreValues DEF TypeOK
<1>2. slots'[i] = s /\ Occupied(i)' /\ \A j \in Index \ {i} : slots'[j] = slots[j]
  BY SlotsAreNotEmpty DEF TypeOK, Occupied
<1>3. \A j \in Index \ {i} : Occupied(j)' <=> Occupied(j)
  BY <1>2 DEF Occupied
<1>4. \A j \in Index \ {i} : Occupied(j) => slots[j].idx # x
  BY DEF PoolAccounting
<1>5. \A y \in Index \ {x} : y \in free' <=> y \in free
  OBVIOUS
<1>6. x \notin free'
  BY DEF PoolAccounting
<1>7. \A y \in Index : y \in free' <=> ~\E j \in Index : Occupied(j)' /\ slots'[j].idx = y
  <2> TAKE y \in Index
  <2>1. CASE y = x
    BY <1>2, <1>6, <2>1
  <2>2. CASE y # x
    <3>1. y \in free <=> ~\E j \in Index : Occupied(j) /\ slots[j].idx = y
      BY DEF PoolAccounting
    <3>2. \A j \in Index : Occupied(j)' /\ slots'[j].idx = y => Occupied(j) /\ slots[j].idx = y
      BY <1>2, <1>3, <2>2
    <3>3. \A j \in Index : Occupied(j) /\ slots[j].idx = y => Occupied(j)' /\ slots'[j].idx = y
      BY <1>2, <1>3, <2>2 DEF PoolAccounting
    <3> QED BY <1>5, <2>2, <3>1, <3>2, <3>3
  <2> QED BY <2>1, <2>2
<1>8. \A j, l \in Index : Occupied(j)' /\ Occupied(l)' /\ slots'[j].idx = slots'[l].idx => j = l
  BY <1>2, <1>3, <1>4, SMT DEF PoolAccounting
<1>9. \A j \in Index : Occupied(j)' => pool'[slots'[j].idx] # NoValue
  <2> SUFFICES ASSUME NEW j \in Index, Occupied(j)'
               PROVE  pool'[slots'[j].idx] # NoValue
    OBVIOUS
  <2>1. CASE j = i
    BY <1>2, <2>1, ValuesAreValues DEF TypeOK
  <2>2. CASE j # i
    <3>1. Occupied(j) /\ slots'[j] = slots[j] /\ slots[j].idx # x
      BY <1>2, <1>3, <1>4, <2>2
    <3>2. slots[j].idx \in Index
      BY <3>1 DEF TypeOK, Occupied, Slot
    <3> QED BY <3>1, <3>2 DEF TypeOK, PoolAccounting
  <2> QED BY <2>1, <2>2
<1>10. PoolAccounting'
  BY <1>7, <1>8, <1>9 DEF PoolAccounting
<1>11. DigestOfKey'
  BY <1>2, <1>3 DEF DigestOfKey
<1> QED BY <1>1, <1>10, <1>11

(* Taking a slot out and its pool index back keeps the invariant.          *)
LEMMA FreedKeepsInv ==
  ASSUME Inv, NEW i \in Index, Occupied(i), Freed(i)
  PROVE  Inv'
<1> USE DEF Inv
<1> DEFINE x == slots[i].idx
<1>1. x \in Index
  BY DEF TypeOK, Occupied, Slot
<1>2. TypeOK'
  BY <1>1 DEF TypeOK, Freed
<1>3. ~Occupied(i)' /\ \A j \in Index \ {i} : slots'[j] = slots[j]
  BY DEF TypeOK, Occupied, Freed
<1>4. \A j \in Index \ {i} : Occupied(j)' <=> Occupied(j)
  BY <1>3 DEF Occupied
<1>5. \A j \in Index \ {i} : Occupied(j) => slots[j].idx # x /\ slots[j].idx \in Index
  BY DEF PoolAccounting, TypeOK, Occupied, Slot
<1>6. \A y \in Index \ {x} : (y \in free' <=> y \in free) /\ pool'[y] = pool[y]
  BY DEF Freed, TypeOK
<1>7. x \in free'
  BY DEF Freed
<1> HIDE DEF x
<1>8. \A y \in Index : y \in free' <=> ~\E j \in Index : Occupied(j)' /\ slots'[j].idx = y
  <2> TAKE y \in Index
  <2>1. CASE y = x
    BY <1>3, <1>4, <1>5, <1>7, <2>1
  <2>2. CASE y # x
    <3>1. y \in free <=> ~\E j \in Index : Occupied(j) /\ slots[j].idx = y
      BY DEF PoolAccounting
    <3>2. \A j \in Index : Occupied(j)' /\ slots'[j].idx = y => Occupied(j) /\ slots[j].idx = y
      BY <1>3, <1>4
    <3>3. \A j \in Index : Occupied(j) /\ slots[j].idx = y => Occupied(j)' /\ slots'[j].idx = y
      BY <1>3, <1>4, <2>2 DEF x
    <3> QED BY <1>6, <2>2, <3>1, <3>2, <3>3
  <2> QED BY <2>1, <2>2
<1>9. \A j, l \in Index : Occupied(j)' /\ Occupied(l)' /\ slots'[j].idx = slots'[l].idx => j = l
  BY <1>3, <1>4, SMT DEF PoolAccounting
<1>10. \A j \in Index : Occupied(j)' => pool'[slots'[j].idx] # NoValue
  BY <1>3, <1>4, <1>5, <1>6, SMT DEF PoolAccounting
<1>11. PoolAccounting'
  BY <1>8, <1>9, <1>10 DEF PoolAccounting
<1>12. DigestOfKey'
  BY <1>3, <1>4 DEF DigestOfKey
<1> QED BY <1>2, <1>11, <1>12

(* Time passing for an entry changes nothing but its expiry.               *)
LEMMA ElapseKeepsInv ==
  ASSUME Inv, NEW i \in Index, Elapse(i)
  PROVE  Inv'
<1> USE DEF Inv
<1>1. slots[i] \in Slot
  BY DEF Elapse, TypeOK, Occupied
<1> DEFINE s == [slots[i] EXCEPT !.expiry = "elapsed"]
<1>2. s \in Slot /\ s.key = slots[i].key /\ s.digest = slots[i].digest /\ s.idx = slots[i].idx
  BY <1>1 DEF Slot, Expiry
<1>3. slots' = [slots EXCEPT ![i] = s] /\ pool' = pool /\ free' = free
  BY DEF Elapse
<1> HIDE DEF s
<1>4. TypeOK'
  BY <1>2, <1>3 DEF TypeOK
<1>5. \A j \in Index : Occupied(j)' <=> Occupied(j)
  BY <1>1, <1>2, <1>3, SlotsAreNotEmpty DEF TypeOK, Occupied
<1>6. \A j \in Index : slots'[j].idx = slots[j].idx
  BY <1>2, <1>3 DEF TypeOK
<1>7. \A j \in Index : slots'[j].key = slots[j].key /\ slots'[j].digest = slots[j].digest
  BY <1>2, <1>3 DEF TypeOK
<1>8. PoolAccounting'
  <2>1. \A y \in Index : y \in free' <=> ~\E j \in Index : Occupied(j)' /\ slots'[j].idx = y
    BY <1>3, <1>5, <1>6 DEF PoolAccounting
  <2>2. \A j, l \in Index : Occupied(j)' /\ Occupied(l)' /\ slots'[j].idx = slots'[l].idx => j = l
    BY <1>5, <1>6, SMT DEF PoolAccounting
  <2>3. \A j \in Index : Occupied(j)' => pool'[slots'[j].idx] # NoValue
    BY <1>3, <1>5, <1>6 DEF PoolAccounting
  <2> QED BY <2>1, <2>2, <2>3 DEF PoolAccounting
<1>9. DigestOfKey'
  <2>1. \A j \in Index : Occupied(j)' => slots'[j].digest \in ValuesOf(slots'[j].key)
    BY <1>5, <1>7 DEF DigestOfKey
  <2> QED BY <2>1 DEF DigestOfKey
<1> QED BY <1>4, <1>8, <1>9

(* A damaged value is still a value: the pool index stays in use.          *)
LEMMA DamageKeepsInv ==
  ASSUME Inv, NEW k \in Keys, Damage(k)
  PROVE  Inv'
<1> USE DEF Inv
<1>1. slots' = slots /\ free' = free
  BY DEF Damage
<1>2. TypeOK'
  BY DEF Damage, TypeOK
<1>3. \A y \in Index : pool[y] # NoValue => pool'[y] # NoValue
  BY GarbageIsNoValue DEF Damage, TypeOK, NoValue
<1>4. \A i \in Index : Occupied(i) => slots[i].idx \in Index
  BY DEF TypeOK, Occupied, Slot
<1>5. PoolAccounting'
  BY <1>1, <1>3, <1>4 DEF PoolAccounting, Occupied
<1>6. DigestOfKey'
  BY <1>1 DEF DigestOfKey, Occupied
<1> QED BY <1>2, <1>5, <1>6

-----------------------------------------------------------------------------
(* An operation on a key is a write of one slot, or frees one slot that    *)
(* holds the key, or damages the value of one.                             *)
LEMMA RemovalFreesOwnSlot ==
  ASSUME Inv, NEW k \in Keys, Remove(k) \/ RemoveIfAddress(k)
  PROVE  \E i \in Index : Occupied(i) /\ slots[i].key = k /\ Freed(i)
<1>1. CASE Remove(k)
  BY <1>1, FindSlotIsOwn DEF Remove, Found
<1>2. CASE RemoveIfAddress(k)
  <2> DEFINE at == {i \in Index : Occupied(i) /\ slots[i].key = k}
  <2>1. at \in SUBSET Index /\ at # {} /\ Freed(Min(at))
    BY <1>2 DEF RemoveIfAddress
  <2>2. Min(at) \in at
    BY <2>1, NearestInTable
  <2> QED BY <2>1, <2>2
<1> QED BY <1>1, <1>2

(* Every operation keeps the invariant.                                    *)
LEMMA StepOnKeepsInv ==
  ASSUME Inv, NEW k \in Keys, StepOn(k)
  PROVE  Inv'
<1>1. ASSUME NEW v \in ValuesOf(k), NEW ttl \in BOOLEAN, Set(k, v, ttl)
      PROVE  Inv'
  BY <1>1, SetWritesOneSlot, WriteKeepsInv, SMT
<1>2. CASE Remove(k) \/ RemoveIfAddress(k)
  BY <1>2, RemovalFreesOwnSlot, FreedKeepsInv
<1>3. CASE Damage(k)
  BY <1>3, DamageKeepsInv
<1> QED BY <1>1, <1>2, <1>3 DEF StepOn

(* The inductive invariant of the stub.                                    *)
THEOREM Invariance == Spec => []Inv
<1>1. Init => Inv
  BY DEF Init, Inv, TypeOK, PoolAccounting, DigestOfKey, Occupied
<1>2. Inv /\ [Next]_vars => Inv'
  <2> SUFFICES ASSUME Inv, [Next]_vars PROVE Inv'
    OBVIOUS
  <2>1. CASE UNCHANGED vars
    BY <2>1 DEF vars, Inv, TypeOK, PoolAccounting, DigestOfKey, Occupied
  <2>2. CASE Next
    BY <2>2, StepOnKeepsInv, ElapseKeepsInv DEF Next
  <2> QED BY <2>1, <2>2
<1> QED BY <1>1, <1>2, PTL DEF Spec

(* The slots and the pool keep their types.                                *)
THEOREM TypeCorrectness == Spec => []TypeOK
<1>1. Inv => TypeOK
  BY DEF Inv
<1> QED BY <1>1, Invariance, PTL

(* No pool index is lost and none has two users.                           *)
THEOREM PoolIsAccounted == Spec => []PoolAccounting
<1>1. Inv => PoolAccounting
  BY DEF Inv
<1> QED BY <1>1, Invariance, PTL

(* get never answers for another key, whatever shares the key's home.      *)
THEOREM ReadsAreOwn == Spec => []NoCrossKeyRead
<1>1. Inv => NoCrossKeyRead
  <2> SUFFICES ASSUME Inv, NEW k \in Keys, Found(k)
               PROVE  Get(k) \in ValuesOf(k) \cup {NoValue, Corrupted}
    BY DEF NoCrossKeyRead, Get
  <2>1. slots[FindSlot(k)].digest \in ValuesOf(k)
    BY FindSlotIsOwn DEF Inv, DigestOfKey, Found
  <2> QED BY <2>1 DEF Get
<1> QED BY <1>1, Invariance, PTL

-----------------------------------------------------------------------------
(* After a set, find_slot settles on the slot that find_empty chose.  No   *)
(* slot of the key lies nearer: it would have been a slot set may write.   *)
LEMMA SetIsFound ==
  ASSUME Inv, NEW k \in Keys, NEW v \in ValuesOf(k), NEW ttl \in BOOLEAN, Set(k, v, ttl)
  PROVE  Get(k)' = v
<1>1. PICK i \in Index, x \in Index, s \in Slot :
        /\ i = Nearest(k, Usable(k)) /\ Min(Usable(k)) \in Usable(k)
        /\ \A d \in Usable(k) : Min(Usable(k)) <= d
        /\ s.key = k /\ s.digest = v /\ s.idx = x /\ s.expiry # "elapsed"
        /\ slots' = [slots EXCEPT ![i] = s]
        /\ pool' = [pool EXCEPT ![x] = v]
  BY SetWritesOneSlot, SMT
<1> DEFINE m == Min(Usable(k))
           O == Own(k)'
<1>2. slots'[i] = s /\ \A j \in Index \ {i} : slots'[j] = slots[j]
  BY <1>1 DEF Inv, TypeOK
<1>3. m \in Index /\ Probe(k, m) = i
  BY <1>1 DEF Usable, Nearest
<1>4. m \in O
  BY <1>1, <1>2, <1>3, SlotsAreNotEmpty DEF Own, Occupied
<1>5. ASSUME NEW d \in O PROVE d \in Usable(k)
  <2>1. d \in Index /\ Probe(k, d) \in Index
    BY ProbeInTable DEF Own
  <2>2. CASE Probe(k, d) = i
    BY <1>1, <1>3, <2>1, <2>2 DEF Usable
  <2>3. CASE Probe(k, d) # i
    BY <1>2, <2>1, <2>3 DEF Own, Usable, Occupied
  <2> QED BY <2>2, <2>3
<1>6. O \in SUBSET Index /\ O # {}
  BY <1>4 DEF Own
<1>7. Min(O) \in O /\ Min(O) <= m
  BY <1>4, <1>6, NearestInTable
<1>8. Min(O) = m
  <2>1. m <= Min(O)
    BY <1>1, <1>5, <1>7
  <2>2. m \in Nat /\ Min(O) \in Nat
    BY <1>3, <1>6, <1>7, CapacityIsPositive, SMT DEF Index
  <2> QED BY <1>7, <2>1, <2>2, SMT
<1>9. FindSlot(k)' = i
  BY <1>3, <1>8 DEF FindSlot, Nearest, Probe
<1>10. Found(k)'
  BY <1>1, <1>2, <1>6, <1>9 DEF Found, FindSlot, Expired
<1>11. slots'[FindSlot(k)'].idx = x /\ slots'[FindSlot(k)'].digest = v /\ pool'[x] = v
  BY <1>1, <1>2, <1>9 DEF Inv, TypeOK
<1> QED BY <1>10, <1>11, ValuesAreValues DEF Get

(* A step that leaves alone the slot a key is found in and that slot's     *)
(* pool index, and gives the key no slot, leaves what get answers.         *)
LEMMA Untouched ==
  ASSUME Inv, NEW j \in Keys, Found(j),
         slots'[FindSlot(j)] = slots[FindSlot(j)],
         pool'[slots[FindSlot(j)].idx] = pool[slots[FindSlot(j)].idx],
         \A i \in Index : slots'[i] # slots[i] => slots'[i] = Empty \/ slots'[i].key # j
  PROVE  Get(j)' = Get(j)
<1> DEFINE O == Own(j)'
           m == Min(Own(j))
<1>1. Own(j) \in SUBSET Index /\ Own(j) # {}
  BY DEF Own, Found
<1>2. m \in Own(j) /\ \A d \in Own(j) : m <= d
  BY <1>1, NearestInTable
<1>3. O \subseteq Own(j)
  BY ProbeInTable DEF Own, Occupied
<1>4. m \in O
  BY <1>2 DEF Own, Occupied, FindSlot, Nearest
<1>5. Min(O) \in O /\ Min(O) <= m
  BY <1>1, <1>3, <1>4, NearestInTable
<1>6. Min(O) = m
  <2>1. m <= Min(O)
    BY <1>2, <1>3, <1>5
  <2>2. m \in Nat /\ Min(O) \in Nat
    BY <1>1, <1>2, <1>3, <1>5, CapacityIsPositive, SMT DEF Index
  <2> QED BY <1>5, <2>1, <2>2, SMT
<1>7. FindSlot(j)' = FindSlot(j)
  BY <1>6 DEF FindSlot, Nearest, Probe
<1>8. Found(j)'
  BY <1>4, <1>7 DEF Found, FindSlot, Expired
<1> QED BY <1>7, <1>8 DEF Get

(* Two slots in use have two pool indices, so an operation on one key      *)
(* leaves the readable value of another alone.                             *)
LEMMA StepOnLeavesOthers ==
  ASSUME Inv, NEW j \in Keys, NEW k \in Keys \ {j}, StepOn(k), Get(j) # NoValue
  PROVE  Get(j)' = Get(j)
<1> DEFINE a == FindSlot(j)
<1>1. Found(j)
  BY DEF Get
<1>2. a \in Index /\ Occupied(a) /\ slots[a].key = j /\ ~Expired(a)
  BY <1>1, FindSlotIsOwn DEF Found, FindSlot
<1>3. slots[a].idx \in Index
  BY <1>2 DEF Inv, TypeOK, Occupied, Slot
<1>4. \A i \in Index : Occupied(i) /\ i # a => slots[i].idx # slots[a].idx
  BY <1>2 DEF Inv, PoolAccounting
<1>5. slots[a].idx \notin free
  BY <1>2, <1>3 DEF Inv, PoolAccounting
<1> HIDE DEF a
<1>6. ASSUME NEW v \in ValuesOf(k), NEW ttl \in BOOLEAN, Set(k, v, ttl)
      PROVE  Get(j)' = Get(j)
  <2>1. PICK i \in Index, x \in Index, s \in Slot :
          /\ i = Nearest(k, Usable(k)) /\ Min(Usable(k)) \in Usable(k)
          /\ s.key = k
          /\ slots' = [slots EXCEPT ![i] = s]
          /\ pool' = [pool EXCEPT ![x] = v]
          /\ \/ Occupied(i) /\ x = slots[i].idx
             \/ ~Occupied(i) /\ x \in free
    BY <1>6, SetWritesOneSlot, SMT
  <2>2. i # a
    BY <1>2, <2>1 DEF Usable, Nearest
  <2>3. x # slots[a].idx
    BY <1>4, <1>5, <2>1, <2>2
  <2>4. slots'[a] = slots[a] /\ pool'[slots[a].idx] = pool[slots[a].idx]
    BY <1>2, <1>3, <2>1, <2>2, <2>3 DEF Inv, TypeOK
  <2>5. \A l \in Index : slots'[l] # slots[l] => slots'[l].key # j
    BY <2>1 DEF Inv, TypeOK
  <2> QED BY <1>1, <2>4, <2>5, Untouched DEF a
<1>7. CASE Remove(k) \/ RemoveIfAddress(k)
  <2>1. PICK i \in Index : Occupied(i) /\ slots[i].key = k /\ Freed(i)
    BY <1>7, RemovalFreesOwnSlot
  <2>2. i # a /\ slots[i].idx # slots[a].idx
    BY <1>2, <1>4, <2>1
  <2>3. slots'[a] = slots[a] /\ pool'[slots[a].idx] = pool[slots[a].idx]
    BY <1>2, <1>3, <2>1, <2>2 DEF Freed, Inv, TypeOK
  <2>4. \A l \in Index : slots'[l] # slots[l] => slots'[l] = Empty
    BY <2>1 DEF Freed, Inv, TypeOK
  <2> QED BY <1>1, <2>3, <2>4, Untouched DEF a
<1>8. CASE Damage(k)
  <2>1. FindSlot(k) \in Index /\ Occupied(FindSlot(k)) /\ slots[FindSlot(k)].key = k
    BY <1>8, FindSlotIsOwn DEF Damage, Found
  <2>2. slots[FindSlot(k)].idx # slots[a].idx
    BY <1>2, <1>4, <2>1
  <2>3. slots' = slots /\ pool'[slots[a].idx] = pool[slots[a].idx]
    BY <1>3, <1>8, <2>2 DEF Damage, Inv, TypeOK
  <2> QED BY <1>1, <2>3, Untouched DEF a
<1> QED BY <1>6, <1>7, <1>8 DEF StepOn

(* An accepted write is what the next read finds.                          *)
THEOREM WritesAreRead == Spec => WriteIsRead
<1> DEFINE A == \A k \in Keys : \A v \in ValuesOf(k) :
                  Get(k)' # v => \A ttl \in BOOLEAN : ~Set(k, v, ttl)
<1>1. Inv => A
  BY SetIsFound
<1> QED BY <1>1, Invariance, PTL DEF WriteIsRead

(* Work on one key never changes the readable value of another.            *)
THEOREM OthersAreUndisturbed == Spec => OthersUndisturbed
<1> DEFINE A == \A j \in Keys :
                  Get(j) # NoValue /\ Get(j)' # Get(j) => \A k \in Keys \ {j} : ~StepOn(k)
<1>1. Inv => A
  BY StepOnLeavesOthers
<1> QED BY <1>1, Invariance, PTL DEF OthersUndisturbed

-----------------------------------------------------------------------------
(* The probe of a key visits every slot of the table, wherever it starts.  *)
LEMMA ProbeReaches ==
  ASSUME NEW k \in Keys, NEW i \in Index
  PROVE  \E d \in Index : Probe(k, d) = i
<1> DEFINE q == Home[k] \div Capacity
           r == Home[k] % Capacity
           d == IF i >= r THEN i - r ELSE (i + Capacity) - r
<1>0. Capacity \in Nat \ {0} /\ Home[k] \in Nat
  BY CapacityIsPositive, HomesAreNat
<1>1. Home[k] = Capacity * q + r /\ r \in Nat /\ r < Capacity /\ q \in Nat
  BY <1>0, SMT
<1>2. i \in Nat /\ i < Capacity
  BY <1>0, SMT DEF Index
<1> HIDE DEF q, r
<1>3. d \in Index
  BY <1>0, <1>1, <1>2, SMT DEF Index
<1>4. \E p \in Nat : Home[k] + d = Capacity * p + i
  <2>1. CASE i >= r
    <3>1. Home[k] + d = Capacity * q + i
      BY <1>0, <1>1, <1>2, <2>1, SMT
    <3> QED BY <1>1, <3>1
  <2>2. CASE ~(i >= r)
    <3>1. Home[k] + d = Capacity * (q + 1) + i /\ q + 1 \in Nat
      BY <1>0, <1>1, <1>2, <2>2, SMT
    <3> QED BY <3>1
  <2> QED BY <2>1, <2>2
<1> HIDE DEF d
<1>5. (Home[k] + d) % Capacity = i
  BY <1>0, <1>2, <1>4, SMT
<1> QED BY <1>3, <1>5 DEF Probe

(* A slot that is empty leaves an index free: the slots in use use an      *)
(* index each, and there are as many indices as slots.                     *)
LEMMA EmptySlotLeavesAnIndex ==
  ASSUME Inv, NEW i \in Index, ~Occupied(i)
  PROVE  free # {}
<1> SUFFICES ASSUME free = {} PROVE FALSE
  OBVIOUS
<1> DEFINE Uses(x, j) == Occupied(j) /\ slots[j].idx = x
           f == [x \in Index |-> CHOOSE j \in Index : Uses(x, j)]
<1>1. \A x \in Index : \E j \in Index : Uses(x, j)
  BY DEF Inv, PoolAccounting
<1>2. \A x \in Index : f[x] \in Index /\ Uses(x, f[x])
  BY <1>1
<1> HIDE DEF f
<1>3. \A x \in Index : f[x] \in Index \ {i}
  BY <1>2
<1>4. \A x, y \in Index : f[x] = f[y] => x = y
  BY <1>2
<1>5. f \in [Index -> Index \ {i}]
  BY <1>3 DEF f
<1>6. IsFiniteSet(Index) /\ Cardinality(Index) = Capacity
  <2>1. 0 \in Int /\ Capacity - 1 \in Int /\ ~(0 > Capacity - 1) /\ (Capacity - 1) - 0 + 1 = Capacity
    BY CapacityIsPositive, SMT
  <2> QED BY <2>1, FS_Interval DEF Index
<1>7. IsFiniteSet(Index \ {i}) /\ Cardinality(Index \ {i}) = Capacity - 1
  BY <1>6, FS_RemoveElement
<1>8. Cardinality(Index \ {i}) < Cardinality(Index)
  BY <1>6, <1>7, CapacityIsPositive, SMT
<1>9. \E x, y \in Index : x # y /\ f[x] = f[y]
  BY <1>5, <1>6, <1>7, <1>8, FS_PigeonHole
<1> QED BY <1>4, <1>9

(* set has a slot to write and a pool index for it, unless every slot      *)
(* holds a live entry of another key.                                      *)
OnlyFullRefuses ==
  \A k \in Keys :
    \/ \A i \in Index : Live(i) /\ slots[i].key # k
    \/ /\ Usable(k) # {}
       /\ LET i == Nearest(k, Usable(k))
          IN  free # {} \/ (Occupied(i) /\ pool[slots[i].idx] # NoValue)

(* set answers CapacityExhausted only when the table is full of other      *)
(* keys' live entries, and never the ConfigurationError of a pool without  *)
(* a free index, whatever was set, removed, evicted and expired before.    *)
THEOREM SetsAreRefusedOnlyWhenFull == Spec => []OnlyFullRefuses
<1>1. Inv => OnlyFullRefuses
  <2> SUFFICES ASSUME Inv, NEW k \in Keys
               PROVE  \/ \A i \in Index : Live(i) /\ slots[i].key # k
                      \/ /\ Usable(k) # {}
                         /\ LET i == Nearest(k, Usable(k))
                            IN  free # {} \/ (Occupied(i) /\ pool[slots[i].idx] # NoValue)
    BY DEF OnlyFullRefuses
  <2>1. CASE Usable(k) = {}
    <3>1. \A d \in Index : Live(Probe(k, d)) /\ slots[Probe(k, d)].key # k
      BY <2>1 DEF Usable, Live
    <3> QED BY <3>1, ProbeReaches
  <2>2. CASE Usable(k) # {}
    <3> DEFINE i == Nearest(k, Usable(k))
    <3>1. Usable(k) \in SUBSET Index
      BY DEF Usable
    <3>2. i \in Index
      BY <2>2, <3>1, NearestInTable
    <3>3. Occupied(i) => pool[slots[i].idx] # NoValue
      BY <3>2 DEF Inv, PoolAccounting
    <3>4. ~Occupied(i) => free # {}
      BY <3>2, EmptySlotLeavesAnIndex
    <3> QED BY <2>2, <3>3, <3>4
  <2> QED BY <2>1, <2>2
<1> QED BY <1>1, Invariance, PTL

-----------------------------------------------------------------------------
(* The eviction cursor.                                                    *)

(* The slots that eviction_candidate scans before it comes to slot i.      *)
Ahead(i) == IF i >= cursor THEN i - cursor ELSE (i + Capacity) - cursor

(* The cursor is a slot of the table.                                      *)
CursorOK == cursor \in Index

(* The remainder of a number less than twice the capacity.                 *)
LEMMA WrapsOnce ==
  ASSUME NEW a \in Nat, a < Capacity + Capacity
  PROVE  /\ a < Capacity => a % Capacity = a
         /\ a >= Capacity => a % Capacity = a - Capacity
         /\ a % Capacity \in Index
<1>0. Capacity \in Nat \ {0}
  BY CapacityIsPositive
<1>1. a < Capacity => a % Capacity = a
  BY <1>0, SMT
<1>2. a >= Capacity => a % Capacity = a - Capacity
  BY <1>0, SMT
<1>3. a % Capacity \in Index
  BY <1>0, <1>1, <1>2, SMT DEF Index
<1> QED BY <1>1, <1>2, <1>3

(* A scan from the cursor meets slot i after the slots ahead of it.        *)
LEMMA ScanReaches ==
  ASSUME CursorOK, NEW i \in Index
  PROVE  Ahead(i) \in Index /\ (cursor + Ahead(i)) % Capacity = i
<1>0. Capacity \in Nat \ {0} /\ cursor \in Nat /\ cursor < Capacity /\ i \in Nat /\ i < Capacity
  BY CapacityIsPositive, SMT DEF CursorOK, Index
<1>1. Ahead(i) \in Nat /\ Ahead(i) < Capacity
  BY <1>0, SMT DEF Ahead
<1>2. cursor + Ahead(i) = i \/ cursor + Ahead(i) = i + Capacity
  BY <1>0, SMT DEF Ahead
<1>3. cursor + Ahead(i) \in Nat /\ cursor + Ahead(i) < Capacity + Capacity
  BY <1>0, <1>1, SMT
<1>4. Ahead(i) \in Index
  BY <1>0, <1>1, SMT DEF Index
<1> QED BY <1>0, <1>2, <1>3, <1>4, WrapsOnce, SMT

(* What eviction_candidate does while some entry is live: it nominates     *)
(* the first live slot, at distance m, and the cursor goes just past it.   *)
LEMMA CandidateIsNearest ==
  ASSUME CursorOK, NEW i \in Index, Live(i), EvictionCandidate
  PROVE  \E m \in Nat : /\ m <= Ahead(i)
                        /\ nominated' = {slots[(cursor + m) % Capacity].key}
                        /\ cursor' = (((cursor + m) % Capacity) + 1) % Capacity
<1> DEFINE live == {d \in Index : Live((cursor + d) % Capacity)}
           m == Min(live)
<1>1. Ahead(i) \in live
  BY ScanReaches
<1>2. live \in SUBSET Nat
  BY CapacityIsPositive, SMT DEF Index
<1>3. m \in live /\ m <= Ahead(i)
  BY <1>1, <1>2, MinIsLeast
<1>4. live # {}
  BY <1>1
<1>5. /\ nominated' = {slots[(cursor + m) % Capacity].key}
      /\ cursor' = (((cursor + m) % Capacity) + 1) % Capacity
  BY <1>4 DEF EvictionCandidate
<1> HIDE DEF live, m
<1>6. m \in Nat
  BY <1>2, <1>3
<1> QED BY <1>3, <1>5, <1>6

(* The cursor stays a slot of the table.                                   *)
LEMMA CursorStays == CursorOK /\ [CursorNext]_cursorVars => CursorOK'
<1> SUFFICES ASSUME CursorOK, [CursorNext]_cursorVars PROVE cursor' \in Index
  BY DEF CursorOK
<1>0. Capacity \in Nat \ {0} /\ cursor \in Nat /\ cursor + 1 \in Nat /\ cursor + 1 < Capacity + Capacity
  BY CapacityIsPositive, SMT DEF CursorOK, Index
<1>1. CASE EvictionCandidate
  <2>1. CASE \E i \in Index : Live(i)
    <3>1. PICK m \in Nat : cursor' = (((cursor + m) % Capacity) + 1) % Capacity
      BY <1>1, <2>1, CandidateIsNearest
    <3>2. cursor' \in 0..Capacity - 1
      BY <1>0, <3>1, SMT
    <3> QED BY <3>2 DEF Index
  <2>2. CASE ~\E i \in Index : Live(i)
    <3>1. \A d \in Index : (cursor + d) % Capacity \in Index
      BY <1>0, SMT DEF Index
    <3>2. {d \in Index : Live((cursor + d) % Capacity)} = {}
      BY <2>2, <3>1
    <3>3. cursor' = (cursor + 1) % Capacity
      BY <1>1, <3>2 DEF EvictionCandidate
    <3> QED BY <1>0, <3>3, WrapsOnce
  <2> QED BY <2>1, <2>2
<1>2. CASE cursor' = cursor
  BY <1>2 DEF CursorOK
<1> QED BY <1>1, <1>2 DEF CursorNext, cursorVars

(* A request for a candidate nominates a live entry or comes nearer to it, *)
(* and nothing else moves the cursor.                                      *)
NominationsComeNearer ==
  [][\A i \in Index : Live(i) =>
       \/ nominated' = {slots[i].key}
       \/ Ahead(i)' \in Nat /\ Ahead(i)' < Ahead(i)
       \/ ~EvictionCandidate /\ Ahead(i)' = Ahead(i)]_cursorVars

(* eviction_candidate is round-robin over the table: while an entry stays  *)
(* live, each request passes over fewer slots ahead of it until it is the  *)
(* one nominated.  So it is nominated within Capacity requests, whatever   *)
(* is written, removed or expires between them: the safety half of         *)
(* EvictionGoesRound, with a bound.                                        *)
THEOREM EvictionIsRoundRobin == CursorSpec => NominationsComeNearer
<1>1. CursorInit => CursorOK
  BY CapacityIsPositive, SMT DEF CursorInit, CursorOK, Index
<1>2. ASSUME CursorOK, [CursorNext]_cursorVars, NEW i \in Index, Live(i)
      PROVE  \/ nominated' = {slots[i].key}
             \/ Ahead(i)' \in Nat /\ Ahead(i)' < Ahead(i)
             \/ ~EvictionCandidate /\ Ahead(i)' = Ahead(i)
  <2>0. /\ Capacity \in Nat \ {0} /\ cursor \in Nat /\ cursor < Capacity
        /\ i \in Nat /\ i < Capacity
    BY <1>2, CapacityIsPositive, SMT DEF CursorOK, Index
  <2>1. CASE EvictionCandidate
    <3>1. PICK m \in Nat : /\ m <= Ahead(i)
                           /\ nominated' = {slots[(cursor + m) % Capacity].key}
                           /\ cursor' = (((cursor + m) % Capacity) + 1) % Capacity
      BY <1>2, <2>1, CandidateIsNearest
    <3>2. Ahead(i) \in Index /\ (cursor + Ahead(i)) % Capacity = i
      BY <1>2, ScanReaches
    <3>3. CASE m = Ahead(i)
      BY <3>1, <3>2, <3>3
    <3>4. CASE m # Ahead(i)
      <4>1. Ahead(i) \in Nat /\ Ahead(i) < Capacity
        BY <2>0, <3>2, SMT DEF Index
      <4>2. m < Ahead(i) /\ m + 1 < Capacity
        BY <3>1, <3>4, <4>1, <2>0, SMT
      <4> DEFINE c == (cursor + m) % Capacity
      <4>3. /\ cursor + m < Capacity => c = cursor + m
            /\ cursor + m >= Capacity => c = cursor + m - Capacity
        BY <2>0, <4>2, WrapsOnce, SMT
      <4>4. c \in Nat /\ c < Capacity
        BY <2>0, <4>2, <4>3, SMT
      <4> HIDE DEF c
      <4>5. /\ c + 1 < Capacity => cursor' = c + 1
            /\ c + 1 >= Capacity => cursor' = 0
        <5>1. cursor' = (c + 1) % Capacity
          BY <3>1 DEF c
        <5>2. c + 1 < Capacity => (c + 1) % Capacity = c + 1
          BY <2>0, <4>4, WrapsOnce, SMT
        <5>3. c + 1 >= Capacity => (c + 1) % Capacity = 0
          BY <2>0, <4>4, WrapsOnce, SMT
        <5> QED BY <5>1, <5>2, <5>3
      <4>6. Ahead(i)' = Ahead(i) - (m + 1)
        BY <2>0, <4>1, <4>2, <4>3, <4>4, <4>5, SMT DEF Ahead
      <4> QED BY <3>1, <4>1, <4>2, <4>6, SMT
    <3> QED BY <3>3, <3>4
  <2>2. CASE ~EvictionCandidate
    <3>1. cursor' = cursor
      BY <1>2, <2>2 DEF CursorNext, cursorVars
    <3> QED BY <2>2, <3>1 DEF Ahead
  <2> QED BY <2>1, <2>2
<1>3. CursorOK /\ [CursorNext]_cursorVars =>
        [\A i \in Index : Live(i) =>
           \/ nominated' = {slots[i].key}
           \/ Ahead(i)' \in Nat /\ Ahead(i)' < Ahead(i)
           \/ ~EvictionCandidate /\ Ahead(i)' = Ahead(i)]_cursorVars
  BY <1>2
<1> QED BY <1>1, <1>3, CursorStays, PTL DEF CursorSpec, NominationsComeNearer

-----------------------------------------------------------------------------
(* The sharded stub: a scan of the shards, one lock at a time.             *)

(* with_shards: there is at least one shard.                               *)
LEMMA ShardsArePositive == Shards \in Nat \ {0}
<1> DEFINE m == IF RequestedShards = 0 THEN 1 ELSE RequestedShards
<1>1. m \in 1..1024
  BY ShardsAreBounded, SMT
<1> HIDE DEF m
<1>2. \E p \in PowerOfTwo : p >= m /\ \A q \in PowerOfTwo : q >= m => p <= q
  BY <1>1, SMT DEF PowerOfTwo
<1>3. NextPowerOfTwo(m) \in PowerOfTwo
  BY <1>2 DEF NextPowerOfTwo
<1> QED BY <1>3, SMT DEF Shards, PowerOfTwo, m

(* The shards of the tier stub.                                            *)
Shard == 0..(Shards - 1)

(* A hash modulo the number of shards is a shard.                          *)
LEMMA RemainderIsShard ==
  ASSUME NEW h \in Nat
  PROVE  h % Shards \in Shard
BY ShardsArePositive, SMT DEF Shard

(* Every key is placed in a shard.                                         *)
LEMMA KeysHaveShards == \A k \in StubKeys : StubShard(k) \in Shard
BY HashesAreNat, RemainderIsShard DEF StubShard

(* A walk of Shards steps from any start visits every shard.               *)
LEMMA WalkVisitsAll ==
  ASSUME NEW start \in Shard, NEW i \in Shard
  PROVE  \E j \in Shard : (start + j) % Shards = i
<1>1. PICK n \in Nat \ {0} : n = Shards
  BY ShardsArePositive
<1>2. start \in 0..(n - 1) /\ i \in 0..(n - 1)
  BY <1>1 DEF Shard
<1>3. i % n = i
  BY <1>1, <1>2, SMT
<1>4. (n + i) % n = i
  BY <1>1, <1>2, SMT
<1>5. CASE i >= start
  <2>1. i - start \in 0..(n - 1) /\ start + (i - start) = i
    BY <1>2, <1>5, SMT
  <2> QED BY <1>1, <1>3, <2>1 DEF Shard
<1>6. CASE i < start
  <2>1. n + i - start \in 0..(n - 1) /\ start + (n + i - start) = n + i
    BY <1>2, <1>6, SMT
  <2> QED BY <1>1, <1>4, <2>1 DEF Shard
<1> QED BY <1>2, <1>5, <1>6, SMT

-----------------------------------------------------------------------------
(* The scans there can be: none, one for a victim and one for a key.       *)
ScanRecord ==
  {NoScan} \cup {Nominating(start, seen) : start \in Shard, seen \in 0..Shards}
           \cup {Removing(k, seen) : k \in StubKeys, seen \in 0..Shards}

(* The types of the sharded stub.                                          *)
ScansTyped ==
  /\ held \subseteq StubKeys
  /\ shared \in Shard
  /\ scan \in [Askers -> ScanRecord]
  /\ stayed \in [Askers -> SUBSET StubKeys]

(* What stayed can be found, and no shard already visited has what the     *)
(* scan is for.                                                            *)
StayedOK(a) ==
  /\ stayed[a] \subseteq Reachable
  /\ scan[a] # NoScan =>
       \A j \in 0..(scan[a].seen - 1) : \A k \in stayed[a] :
         StubShard(k) = (scan[a].start + j) % Shards => scan[a].for \notin {Victim, k}

(* The inductive invariant of the scans.                                   *)
ScansOK == ScansTyped /\ \A a \in Askers : StayedOK(a)

(* A scan one shard further.                                               *)
Further(s) == [s EXCEPT !.seen = @ + 1]

(* The fields of a scan of eviction_candidate.                             *)
LEMMA NominatingIs ==
  ASSUME NEW start \in Shard, NEW seen \in 0..Shards
  PROVE  LET s == Nominating(start, seen)
         IN  /\ s \in ScanRecord /\ s # NoScan
             /\ s.for = Victim /\ s.start = start /\ s.seen = seen
             /\ Further(s) = Nominating(start, seen + 1)
<1> DEFINE s == Nominating(start, seen)
<1>1. s.for = Victim /\ s.start = start /\ s.seen = seen
  BY DEF Nominating
<1>2. s # NoScan
  BY <1>1, SMT DEF NoScan, Nothing, Victim
<1>3. s \in ScanRecord
  BY SMT DEF ScanRecord
<1>4. Further(s) = Nominating(start, seen + 1)
  BY SMT DEF Nominating, Further
<1> QED BY <1>1, <1>2, <1>3, <1>4

(* The fields of a scan of remove_if_address.                              *)
LEMMA RemovingIs ==
  ASSUME NEW k \in StubKeys, NEW seen \in 0..Shards
  PROVE  LET s == Removing(k, seen)
         IN  /\ s \in ScanRecord /\ s # NoScan
             /\ s.for = k /\ s.start = 0 /\ s.seen = seen
             /\ Further(s) = Removing(k, seen + 1)
<1> DEFINE s == Removing(k, seen)
<1>1. s.for = k /\ s.start = 0 /\ s.seen = seen
  BY DEF Removing
<1>2. s # NoScan
  <2>1. NoScan.for = Nothing
    BY DEF NoScan
  <2>2. k # Nothing
    BY KeysAreKeys
  <2> QED BY <1>1, <2>1, <2>2
<1>3. s \in ScanRecord
  BY SMT DEF ScanRecord
<1>4. Further(s) = Removing(k, seen + 1)
  BY SMT DEF Removing, Further
<1> QED BY <1>1, <1>2, <1>3, <1>4

(* A scan under way, and what one more shard makes of it.                  *)
LEMMA ScanIs ==
  ASSUME NEW s \in ScanRecord, s # NoScan
  PROVE  /\ s.start \in Shard /\ s.seen \in 0..Shards
         /\ s.for \in StubKeys \cup {Victim}
         /\ s.seen < Shards => /\ Further(s) \in ScanRecord /\ Further(s) # NoScan
                               /\ Further(s).for = s.for /\ Further(s).start = s.start
                               /\ Further(s).seen = s.seen + 1
<1>1. CASE \E start \in Shard, seen \in 0..Shards : s = Nominating(start, seen)
  <2>1. PICK start \in Shard, seen \in 0..Shards : s = Nominating(start, seen)
    BY <1>1
  <2>2. s.for = Victim /\ s.start = start /\ s.seen = seen
    BY <2>1, NominatingIs
  <2>3. CASE seen < Shards
    <3>1. seen + 1 \in 0..Shards
      BY <2>3, ShardsArePositive, SMT
    <3>2. Further(s) = Nominating(start, seen + 1)
      BY <2>1, NominatingIs
    <3> QED BY <2>2, <3>1, <3>2, NominatingIs, SMT
  <2> QED BY <2>2, <2>3
<1>2. CASE \E k \in StubKeys, seen \in 0..Shards : s = Removing(k, seen)
  <2>1. PICK k \in StubKeys, seen \in 0..Shards : s = Removing(k, seen)
    BY <1>2
  <2>2. s.for = k /\ s.start = 0 /\ s.seen = seen
    BY <2>1, RemovingIs
  <2>3. 0 \in Shard
    BY ShardsArePositive, SMT DEF Shard
  <2>4. CASE seen < Shards
    <3>1. seen + 1 \in 0..Shards
      BY <2>4, ShardsArePositive, SMT
    <3>2. Further(s) = Removing(k, seen + 1)
      BY <2>1, RemovingIs
    <3> QED BY <2>2, <2>3, <3>1, <3>2, RemovingIs, SMT
  <2> QED BY <2>2, <2>3, <2>4
<1> QED BY <1>1, <1>2, SMT DEF ScanRecord

-----------------------------------------------------------------------------
(* A scan that begins has visited nothing.                                 *)
LEMMA BeginningScan ==
  ASSUME ScansOK, NEW a \in Askers, NEW s \in ScanRecord, s # NoScan, s.seen = 0,
         scan' = [scan EXCEPT ![a] = s], stayed' = [stayed EXCEPT ![a] = Reachable],
         UNCHANGED <<held, poisoned>>, shared' \in Shard
  PROVE  ScansOK'
<1>1. ScansTyped'
  BY DEF ScansOK, ScansTyped, Reachable
<1>2. Reachable' = Reachable
  BY DEF Reachable, InShard
<1>3. ASSUME NEW b \in Askers PROVE StayedOK(b)'
  <2>1. CASE b = a
    BY <1>2, <2>1, SMT DEF StayedOK, ScansOK, ScansTyped
  <2>2. CASE b # a
    BY <1>2, <2>2, SMT DEF StayedOK, ScansOK, ScansTyped
  <2> QED BY <2>1, <2>2
<1> QED BY <1>1, <1>3 DEF ScansOK

(* A scan that ends has nothing left to be right about, and what leaves    *)
(* the rung has not stayed.                                                *)
LEMMA EndingScan ==
  ASSUME ScansOK, NEW a \in Askers, NEW gone,
         scan' = [scan EXCEPT ![a] = NoScan], held' = held \ gone,
         stayed' = [b \in Askers |-> IF b = a THEN {} ELSE stayed[b] \ gone],
         UNCHANGED <<poisoned, shared>>
  PROVE  ScansOK'
<1>0. NoScan \in ScanRecord
  BY SMT DEF ScanRecord
<1>1. ScansTyped'
  BY <1>0 DEF ScansOK, ScansTyped
<1>2. Reachable' = Reachable \ gone
  BY DEF Reachable
<1>3. ASSUME NEW b \in Askers PROVE StayedOK(b)'
  <2>1. CASE b = a
    BY <2>1 DEF StayedOK, ScansOK, ScansTyped
  <2>2. CASE b # a
    BY <1>2, <2>2 DEF StayedOK, ScansOK, ScansTyped
  <2> QED BY <2>1, <2>2
<1> QED BY <1>1, <1>3 DEF ScansOK

(* Whatever leaves, what is left of stayed is still there.                 *)
LEMMA LeavingKeeps ==
  ASSUME ScansOK, NEW gone, Leaves(gone), UNCHANGED <<scan, shared>>,
         held' \subseteq StubKeys, Reachable' = Reachable \ gone
  PROVE  ScansOK'
<1>1. ScansTyped'
  BY DEF ScansOK, ScansTyped, Leaves
<1>2. ASSUME NEW b \in Askers PROVE StayedOK(b)'
  BY DEF StayedOK, ScansOK, ScansTyped, Leaves
<1> QED BY <1>1, <1>2 DEF ScansOK

(* A shard without what is sought is visited.                              *)
LEMMA GoingOn ==
  ASSUME ScansOK, NEW a \in Askers, scan[a] # NoScan, scan[a].seen < Shards,
         scan' = [scan EXCEPT ![a] = Further(scan[a])],
         UNCHANGED <<held, stayed, poisoned, shared>>,
         \A k \in Reachable : StubShard(k) = (scan[a].start + scan[a].seen) % Shards
                              => scan[a].for \notin {Victim, k}
  PROVE  ScansOK'
<1>1. /\ Further(scan[a]) \in ScanRecord /\ Further(scan[a]) # NoScan
      /\ Further(scan[a]).for = scan[a].for /\ Further(scan[a]).start = scan[a].start
      /\ Further(scan[a]).seen = scan[a].seen + 1 /\ scan[a].seen \in Nat
  BY ScanIs, ShardsArePositive, SMT DEF ScansOK, ScansTyped
<1>2. ScansTyped'
  BY <1>1 DEF ScansOK, ScansTyped
<1>3. Reachable' = Reachable
  BY DEF Reachable
<1>4. ASSUME NEW b \in Askers PROVE StayedOK(b)'
  <2>1. CASE b = a
    <3>1. scan'[a] = Further(scan[a]) /\ stayed'[a] = stayed[a] /\ stayed[a] \subseteq Reachable
      BY DEF ScansOK, ScansTyped, StayedOK
    <3>2. ASSUME NEW j \in 0..scan[a].seen, NEW k \in stayed[a],
                 StubShard(k) = (scan[a].start + j) % Shards
          PROVE  scan[a].for \notin {Victim, k}
      <4>1. CASE j = scan[a].seen
        BY <3>1, <3>2, <4>1
      <4>2. CASE j # scan[a].seen
        <5>1. j \in 0..(scan[a].seen - 1)
          BY <1>1, <4>2, SMT
        <5> QED BY <3>2, <5>1 DEF ScansOK, StayedOK
      <4> QED BY <4>1, <4>2
    <3>3. 0..(Further(scan[a]).seen - 1) = 0..scan[a].seen
      BY <1>1, SMT
    <3>4. Reachable' = Reachable /\ stayed' = stayed
      BY <1>3
    <3> QED BY <1>1, <2>1, <3>1, <3>2, <3>3, <3>4, SMT DEF StayedOK
  <2>2. CASE b # a
    BY <1>3, <2>2 DEF StayedOK, ScansOK, ScansTyped
  <2> QED BY <2>1, <2>2
<1> QED BY <1>2, <1>4 DEF ScansOK

(* One shard of a scan.                                                    *)
LEMMA VisitKeeps ==
  ASSUME ScansOK, NEW a \in Askers, VisitShard(a)
  PROVE  ScansOK'
<1> DEFINE s    == scan[a]
           i    == (s.start + s.seen) % Shards
           here == IF i \in poisoned THEN {} ELSE InShard(i)
<1>1. s # NoScan /\ s.seen < Shards /\ UNCHANGED <<shared, poisoned>>
  BY DEF VisitShard
<1>2. s \in ScanRecord /\ s.for \in StubKeys \cup {Victim}
  BY <1>1, ScanIs DEF ScansOK, ScansTyped
<1>3. CASE s.for = Victim /\ here # {}
  <2>0. s.for \notin here
    BY <1>3, KeysAreKeys DEF InShard, ScansOK, ScansTyped
  <2>1. scan' = [scan EXCEPT ![a] = NoScan] /\ stayed' = [stayed EXCEPT ![a] = {}] /\ held' = held
    BY <1>3, <2>0 DEF VisitShard
  <2>2. stayed' = [b \in Askers |-> IF b = a THEN {} ELSE stayed[b] \ {}]
    BY <2>1 DEF ScansOK, ScansTyped
  <2>3. held' = held \ {}
    BY <2>1
  <2> QED BY <1>1, <2>1, <2>2, <2>3, EndingScan
<1>4. CASE ~(s.for = Victim /\ here # {}) /\ s.for \in here
  <2>1. /\ scan' = [scan EXCEPT ![a] = NoScan] /\ held' = held \ {s.for}
        /\ stayed' = [b \in Askers |-> IF b = a THEN {} ELSE stayed[b] \ {s.for}]
    BY <1>4 DEF VisitShard
  <2> QED BY <1>1, <2>1, EndingScan
<1>5. CASE ~(s.for = Victim /\ here # {}) /\ s.for \notin here
  <2>1. scan' = [scan EXCEPT ![a].seen = @ + 1] /\ UNCHANGED <<held, stayed>>
    BY <1>5 DEF VisitShard
  <2>2. scan' = [scan EXCEPT ![a] = Further(scan[a])]
    BY <2>1 DEF Further
  <2>3. ASSUME NEW k \in Reachable, StubShard(k) = i PROVE s.for \notin {Victim, k}
    <3>1. k \in here
      BY <2>3 DEF Reachable, InShard
    <3> QED BY <1>5, <3>1
  <2> QED BY <1>1, <2>1, <2>2, <2>3, GoingOn
<1> QED BY <1>3, <1>4, <1>5

(* Every step of the sharded stub keeps what the scans rely on.            *)
LEMMA ScansStep == ScansOK /\ [ShardedNext]_stubVars => ScansOK'
<1> SUFFICES ASSUME ScansOK, [ShardedNext]_stubVars PROVE ScansOK'
  OBVIOUS
<1>1. ASSUME NEW k \in StubKeys, StubSet(k) PROVE ScansOK'
  <2>1. Reachable \subseteq Reachable' /\ held' \subseteq StubKeys
    BY <1>1 DEF StubSet, Reachable, ScansOK, ScansTyped
  <2>2. ScansTyped'
    BY <1>1, <2>1 DEF StubSet, ScansOK, ScansTyped
  <2>3. ASSUME NEW b \in Askers PROVE StayedOK(b)'
    BY <1>1, <2>1 DEF StubSet, ScansOK, StayedOK
  <2> QED BY <2>2, <2>3 DEF ScansOK
<1>2. ASSUME NEW k \in StubKeys, StubRemove(k) PROVE ScansOK'
  <2>1. Reachable' = Reachable \ {k} /\ held' \subseteq StubKeys
    BY <1>2 DEF StubRemove, Reachable, ScansOK, ScansTyped
  <2> QED BY <1>2, <2>1, LeavingKeeps DEF StubRemove
<1>3. ASSUME NEW i \in Shard, Poison(i) PROVE ScansOK'
  <2>1. Reachable' = Reachable \ InShard(i) /\ held' \subseteq StubKeys
    BY <1>3 DEF Poison, Reachable, InShard, ScansOK, ScansTyped
  <2> QED BY <1>3, <2>1, LeavingKeeps DEF Poison
<1>4. (shared + 1) % Shards \in Shard
  BY RemainderIsShard, ShardsArePositive, SMT DEF ScansOK, ScansTyped, Shard
<1>5. 0 \in 0..Shards
  BY ShardsArePositive, SMT
<1>6. ASSUME NEW a \in Askers, NextShard(a) PROVE ScansOK'
  <2>1. shared \in Shard
    BY DEF ScansOK, ScansTyped
  <2>2. /\ Nominating(shared, 0) \in ScanRecord /\ Nominating(shared, 0) # NoScan
        /\ Nominating(shared, 0).seen = 0
    BY <1>5, <2>1, NominatingIs
  <2> QED BY <1>4, <1>6, <2>2, BeginningScan DEF NextShard
<1>7. ASSUME NEW a \in Askers, NEW k \in StubKeys, SeekAddress(a, k) PROVE ScansOK'
  <2>1. /\ Removing(k, 0) \in ScanRecord /\ Removing(k, 0) # NoScan
        /\ Removing(k, 0).seen = 0
    BY <1>5, RemovingIs
  <2>2. shared' \in Shard
    BY <1>7 DEF SeekAddress, ScansOK, ScansTyped
  <2> QED BY <1>7, <2>1, <2>2, BeginningScan DEF SeekAddress
<1>8. ASSUME NEW a \in Askers, ScanEnds(a) PROVE ScansOK'
  <2>1. stayed' = [b \in Askers |-> IF b = a THEN {} ELSE stayed[b] \ {}] /\ held' = held \ {}
    BY <1>8 DEF ScanEnds, ScansOK, ScansTyped
  <2> QED BY <1>8, <2>1, EndingScan DEF ScanEnds
<1>9. CASE AskedElsewhere
  <2>1. ScansTyped'
    BY <1>4, <1>9 DEF AskedElsewhere, ScansOK, ScansTyped
  <2> QED BY <1>9, <2>1 DEF AskedElsewhere, ScansOK, StayedOK, Reachable
<1>10. CASE UNCHANGED stubVars
  BY <1>10 DEF stubVars, ScansOK, ScansTyped, StayedOK, Reachable
<1> QED BY <1>1, <1>2, <1>3, <1>6, <1>7, <1>8, <1>9, <1>10, VisitKeeps DEF ShardedNext, Shard

(* eviction_candidate and remove_if_address visit the shards one after the *)
(* other and miss no key that stayed, for any keys, hashes and tasks and   *)
(* up to 1024 shards, wherever the cursor starts and whatever comes and    *)
(* goes meanwhile.                                                         *)
THEOREM ScansNeverMiss == ShardedSpec => []ScansMissNothing
<1>1. ShardedInit => ScansOK
  <2> SUFFICES ASSUME ShardedInit PROVE ScansOK
    OBVIOUS
  <2>1. NoScan \in ScanRecord /\ 0 \in Shard
    BY ShardsArePositive, SMT DEF ScanRecord, Shard
  <2> QED BY <2>1 DEF ShardedInit, ScansOK, ScansTyped, StayedOK
<1>2. ScansOK => ScansMissNothing
  <2> SUFFICES ASSUME ScansOK, NEW a \in Askers, scan[a] # NoScan, scan[a].seen = Shards,
                      NEW k \in stayed[a]
               PROVE  scan[a].for \notin {Victim, k}
    BY DEF ScansMissNothing
  <2>1. k \in StubKeys /\ scan[a].start \in Shard
    BY ScanIs DEF ScansOK, ScansTyped
  <2>2. PICK j \in Shard : (scan[a].start + j) % Shards = StubShard(k)
    BY <2>1, KeysHaveShards, WalkVisitsAll
  <2> QED BY <2>2 DEF ScansOK, StayedOK, Shard
<1> QED BY <1>1, <1>2, ScansStep, PTL DEF ShardedSpec

-----------------------------------------------------------------------------
(* The backends.                                                           *)

(* What a record may hold: a value, nothing, or what damage left.          *)
Payload == RungValues \cup {EmptyPayload, "damaged"}

(* The records a store may have.                                           *)
StoreRecord == [value : Payload, until : Nat, form : {"whole", "short", "flipped"}]

(* The contents of a store: the records under every key.                   *)
Contents == [RungKeys -> SUBSET StoreRecord]

(* What is remembered of a set.                                            *)
Writing == [value : Payload, until : Nat, current : BOOLEAN]

(* What was set, by key.                                                   *)
History == [RungKeys -> SUBSET Writing]

(* The types of the stores.                                                *)
StoreTyped ==
  /\ backend \in BoundTo
  /\ records \in Contents
  /\ written \in History
  /\ unflushed \subseteq [records : Contents, written : History]
  /\ clock \in Nat \ {0}

(* What a get may answer record r of with, W having been set.              *)
Backed(r, W) ==
  \E w \in W : /\ w.value = r.value
               /\ ~Is("oxigraph") =>
                    w.current /\ (w.until = Never \/ (r.until # Never /\ r.until <= w.until))

(* Every record of rs that decodes is of a set among ws.                   *)
AllBacked(rs, ws) ==
  ~Is("origin") => \A k \in RungKeys : \A r \in rs[k] : r.form = "whole" => Backed(r, ws[k])

(* Every record that decodes is of a set that the store was asked for, and *)
(* so it is with what a crash may bring back and the sets up to then.      *)
RecordsBacked ==
  /\ AllBacked(records, written)
  /\ \A s \in unflushed : AllBacked(s.records, s.written)

(* The inductive invariant of the stores.                                  *)
StoreOK == StoreTyped /\ RecordsBacked

-----------------------------------------------------------------------------
(* A record as a store writes it.                                          *)
LEMMA RecordIs ==
  ASSUME NEW v \in RungValues \cup {EmptyPayload}, NEW until \in Nat
  PROVE  /\ Record(v, until) \in StoreRecord
         /\ Record(v, until).value = v /\ Record(v, until).until = until
BY DEF Record, StoreRecord, Payload

(* A deadline is none exactly when there is no time to live.               *)
LEMMA UntilIs ==
  ASSUME clock \in Nat \ {0}, NEW ttl \in Nat
  PROVE  /\ Until(ttl) \in Nat
         /\ Until(ttl) = Never <=> ttl = Never
BY SMT DEF Until, Never

(* Rounding a time to live down to whole seconds never prolongs it, and    *)
(* what redis does not refuse is not rounded to no deadline.               *)
LEMMA RedisUntilIs ==
  ASSUME clock \in Nat \ {0}, NEW ttl \in Nat, ~RedisRefuses(ttl)
  PROVE  /\ RedisUntil(ttl) \in Nat
         /\ Until(ttl) = Never \/ (RedisUntil(ttl) # Never /\ RedisUntil(ttl) <= Until(ttl))
<1> DEFINE q == ttl \div Second
<1>1. q \in Nat /\ q * Second <= ttl /\ q * Second \in Nat
  BY TimesAreNat, SMT
<1>2. CASE ttl = Never
  <2>1. q * Second = 0
    BY <1>1, <1>2, SMT DEF Never
  <2> QED BY <1>2, <2>1 DEF RedisUntil, Until, Never
<1>3. CASE ttl # Never
  <2>1. ttl >= Second
    BY <1>3, TimesAreNat, SMT DEF RedisRefuses
  <2>2. q >= 1
    BY <2>1, TimesAreNat, SMT
  <2>3. q * Second >= Second
    BY <2>2, <1>1, TimesAreNat, SMT
  <2>4. q * Second # 0
    BY <2>3, <1>1, TimesAreNat, SMT
  <2>5. RedisUntil(ttl) = clock + q * Second
    BY <2>4 DEF RedisUntil, Until, Never
  <2> HIDE DEF q
  <2> QED BY <1>1, <1>3, <2>4, <2>5, SMT DEF Until, Never
<1> QED BY <1>2, <1>3

-----------------------------------------------------------------------------
(* A step keeps the invariant if what the store then has is backed, and    *)
(* its files may hold nothing else than that and what they could before.   *)
LEMMA SnapshotsKeep ==
  ASSUME StoreOK, backend' = backend, clock' \in Nat \ {0},
         records' \in Contents, written' \in History, AllBacked(records, written)',
         unflushed' \subseteq unflushed \cup {Snapshot'}
  PROVE  StoreOK'
<1>1. /\ Snapshot' \in [records : Contents, written : History]
      /\ Snapshot'.records = records' /\ Snapshot'.written = written'
  BY DEF Snapshot
<1>2. StoreTyped'
  <2>1. unflushed' \subseteq [records : Contents, written : History]
    BY <1>1 DEF StoreOK, StoreTyped
  <2> QED BY <2>1 DEF StoreOK, StoreTyped
<1>3. ASSUME NEW s \in unflushed' PROVE (AllBacked(s.records, s.written))'
  <2>1. CASE s \in unflushed
    <3>1. AllBacked(s.records, s.written)
      BY <2>1 DEF StoreOK, RecordsBacked
    <3> QED BY <3>1 DEF AllBacked, Backed, Is
  <2>2. CASE s = Snapshot'
    BY <1>1, <2>2 DEF AllBacked, Backed, Is
  <2> QED BY <2>1, <2>2
<1>4. RecordsBacked'
  BY <1>3 DEF RecordsBacked
<1> QED BY <1>2, <1>4 DEF StoreOK

(* What one write of the store does to what it holds.                      *)
LEMMA StoringIs ==
  ASSUME StoreTyped, NEW k \in RungKeys, NEW rs \in SUBSET StoreRecord,
         NEW ws \in SUBSET Writing, StoreAs(k, rs, ws)
  PROVE  /\ records' \in Contents /\ written' \in History
         /\ unflushed' \subseteq unflushed \cup {Snapshot'}
         /\ records'[k] = rs /\ written'[k] = ws
         /\ \A j \in RungKeys \ {k} : records'[j] = records[j] /\ written'[j] = written[j]
<1>1. /\ records' \in Contents /\ records'[k] = rs
      /\ \A j \in RungKeys \ {k} : records'[j] = records[j]
  BY DEF StoreTyped, StoreAs, Contents
<1>2. /\ written' \in History /\ written'[k] = ws
      /\ \A j \in RungKeys \ {k} : written'[j] = written[j]
  BY DEF StoreTyped, StoreAs, History
<1>3. unflushed' \subseteq unflushed \cup {Snapshot'}
  BY DEF StoreAs
<1> QED BY <1>1, <1>2, <1>3

(* A write of k keeps the invariant if what it leaves of k is backed.      *)
LEMMA StoringKeeps ==
  ASSUME StoreOK, NEW k \in RungKeys, NEW rs \in SUBSET StoreRecord,
         NEW ws \in SUBSET Writing, StoreAs(k, rs, ws), Fixed,
         ~Is("origin") => \A r \in rs : r.form = "whole" => Backed(r, ws)
  PROVE  StoreOK'
<1>1. /\ records' \in Contents /\ written' \in History
      /\ unflushed' \subseteq unflushed \cup {Snapshot'}
      /\ records'[k] = rs /\ written'[k] = ws
      /\ \A j \in RungKeys \ {k} : records'[j] = records[j] /\ written'[j] = written[j]
  BY StoringIs DEF StoreOK
<1>2. backend' = backend /\ clock' = clock
  BY DEF Fixed
<1>3. AllBacked(records', written')
  <2> SUFFICES ASSUME ~Is("origin"), NEW j \in RungKeys, NEW r \in records'[j], r.form = "whole"
               PROVE  Backed(r, written'[j])
    BY DEF AllBacked
  <2>1. CASE j = k
    BY <1>1, <2>1
  <2>2. CASE j # k
    BY <1>1, <2>2 DEF StoreOK, RecordsBacked, AllBacked
  <2> QED BY <2>1, <2>2
<1>4. AllBacked(records, written)'
  BY <1>2, <1>3 DEF AllBacked, Backed, Is
<1> QED BY <1>1, <1>2, <1>4, SnapshotsKeep DEF StoreOK, StoreTyped

(* The invariant is about the records, what was set, and the time.         *)
LEMMA StoreAsItWas ==
  ASSUME StoreOK, UNCHANGED <<backend, records, unflushed, clock, written>>
  PROVE  StoreOK'
<1>1. \A r, W : Backed(r, W)' <=> Backed(r, W)
  BY DEF Backed, Is
<1>2. StoreTyped'
  BY DEF StoreOK, StoreTyped
<1>3. AllBacked(records, written)' /\ \A s \in unflushed : AllBacked(s.records, s.written)'
  BY <1>1 DEF StoreOK, RecordsBacked, AllBacked, Is
<1> QED BY <1>2, <1>3 DEF StoreOK, RecordsBacked

(* A get and the other calls that only look change no record.              *)
LEMMA LookingKeeps ==
  ASSUME StoreOK, Looks
  PROVE  StoreOK'
BY StoreAsItWas DEF Looks, KeepRecords, Fixed

(* A removal leaves nothing of the key, except at the origin.              *)
LEMMA RemovingKeeps ==
  ASSUME StoreOK, NEW k \in RungKeys, NEW rs \in SUBSET StoreRecord, Removes(k, rs),
         Is("origin") \/ rs = {}
  PROVE  StoreOK'
BY StoringKeeps DEF Removes

(* What a set stores is covered by what it is recorded to have set; what   *)
(* oxigraph had of the key stays covered.                                  *)
LEMMA SettingKeeps ==
  ASSUME StoreOK, NEW k \in RungKeys, NEW v \in RungValues, NEW ttl \in Lifetimes,
         NEW rs \in SUBSET StoreRecord, Sets(k, v, ttl, rs),
         \A r \in rs : \/ Is("origin")
                       \/ Is("oxigraph") /\ (r \in records[k] \/ r.value = v)
                       \/ /\ r.value = v
                          /\ Until(ttl) = Never \/ (r.until # Never /\ r.until <= Until(ttl))
  PROVE  StoreOK'
<1> DEFINE new == [value |-> v, until |-> Until(ttl), current |-> TRUE]
           past == {[w EXCEPT !.current = FALSE] : w \in written[k]}
<1>1. new \in Writing
  BY UntilIs, TimesAreNat DEF Writing, Payload, StoreOK, StoreTyped
<1>2. past \subseteq Writing
  <2>1. \A w \in Writing : [w EXCEPT !.current = FALSE] \in Writing
    BY DEF Writing
  <2> QED BY <2>1 DEF StoreOK, StoreTyped, History
<1>3. StoreAs(k, rs, past \cup {new}) /\ Fixed
  BY DEF Sets
<1>4. ASSUME ~Is("origin"), NEW r \in rs, r.form = "whole"
      PROVE  Backed(r, past \cup {new})
  <2>1. new.value = v /\ new.until = Until(ttl) /\ new.current
    OBVIOUS
  <2>2. CASE r.value = v /\ (Is("oxigraph") \/ Until(ttl) = Never
                                \/ (r.until # Never /\ r.until <= Until(ttl)))
    <3> HIDE DEF new, past
    <3> QED BY <2>1, <2>2 DEF Backed
  <2>3. CASE Is("oxigraph") /\ r \in records[k]
    <3>1. PICK w \in written[k] : w.value = r.value
      BY <1>4, <2>3 DEF StoreOK, RecordsBacked, AllBacked, Backed
    <3>2. [w EXCEPT !.current = FALSE].value = w.value
      BY SMT DEF StoreOK, StoreTyped, History, Writing
    <3>3. [w EXCEPT !.current = FALSE] \in past \cup {new}
      OBVIOUS
    <3> HIDE DEF new, past
    <3> QED BY <2>3, <3>1, <3>2, <3>3 DEF Backed
  <2> QED BY <1>4, <2>2, <2>3
<1> HIDE DEF new, past
<1> QED BY <1>1, <1>2, <1>3, <1>4, StoringKeeps

-----------------------------------------------------------------------------
(* A store is empty at first.                                              *)
LEMMA InitialStoreOK == BackendInit => StoreOK
<1> SUFFICES ASSUME BackendInit PROVE StoreOK
  OBVIOUS
<1>1. records \in Contents /\ written \in History
  BY DEF BackendInit, Contents, History
<1>2. /\ Snapshot \in [records : Contents, written : History]
      /\ Snapshot.records = records
  BY <1>1 DEF Snapshot
<1>3. unflushed \subseteq {Snapshot}
  BY DEF BackendInit
<1>4. \A k \in RungKeys : records[k] = {}
  BY DEF BackendInit
<1>5. backend \in BoundTo /\ clock \in Nat \ {0}
  BY SMT DEF BackendInit
<1> HIDE DEF Snapshot
<1> QED BY <1>1, <1>2, <1>3, <1>4, <1>5 DEF StoreOK, StoreTyped, RecordsBacked, AllBacked

(* Whichever store it is, what a set stores is what was set.               *)
LEMMA SetsKeep ==
  ASSUME StoreOK, NEW k \in RungKeys, NEW v \in RungValues, NEW ttl \in Lifetimes,
         \/ MapSet(k, v, ttl) \/ RedisSet(k, v, ttl) \/ SledSet(k, v, ttl)
         \/ OriginSet(k, v, ttl) \/ OxigraphSet(k, v, ttl)
  PROVE  StoreOK'
<1>0. /\ clock \in Nat \ {0} /\ ttl \in Nat /\ Until(ttl) \in Nat
      /\ records[k] \in SUBSET StoreRecord /\ Never \in Nat
  BY TimesAreNat, UntilIs DEF StoreOK, StoreTyped, Contents, Never
<1>R. \A u \in Nat : /\ Record(v, u) \in StoreRecord
                      /\ Record(v, u).value = v /\ Record(v, u).until = u
  BY RecordIs
<1>S. ASSUME NEW r \in StoreRecord, Sets(k, v, ttl, {r}), r.value = v,
             Is("origin") \/ Until(ttl) = Never \/ (r.until # Never /\ r.until <= Until(ttl))
      PROVE  StoreOK'
  <2>1. {r} \in SUBSET StoreRecord
    OBVIOUS
  <2>2. \A x \in {r} : \/ Is("origin")
                       \/ Is("oxigraph") /\ (x \in records[k] \/ x.value = v)
                       \/ /\ x.value = v
                          /\ Until(ttl) = Never \/ (x.until # Never /\ x.until <= Until(ttl))
    BY <1>S
  <2> QED BY <1>S, <2>1, <2>2, SettingKeeps
<1>1. CASE Looks
  BY <1>1, LookingKeeps
<1>2. CASE Sets(k, v, ttl, {Record(v, Until(ttl))})
  <2> DEFINE r == Record(v, Until(ttl))
  <2>1. r \in StoreRecord /\ r.value = v /\ r.until = Until(ttl)
    BY <1>0, <1>R
  <2>2. Sets(k, v, ttl, {r})
    BY <1>2
  <2> HIDE DEF r
  <2>3. Until(ttl) = Never \/ (r.until # Never /\ r.until <= Until(ttl))
    BY <1>0, <2>1, SMT
  <2> QED BY <1>S, <2>1, <2>2, <2>3
<1>3. CASE ~RedisRefuses(ttl) /\ Sets(k, v, ttl, {Record(v, RedisUntil(ttl))})
  <2> DEFINE r == Record(v, RedisUntil(ttl))
  <2>1. /\ RedisUntil(ttl) \in Nat
        /\ Until(ttl) = Never \/ (RedisUntil(ttl) # Never /\ RedisUntil(ttl) <= Until(ttl))
    BY <1>0, <1>3, RedisUntilIs
  <2>2. r \in StoreRecord /\ r.value = v /\ r.until = RedisUntil(ttl)
    BY <2>1, <1>R
  <2>3. Sets(k, v, ttl, {r})
    BY <1>3
  <2> HIDE DEF r
  <2> QED BY <1>S, <2>1, <2>2, <2>3
<1>4. CASE Is("origin") /\ Sets(k, v, ttl, {Record(v, Never)})
  <2> DEFINE r == Record(v, Never)
  <2>1. r \in StoreRecord /\ r.value = v
    BY <1>0, <1>R
  <2>2. Sets(k, v, ttl, {r})
    BY <1>4
  <2> HIDE DEF r
  <2> QED BY <1>4, <1>S, <2>1, <2>2
<1>5. CASE Is("origin") /\ Sets(k, v, ttl, records[k])
  BY <1>0, <1>5, SettingKeeps
<1>6. CASE Is("oxigraph") /\ Sets(k, v, ttl, (records[k] \ {Record(v, Never)}) \cup {Record(v, Never)})
  <2> DEFINE r == Record(v, Never)
             rs == (records[k] \ {r}) \cup {r}
  <2>1. r \in StoreRecord /\ r.value = v
    BY <1>0, <1>R
  <2>2. Sets(k, v, ttl, rs)
    BY <1>6
  <2> HIDE DEF r
  <2>3. rs \in SUBSET StoreRecord
    BY <1>0, <2>1
  <2>4. \A x \in rs : x \in records[k] \/ x.value = v
    BY <2>1
  <2> HIDE DEF rs
  <2>5. \A x \in rs : \/ Is("origin")
                      \/ Is("oxigraph") /\ (x \in records[k] \/ x.value = v)
                      \/ /\ x.value = v
                         /\ Until(ttl) = Never \/ (x.until # Never /\ x.until <= Until(ttl))
    BY <1>6, <2>4
  <2> QED BY <2>2, <2>3, <2>5, SettingKeeps
<1> QED BY <1>1, <1>2, <1>3, <1>4, <1>5, <1>6 DEF MapSet, RedisSet, SledSet, OriginSet, OxigraphSet

(* Whichever store it is, a removal brings no record back.                 *)
LEMMA RemovalsKeep ==
  ASSUME StoreOK, NEW k \in RungKeys,
         MapRemove(k) \/ RedisRemove(k) \/ SledRemove(k) \/ OriginRemove(k) \/ OxigraphRemove(k)
  PROVE  StoreOK'
<1>1. CASE Looks
  BY <1>1, LookingKeeps
<1>2. CASE Removes(k, {})
  BY <1>2, RemovingKeeps
<1>3. CASE Is("origin") /\ Removes(k, {Record(EmptyPayload, Never)})
  <2>1. {Record(EmptyPayload, Never)} \in SUBSET StoreRecord
    BY RecordIs, SMT DEF Never
  <2> QED BY <1>3, <2>1, RemovingKeeps
<1>4. CASE Is("origin") /\ Removes(k, records[k])
  BY <1>4, RemovingKeeps DEF StoreOK, StoreTyped, Contents
<1> QED BY <1>1, <1>2, <1>3, <1>4
        DEF MapRemove, RedisRemove, SledRemove, OriginRemove, OxigraphRemove

(* A late removal of an expired record and damage leave no whole record of *)
(* the key.                                                                *)
LEMMA LosingKeeps ==
  ASSUME StoreOK, NEW k \in RungKeys, NEW rs \in SUBSET StoreRecord,
         StoreAs(k, rs, written[k]), \A r \in rs : r.form # "whole", Fixed
  PROVE  StoreOK'
<1>1. written[k] \in SUBSET Writing
  BY DEF StoreOK, StoreTyped, History
<1> QED BY <1>1, StoringKeeps

(* A damaged record is not whole any more.                                 *)
LEMMA DamageKeeps ==
  ASSUME StoreOK, NEW k \in RungKeys, DamageRecord(k)
  PROVE  StoreOK'
<1> DEFINE Short(r) == [r EXCEPT !.form = "short"]
           Flipped(r) == [r EXCEPT !.form = "flipped", !.value = "damaged"]
<1>1. PICK r \in records[k] :
        StoreAs(k, {Short(r)}, written[k]) \/ StoreAs(k, {Flipped(r)}, written[k])
  BY DEF DamageRecord
<1>2. r \in StoreRecord
  BY DEF StoreOK, StoreTyped, Contents
<1>3. /\ Short(r) \in StoreRecord /\ Short(r).form # "whole"
      /\ Flipped(r) \in StoreRecord /\ Flipped(r).form # "whole"
  BY <1>2 DEF StoreRecord, Payload
<1>4. Fixed
  BY DEF DamageRecord
<1> HIDE DEF Short, Flipped
<1>5. ASSUME NEW d \in StoreRecord, d.form # "whole", StoreAs(k, {d}, written[k])
      PROVE  StoreOK'
  <2>1. {d} \in SUBSET StoreRecord /\ \A x \in {d} : x.form # "whole"
    BY <1>5
  <2> QED BY <1>4, <1>5, <2>1, LosingKeeps
<1> QED BY <1>1, <1>3, <1>5

(* A restart brings back nothing that had not been set.                    *)
LEMMA RestartKeeps ==
  ASSUME StoreOK, BackendRestart
  PROVE  StoreOK'
<1>1. backend' = backend /\ clock' = clock /\ written' = written
  BY DEF BackendRestart
<1>2. records' \in Contents /\ \A k \in RungKeys : records'[k] \subseteq records[k]
  BY DEF StoreOK, StoreTyped, BackendRestart, Contents
<1>3. AllBacked(records, written)'
  BY <1>1, <1>2 DEF StoreOK, RecordsBacked, AllBacked, Backed, Is
<1>4. unflushed' \subseteq unflushed \cup {Snapshot'}
  <2>1. CASE Is("sled")
    BY <1>1, <2>1 DEF BackendRestart, Remote, Is, Snapshot
  <2>2. CASE ~Is("sled")
    BY <2>2 DEF BackendRestart
  <2> QED BY <2>1, <2>2
<1> QED BY <1>1, <1>2, <1>3, <1>4, SnapshotsKeep DEF StoreOK, StoreTyped

(* After a crash a store has what it had at a moment since the last flush, *)
(* all of it set by then.                                                  *)
LEMMA CrashKeeps ==
  ASSUME StoreOK, BackendCrash
  PROVE  StoreOK'
<1>1. PICK s \in unflushed :
        records' = s.records /\ written' = s.written /\ unflushed' = {s}
  BY DEF BackendCrash
<1>2. s.records \in Contents /\ s.written \in History
  BY DEF StoreOK, StoreTyped
<1>3. backend' = backend /\ clock' = clock
  BY DEF BackendCrash, Fixed
<1>4. AllBacked(s.records, s.written)
  BY DEF StoreOK, RecordsBacked
<1>5. AllBacked(records, written)'
  BY <1>1, <1>3, <1>4 DEF AllBacked, Backed, Is
<1> QED BY <1>1, <1>2, <1>3, <1>5, SnapshotsKeep DEF StoreOK, StoreTyped

(* Every step of a store keeps its records those of sets.                  *)
LEMMA StoreStep ==
  ASSUME StoreOK, [BackendNext]_backendVars
  PROVE  StoreOK'
<1>1. CASE UNCHANGED backendVars
  BY <1>1, StoreAsItWas DEF backendVars
<1>2. CASE MapReads \/ RedisReads \/ OriginReads \/ OxigraphReads \/ TestTierRefuses
  BY <1>2, LookingKeeps DEF MapReads, RedisReads, OriginReads, OxigraphReads, TestTierRefuses
<1>3. ASSUME NEW k \in RungKeys, SledGet(k) \/ SledContains(k)
      PROVE  StoreOK'
  BY <1>3, LookingKeeps DEF SledGet, SledContains
<1>4. ASSUME NEW k \in RungKeys, ExpiryRemove(k)
      PROVE  StoreOK'
  BY <1>4, LosingKeeps, SMT DEF ExpiryRemove
<1>5. CASE SetHealthy
  BY <1>5, StoreAsItWas DEF SetHealthy, KeepRecords
<1>6. CASE FlushSled
  <2>1. /\ backend' = backend /\ clock' = clock /\ records' = records /\ written' = written
        /\ unflushed' \subseteq unflushed \cup {Snapshot'}
    BY <1>6 DEF FlushSled, Fixed, Snapshot
  <2>2. AllBacked(records, written)'
    BY <2>1 DEF StoreOK, RecordsBacked, AllBacked, Backed, Is
  <2> QED BY <2>1, <2>2, SnapshotsKeep DEF StoreOK, StoreTyped
<1>7. CASE Tick
  BY <1>7, SMT DEF Tick, StoreOK, StoreTyped, RecordsBacked, AllBacked, Backed, Is
<1> QED BY <1>1, <1>2, <1>3, <1>4, <1>5, <1>6, <1>7, SetsKeep, RemovalsKeep, DamageKeeps,
           RestartKeeps, CrashKeeps DEF BackendNext

(* A record that decodes to a value is whole and not overdue.              *)
LEMMA AnswersAreWhole ==
  ASSUME NEW r \in StoreRecord, Decode(r) \notin GetErrors \cup {"none"}
  PROVE  r.form = "whole" /\ ~Overdue(r) /\ Decode(r) = r.value
BY DEF StoreRecord, Decode, GetErrors

(* Whatever a get answers with, of any store, was set under that key and   *)
(* has not expired, through damage, restarts and crashes, for any values,  *)
(* any times to live and any length of a second.                           *)
THEOREM ReadsStayOfWrites == BackendSpec => []ReadsAreOfWrites
<1>1. StoreOK => ReadsAreOfWrites
  <2> SUFFICES ASSUME StoreOK, NEW k \in RungKeys, NEW r \in records[k],
                      Decode(r) \notin GetErrors \cup {"none"}, ~Is("origin")
               PROVE  \E w \in written[k] :
                        /\ w.value = Decode(r)
                        /\ ~Is("oxigraph") => w.current /\ (w.until = Never \/ clock < w.until)
    BY DEF ReadsAreOfWrites
  <2>1. r \in StoreRecord /\ r.until \in Nat
    BY SMT DEF StoreOK, StoreTyped, Contents, StoreRecord
  <2>2. r.form = "whole" /\ ~Overdue(r) /\ Decode(r) = r.value
    BY <2>1, AnswersAreWhole
  <2>3. PICK w \in written[k] :
          /\ w.value = r.value
          /\ ~Is("oxigraph") =>
               w.current /\ (w.until = Never \/ (r.until # Never /\ r.until <= w.until))
    BY <2>2 DEF StoreOK, RecordsBacked, AllBacked, Backed
  <2>4. w.until \in Nat /\ clock \in Nat
    BY SMT DEF StoreOK, StoreTyped, History, Writing
  <2> QED BY <2>1, <2>2, <2>3, <2>4, SMT DEF Overdue
<1> QED BY InitialStoreOK, StoreStep, <1>1, PTL DEF BackendSpec

(* A store that reports durability loses in a restart nothing that it      *)
(* acknowledged, for any values and any times to live.                     *)
THEOREM DurabilityIsTrue == BackendSpec => NoFalseDurability
<1>1. StoreOK /\ [BackendNext]_backendVars
        => [BackendRestart /\ SurvivesRestart(backend) => records' = records]_backendVars
  <2> SUFFICES ASSUME StoreOK, BackendRestart, SurvivesRestart(backend)
               PROVE  records' = records
    OBVIOUS
  <2>1. Remote
    BY BoundToATier, SMT DEF StoreOK, StoreTyped, Remote, SurvivesRestart, TierCapability, L0Stub, L1Stub,
       L2Stub, L3Stub, L4Stub, L5Stub, TestTier, RedisTier, SledTier, OriginTier, OxigraphTier
  <2> QED BY <2>1 DEF BackendRestart
<1> QED BY InitialStoreOK, StoreStep, <1>1, PTL DEF BackendSpec, NoFalseDurability

=============================================================================
