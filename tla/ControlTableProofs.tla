------------------------- MODULE ControlTableProofs -------------------------
(***************************************************************************)
(* The sharded table implements the map of ControlMap, for every number of *)
(* shards, every capacity, and every placement of the keys, the placements *)
(* that collide included; recovery counts no intent twice; and a pass of   *)
(* the statistics adds up while the table changes under it.                *)
(***************************************************************************)
EXTENDS ControlTable, ControlEntryProofs, FiniteSetTheorems, WellFoundedInduction

(* A leaf goes to Zenon unless it names another prover: most are first-    *)
(* order, and those with arithmetic or several updates of a record say SMT.*)
USE Zenon

Place == Shard \X Index

(* The slots hold entries that exist.                                      *)
SlotsOK ==
  /\ slots \in [Place -> Slot \cup {Empty}]
  /\ \A i \in Place : Occupied(i) => slots[i].entry.created

(* Every slot nearer to the home of a key than its own is taken by another *)
(* key: slots are never given back, so nothing can open up before it.      *)
Reached(i, k) ==
  \E d \in Index :
    /\ i = Probe[k][d]
    /\ \A c \in Index : c < d => Occupied(Probe[k][c]) /\ slots[Probe[k][c]].key # k

Chained == \A i \in Place : Occupied(i) => Reached(i, slots[i].key)

TokensOK == tokens \subseteq Abs!Token

TableInv == SlotsOK /\ Chained /\ TokensOK

-----------------------------------------------------------------------------
(* A nonempty set of naturals has a least element, and Min is it.          *)
LEMMA MinIsLeast ==
  ASSUME NEW S \in SUBSET Nat, S # {}
  PROVE  Min(S) \in S /\ \A y \in S : Min(S) <= y
<1> DEFINE R == {ss \in Nat \X Nat : ss[1] < ss[2]}
<1>1. IsWellFoundedOn(R, Nat)
  BY NatLessThanWellFounded DEF OpToRel
<1>2. \A a, b \in Nat : a < b => <<a, b>> \in R
  OBVIOUS
<1> HIDE DEF R
<1>3. PICK x \in S : \A y \in S : ~(<<y, x>> \in R)
  BY <1>1, WFMin
<1>4. ASSUME NEW y \in S PROVE x <= y
  <2>1. x \in Nat /\ y \in Nat
    OBVIOUS
  <2>2. ~(<<y, x>> \in R)
    BY <1>3
  <2>3. ~(y < x)
    BY <1>2, <2>1, <2>2
  <2> QED BY <2>1, <2>3, SMT
<1>5. \E z \in S : \A y \in S : z <= y
  BY <1>4
<1> QED BY <1>5 DEF Min

(* Every slot a probe looks at is a slot of the table.                     *)
LEMMA ProbeInTable ==
  ASSUME NEW k \in Keys, NEW d \in Index
  PROVE  Probe[k][d] \in Place
<1>1. Placement[k] \in Nat /\ d \in Nat
  BY PlacementsAreNat, CapacityIsPositive, SMT DEF Index
<1>2. Placement[k] % ShardCount \in Shard
  BY <1>1, ShardCountIsPositive, SMT DEF Shard
<1>3. (Placement[k] + d) % Capacity \in Index
  BY <1>1, CapacityIsPositive, SMT DEF Index
<1> QED BY <1>2, <1>3 DEF Probe, Place, ShardFor

(* Where a probe stops: at the least distance whose slot is empty or own.  *)
LEMMA SpotStops ==
  ASSUME NEW k \in Keys, ~Full(k)
  PROVE  /\ Min(Stops(k)) \in Index
         /\ Spot(k) \in Place
         /\ ~Occupied(Spot(k)) \/ slots[Spot(k)].key = k
         /\ \A c \in Index : c < Min(Stops(k)) =>
              Occupied(Probe[k][c]) /\ slots[Probe[k][c]].key # k
<1>1. Stops(k) \in SUBSET Index /\ Stops(k) # {} /\ Index \in SUBSET Nat
  BY CapacityIsPositive, SMT DEF Stops, Full, Index
<1>2. Min(Stops(k)) \in Stops(k) /\ \A y \in Stops(k) : Min(Stops(k)) <= y
  BY <1>1, MinIsLeast
<1>3. ASSUME NEW c \in Index, c < Min(Stops(k)), c \in Stops(k)
      PROVE  FALSE
  <2>1. c \in Nat /\ Min(Stops(k)) \in Nat /\ Min(Stops(k)) <= c
    BY <1>1, <1>2, <1>3
  <2> QED BY <1>3, <2>1, SMT
<1> QED BY <1>1, <1>2, <1>3, ProbeInTable DEF Stops, Spot

(* find_slot finds the slot of the key wherever it is, and nothing when    *)
(* there is none.                                                          *)
LEMMA FoundIsOwn ==
  ASSUME SlotsOK, Chained, NEW k \in Keys
  PROVE  /\ \A i \in Place : Occupied(i) /\ slots[i].key = k => ~Full(k) /\ Spot(k) = i
         /\ Known(k) => ~Full(k) /\ Occupied(Spot(k)) /\ slots[Spot(k)].key = k
         /\ ~Full(k) => Found(k) = slots[Spot(k)]
<1>1. ASSUME NEW i \in Place, Occupied(i), slots[i].key = k
      PROVE  ~Full(k) /\ Spot(k) = i
  <2>1. PICK d \in Index : /\ i = Probe[k][d]
                           /\ \A c \in Index : c < d => Occupied(Probe[k][c]) /\ slots[Probe[k][c]].key # k
    BY <1>1 DEF Chained, Reached
  <2>2. d \in Stops(k) /\ \A c \in Stops(k) : ~(c < d)
    BY <1>1, <2>1 DEF Stops
  <2>3. Stops(k) \in SUBSET Nat /\ Stops(k) # {} /\ d \in Nat
    BY <2>2, CapacityIsPositive, SMT DEF Stops, Index
  <2>4. Min(Stops(k)) \in Stops(k) /\ Min(Stops(k)) <= d
    BY <2>2, <2>3, MinIsLeast
  <2>5. Min(Stops(k)) = d
    BY <2>2, <2>3, <2>4, SMT
  <2> QED BY <2>1, <2>3, <2>5 DEF Full, Spot
<1>2. ~Full(k) => Found(k) = slots[Spot(k)]
  BY DEF Full, Found, Spot
<1>3. Known(k) => ~Full(k)
  BY DEF Known, Found, Full
<1> QED BY <1>1, <1>2, <1>3, SpotStops DEF Known, Occupied

(* So the record of a key is the one in its slot, or a new one.            *)
OwnRecords ==
  \A k \in Keys :
    /\ \A i \in Place : Occupied(i) /\ slots[i].key = k => Look(k) = slots[i].entry
    /\ (\A i \in Place : Occupied(i) => slots[i].key # k) => Look(k) = NewEntry
    /\ Look(k).created <=> Known(k)
    /\ Look(k) \in Entry

(* What find_entry answers for a key is that key's own record.             *)
LEMMA LookIsOwn == SlotsOK /\ Chained => OwnRecords
<1> SUFFICES ASSUME SlotsOK, Chained, NEW k \in Keys
             PROVE  /\ \A i \in Place : Occupied(i) /\ slots[i].key = k => Look(k) = slots[i].entry
                    /\ (\A i \in Place : Occupied(i) => slots[i].key # k) => Look(k) = NewEntry
                    /\ Look(k).created <=> Known(k)
                    /\ Look(k) \in Entry
  BY DEF OwnRecords
<1>1. Known(k) => /\ Spot(k) \in Place /\ Occupied(Spot(k)) /\ slots[Spot(k)].key = k
                  /\ Found(k) = slots[Spot(k)]
  BY FoundIsOwn, SpotStops
<1>2. \A i \in Place : Occupied(i) /\ slots[i].key = k => Known(k) /\ i = Spot(k)
  BY FoundIsOwn DEF Known, Occupied
<1>3. NewEntry \in Entry /\ ~NewEntry.created
  BY SMT DEF NewEntry, Entry, State, NoIntent, Intent, IntentKind, Rung, ErrorCode
<1>4. Known(k) => Look(k) = slots[Spot(k)].entry
  BY <1>1 DEF Look, Known
<1>5. ~Known(k) => Look(k) = NewEntry
  BY DEF Look, Known
<1>6. Known(k) => slots[Spot(k)] \in Slot /\ slots[Spot(k)].entry.created
  BY <1>1 DEF SlotsOK, Occupied
<1> QED BY <1>1, <1>2, <1>3, <1>4, <1>5, <1>6 DEF Slot

-----------------------------------------------------------------------------
(* Storing an entry of k in the slot where the probe for k stops.          *)
LEMMA StoreKeepsInv ==
  ASSUME SlotsOK, Chained, NEW k \in Keys, NEW f \in Entry, f.created, ~Full(k), Store(k, f)
  PROVE  /\ SlotsOK' /\ Chained'
         /\ Look(k)' = f
         /\ \A j \in Keys \ {k} : Look(j)' = Look(j)
<1> DEFINE s == [key |-> k, entry |-> f]
<1>0. PICK i \in Place : i = Spot(k)
  BY SpotStops
<1>1. /\ s \in Slot /\ s # Empty /\ s.key = k /\ s.entry = f
      /\ ~Occupied(i) \/ slots[i].key = k
  BY <1>0, SpotStops, SMT DEF Slot, Empty
<1>2. slots' = [slots EXCEPT ![i] = s]
  BY <1>0 DEF Store
<1> HIDE DEF s
<1>3. /\ slots'[i] = s
      /\ \A j \in Place \ {i} : slots'[j] = slots[j]
  BY <1>1, <1>2 DEF SlotsOK
<1>4. SlotsOK'
  BY <1>1, <1>2, <1>3 DEF SlotsOK, Occupied
<1>5. \A j \in Place : /\ Occupied(j) => Occupied(j)' /\ slots'[j].key = slots[j].key
                       /\ Occupied(j)' => Occupied(j) \/ j = i
  BY <1>1, <1>3 DEF Occupied
<1>6. Chained'
  <2> SUFFICES ASSUME NEW j \in Place, NEW n \in Keys, Occupied(j)', n = slots'[j].key
               PROVE  Reached(j, n)'
    BY <1>4 DEF Chained, SlotsOK, Slot, Occupied
  <2>1. CASE Occupied(j)
    <3>1. n = slots[j].key
      BY <2>1, <1>5
    <3>2. PICK d \in Index :
            /\ j = Probe[n][d]
            /\ \A c \in Index : c < d => Occupied(Probe[n][c]) /\ slots[Probe[n][c]].key # n
      BY <2>1, <3>1, SMT DEF Chained, Reached
    <3>3. \A c \in Index : Probe[n][c] \in Place
      BY ProbeInTable
    <3>4. \A c \in Index : c < d => Occupied(Probe[n][c])' /\ slots'[Probe[n][c]].key # n
      BY <3>2, <3>3, <1>5
    <3> QED BY <3>2, <3>4 DEF Reached
  <2>2. CASE ~Occupied(j)
    <3>1. j = i /\ n = k
      BY <2>2, <1>1, <1>3, <1>5
    <3>2. PICK d \in Index :
            /\ i = Probe[k][d]
            /\ \A c \in Index : c < d => Occupied(Probe[k][c]) /\ slots[Probe[k][c]].key # k
      BY <1>0, SpotStops DEF Spot
    <3>3. \A c \in Index : Probe[k][c] \in Place
      BY ProbeInTable
    <3>4. \A c \in Index : c < d => Occupied(Probe[k][c])' /\ slots'[Probe[k][c]].key # k
      BY <3>2, <3>3, <1>5
    <3> QED BY <3>1, <3>2, <3>4 DEF Reached
  <2> QED BY <2>1, <2>2
<1>7. OwnRecords /\ OwnRecords'
  BY <1>4, <1>6, LookIsOwn, PTL
<1>8. Look(k)' = f
  <2>1. Occupied(i)' /\ slots'[i].key = k
    BY <1>1, <1>3 DEF Occupied
  <2>2. \A x \in Place : Occupied(x)' /\ slots'[x].key = k => Look(k)' = slots'[x].entry
    BY <1>7 DEF OwnRecords
  <2> QED BY <1>1, <1>3, <2>1, <2>2
<1>9. ASSUME NEW j \in Keys \ {k} PROVE Look(j)' = Look(j)
  <2>1. CASE \E x \in Place : Occupied(x) /\ slots[x].key = j
    <3>1. PICK x \in Place : Occupied(x) /\ slots[x].key = j
      BY <2>1
    <3>2. x # i /\ slots'[x] = slots[x] /\ Occupied(x)' /\ slots'[x].key = j
      BY <3>1, <1>1, <1>3, <1>5
    <3>3. Look(j) = slots[x].entry
      BY <3>1, <1>7 DEF OwnRecords
    <3>4. Look(j)' = slots'[x].entry
      BY <3>2, <1>7 DEF OwnRecords
    <3> QED BY <3>2, <3>3, <3>4
  <2>2. CASE \A x \in Place : Occupied(x) => slots[x].key # j
    <3>1. \A x \in Place : Occupied(x)' => slots'[x].key # j
      BY <2>2, <1>1, <1>3, <1>5
    <3>2. Look(j)' = NewEntry
      BY <3>1, <1>7 DEF OwnRecords
    <3> QED BY <2>2, <3>2, <1>7 DEF OwnRecords
  <2> QED BY <2>1, <2>2
<1> QED BY <1>4, <1>6, <1>8, <1>9

(* A stored entry that a call of the map may leave is a step of the map.   *)
LEMMA StoreIsMapStep ==
  ASSUME SlotsOK, Chained, NEW k \in Keys, NEW f \in Entry, f.created, ~Full(k), Store(k, f),
         Abs!Call(k, Look(k), f)
  PROVE  Abs!Next
<1>1. Look(k)' = f /\ \A j \in Keys \ {k} : Look(j)' = Look(j)
  BY StoreKeepsInv
<1>2. \A j \in Keys \ {k} : [n \in Keys |-> Look(n)]'[j] = [n \in Keys |-> Look(n)][j]
  BY <1>1
<1>3. [n \in Keys |-> Look(n)]'[k] = f /\ [n \in Keys |-> Look(n)][k] = Look(k)
  BY <1>1
<1> QED BY <1>2, <1>3 DEF Abs!Next

(* The map speaks of the same operators on entries as the table.           *)
LEMMA SameOperators ==
  /\ Abs!Rung = Rung /\ Abs!IntentKind = IntentKind /\ Abs!State = State
  /\ Abs!Claimable = Claimable /\ Abs!NewEntry = NewEntry
  /\ \A e : /\ Abs!NextGeneration(e) = NextGeneration(e)
            /\ Abs!Evictable(e) = Evictable(e)
            /\ Abs!Evicted(e) = Evicted(e)
            /\ Abs!Invalidated(e) = Invalidated(e)
            /\ Abs!ClaimReleased(e) = ClaimReleased(e)
            /\ Abs!Demotable(e) = Demotable(e)
            /\ Abs!MarkedStale(e) = MarkedStale(e)
  /\ \A e, t : Abs!Claimed(e, t) = Claimed(e, t)
  /\ \A e, t, ttl : Abs!Published(e, t, ttl) = Published(e, t, ttl)
  /\ \A e, err : /\ Abs!FailedWith(e, err) = FailedWith(e, err)
                 /\ Abs!Aborted(e, err) = Aborted(e, err)
                 /\ Abs!AbortedClean(e, err) = AbortedClean(e, err)
                 /\ Abs!IntentAborted(e, err) = IntentAborted(e, err)
  /\ \A e, t, k : Abs!PreparedFor(e, t, k) = PreparedFor(e, t, k)
  /\ \A e, token : Abs!CommitAdmits(e, token) = CommitAdmits(e, token)
  /\ \A e, token, ttl : Abs!Committed(e, token, ttl) = Committed(e, token, ttl)
<1>1. /\ Abs!Rung = Rung /\ Abs!IntentKind = IntentKind /\ Abs!State = State
      /\ Abs!Claimable = Claimable /\ Abs!NoIntent = NoIntent /\ Abs!ErrorCode = ErrorCode
      /\ Abs!AuthorityRung = AuthorityRung
  BY DEF Abs!Rung, Rung, Abs!IntentKind, IntentKind, Abs!State, State, Abs!Claimable, Claimable,
         Abs!NoIntent, NoIntent, Abs!ErrorCode, ErrorCode, Abs!AuthorityRung, AuthorityRung
<1>2. Abs!NewEntry = NewEntry
  BY <1>1 DEF Abs!NewEntry, NewEntry
<1>3. /\ \A e : Abs!NextGeneration(e) = NextGeneration(e) /\ Abs!HasIntent(e) = HasIntent(e)
               /\ Abs!Expired(e) = Expired(e)
      /\ \A err : Abs!Recorded(err) = Recorded(err)
  BY <1>1 DEF Abs!NextGeneration, NextGeneration, Abs!HasIntent, HasIntent, Abs!Recorded, Recorded,
              Abs!Expired, Expired
<1>4. \A e : /\ Abs!Evictable(e) = Evictable(e)
             /\ Abs!Evicted(e) = Evicted(e)
             /\ Abs!Invalidated(e) = Invalidated(e)
             /\ Abs!ClaimReleased(e) = ClaimReleased(e)
             /\ Abs!Demotable(e) = Demotable(e)
             /\ Abs!MarkedStale(e) = MarkedStale(e)
  BY <1>1, <1>3 DEF Abs!Evictable, Evictable, Abs!Evicted, Evicted, Abs!Invalidated, Invalidated,
                    Abs!ClaimReleased, ClaimReleased, Abs!Demotable, Demotable,
                    Abs!MarkedStale, MarkedStale
<1>5. /\ \A e, t : Abs!Claimed(e, t) = Claimed(e, t)
      /\ \A e, t, ttl : Abs!Published(e, t, ttl) = Published(e, t, ttl)
      /\ \A e, t, k : Abs!PreparedFor(e, t, k) = PreparedFor(e, t, k)
  BY <1>3 DEF Abs!Claimed, Claimed, Abs!Published, Published, Abs!PreparedFor, PreparedFor
<1>6. \A e, err : /\ Abs!FailedWith(e, err) = FailedWith(e, err)
                  /\ Abs!Aborted(e, err) = Aborted(e, err)
                  /\ Abs!AbortedClean(e, err) = AbortedClean(e, err)
  BY <1>1, <1>3 DEF Abs!FailedWith, FailedWith, Abs!Aborted, Aborted, Abs!AbortedClean, AbortedClean
<1>7. \A e, err : Abs!IntentAborted(e, err) = IntentAborted(e, err)
  BY <1>3, <1>6 DEF Abs!IntentAborted, IntentAborted
<1>8. /\ \A e, token : Abs!CommitAdmits(e, token) = CommitAdmits(e, token)
      /\ \A e, token, ttl : Abs!Committed(e, token, ttl) = Committed(e, token, ttl)
  BY <1>1 DEF Abs!CommitAdmits, CommitAdmits, Abs!Committed, Committed
<1> QED BY <1>1, <1>2, <1>3, <1>4, <1>5, <1>6, <1>7, <1>8

(* What the calls without a token leave of an entry: an entry that exists, *)
(* if the call creates the slot or the slot was there.                     *)
LEMMA CallsLeaveEntries ==
  ASSUME NEW e \in Entry
  PROVE  /\ \A f \in Abs!Creations(e) : f \in Entry /\ f.created
         /\ e.created => \A f \in Abs!LookUps(e) \cup Abs!Older(e) : f \in Entry /\ f.created
         /\ e.created => \A token \in Abs!Token :
                           \A f \in Abs!Settlements(e, token) : f \in Entry /\ f.created
<1>1. Abs!Touched(e) \in Entry /\ Abs!Touched(e).created
  BY DEF Abs!Touched, Entry
<1>2. \A t \in Tiers : Abs!Acquired(e, t) \in Entry /\ Abs!Acquired(e, t).created
  BY <1>1, SameOperators, EntryTypes, CreatedStays, ArgumentsAreTyped DEF Abs!Acquired
<1>3. \A t \in Tiers : Abs!TierSet(e, t) \in Entry /\ Abs!TierSet(e, t).created
  BY <1>1, ArgumentsAreTyped DEF Abs!TierSet, Entry
<1>4. \A g \in Generations : Abs!GenerationSet(e, g) \in Entry /\ Abs!GenerationSet(e, g).created
  BY <1>1, ArgumentsAreTyped DEF Abs!GenerationSet, Entry
<1>5. \A s \in State : Abs!StateSet(e, s) \in Entry /\ Abs!StateSet(e, s).created
  BY <1>1 DEF Abs!StateSet, Entry
<1>6. Abs!Bumped(e) \in Entry /\ Abs!Bumped(e).created
  BY <1>1, SameOperators, NextGenerationIsNext DEF Abs!Bumped, Entry
<1>7. \A f \in Abs!Creations(e) : f \in Entry /\ f.created
  BY <1>1, <1>2, <1>3, <1>4, <1>5, <1>6, SameOperators DEF Abs!Creations
<1>8. ASSUME e.created
      PROVE  \A f \in Abs!LookUps(e) \cup Abs!Older(e) : f \in Entry /\ f.created
  <2>1. \A g, t, ttl : t \in Tiers /\ ttl \in BOOLEAN =>
          Abs!PublishedAt(e, g, t, ttl) \in Entry /\ Abs!PublishedAt(e, g, t, ttl).created
    BY <1>8, SameOperators, EntryTypes, CreatedStays, ArgumentsAreTyped DEF Abs!PublishedAt
  <2>2. \A x \in Generations \X Tiers \X BOOLEAN : x[2] \in Tiers /\ x[3] \in BOOLEAN
    OBVIOUS
  <2>3. Abs!Reserved(e) \in Entry /\ Abs!Reserved(e).created
    BY <1>8, SameOperators, EntryTypes, CreatedStays DEF Abs!Reserved
  <2>4. [e EXCEPT !.stamp = "old"] \in Entry /\ [e EXCEPT !.stamp = "old"].created
    BY <1>8 DEF Entry
  <2>5. [e EXCEPT !.intent.old = TRUE] \in Entry /\ [e EXCEPT !.intent.old = TRUE].created
    <3>1. e.intent \in Intent
      BY DEF Entry
    <3>2. [e.intent EXCEPT !.old = TRUE] \in Intent
      BY <3>1 DEF Intent
    <3> QED BY <1>8, <3>2 DEF Entry
  <2>6. \A f \in Abs!Older(e) : f \in Entry /\ f.created
    BY <2>4, <2>5 DEF Abs!Older
  <2>7. ASSUME NEW f \in Abs!LookUps(e) PROVE f \in Entry /\ f.created
    <3>1. CASE f \in {Abs!PublishedAt(e, gtl[1], gtl[2], gtl[3]) :
                       gtl \in Generations \X Tiers \X BOOLEAN}
      BY <3>1, <2>1, <2>2, SMT
    <3>2. CASE f \in {Abs!FailedWith(e, err) : err \in Errors}
      BY <1>8, <3>2, SameOperators, EntryTypes, CreatedStays
    <3>3. CASE f \in {Abs!Invalidated(e), Abs!Reserved(e),
                      Abs!IntentAborted(e, "UncommittedIntent"), Abs!ClaimReleased(e)}
      BY <1>8, <3>3, <2>3, SameOperators, EntryTypes, CreatedStays
    <3> QED BY <3>1, <3>2, <3>3 DEF Abs!LookUps
  <2> QED BY <2>6, <2>7
<1>9. ASSUME e.created, NEW token \in Abs!Token
      PROVE  \A f \in Abs!Settlements(e, token) : f \in Entry /\ f.created
  <2>1. token.tier \in Rung
    BY SameOperators DEF Abs!Token
  <2>2. \A ttl \in BOOLEAN : /\ Abs!CommittedWith(e, token, ttl) \in Entry
                              /\ Abs!CommittedWith(e, token, ttl).created
    BY <1>9, <2>1, SameOperators, EntryTypes, CreatedStays DEF Abs!CommittedWith
  <2> QED BY <1>9, <2>2, SameOperators, EntryTypes, CreatedStays DEF Abs!Settlements
<1> QED BY <1>7, <1>8, <1>9

(* Only prepare records an intent.                                         *)
LEMMA NoNewIntent ==
  ASSUME NEW e \in Entry, NEW f
  PROVE  /\ f \in Abs!Creations(e) => HasIntent(f) = HasIntent(e)
         /\ f \in Abs!LookUps(e) \cup Abs!Older(e) /\ HasIntent(f) => HasIntent(e)
         /\ \A token : f \in Abs!Settlements(e, token) /\ HasIntent(f) => HasIntent(e)
<1>0. ~HasIntent([e EXCEPT !.intent = NoIntent]) /\ NoIntent.kind = "none"
  BY DEF HasIntent, NoIntent, Entry
<1>1. /\ Abs!Touched(e).intent = e.intent
      /\ \A t : Claimed(e, t).intent = e.intent
      /\ \A t : Abs!TierSet(e, t).intent = e.intent
      /\ \A g : Abs!GenerationSet(e, g).intent = e.intent
      /\ \A s : Abs!StateSet(e, s).intent = e.intent
      /\ Abs!Bumped(e).intent = e.intent
  BY DEF Abs!Touched, Claimed, Abs!TierSet, Abs!GenerationSet, Abs!StateSet, Abs!Bumped, Entry
<1>2. f \in Abs!Creations(e) => f.intent = e.intent
  BY <1>1, SameOperators DEF Abs!Creations, Abs!Acquired
<1>3. /\ \A t, ttl : Published(e, t, ttl).intent = e.intent
      /\ \A err : FailedWith(e, err).intent = e.intent
      /\ Invalidated(e).intent = e.intent
      /\ Evicted(e).intent = e.intent
      /\ ClaimReleased(e).intent = e.intent
  BY DEF Published, FailedWith, Invalidated, Evicted, ClaimReleased, Entry
<1>4. /\ \A token, ttl : Committed(e, token, ttl).intent = NoIntent
      /\ \A err : /\ Aborted(e, err).intent \in {e.intent, NoIntent}
                  /\ AbortedClean(e, err).intent \in {e.intent, NoIntent}
                  /\ IntentAborted(e, err).intent \in {e.intent, NoIntent}
  BY DEF Committed, Aborted, AbortedClean, IntentAborted, Entry
<1>5. f \in Abs!LookUps(e) => f.intent \in {e.intent, NoIntent}
  <2>1. CASE f \in {Abs!PublishedAt(e, gtl[1], gtl[2], gtl[3]) :
                     gtl \in Generations \X Tiers \X BOOLEAN}
    BY <2>1, <1>3, SameOperators, SMT DEF Abs!PublishedAt
  <2>2. CASE f \in {Abs!FailedWith(e, err) : err \in Errors}
    BY <2>2, <1>3, SameOperators
  <2>3. CASE f \in {Abs!Invalidated(e), Abs!Reserved(e),
                    Abs!IntentAborted(e, "UncommittedIntent"), Abs!ClaimReleased(e)}
    BY <2>3, <1>3, <1>4, SameOperators DEF Abs!Reserved
  <2> QED BY <2>1, <2>2, <2>3 DEF Abs!LookUps
<1>6. f \in Abs!Older(e) => f.intent.kind = e.intent.kind
  <2>1. e.intent \in Intent
    BY DEF Entry
  <2>2. [e EXCEPT !.stamp = "old"].intent = e.intent
    BY DEF Entry
  <2>3. [e EXCEPT !.intent.old = TRUE].intent = [e.intent EXCEPT !.old = TRUE]
    BY DEF Entry
  <2>4. [e.intent EXCEPT !.old = TRUE].kind = e.intent.kind
    BY <2>1 DEF Intent
  <2> QED BY <2>2, <2>3, <2>4 DEF Abs!Older
<1>7. \A token : f \in Abs!Settlements(e, token) => f.intent \in {e.intent, NoIntent}
  BY <1>4, SameOperators DEF Abs!Settlements, Abs!CommittedWith
<1> QED BY <1>0, <1>2, <1>5, <1>6, <1>7 DEF HasIntent

-----------------------------------------------------------------------------
(* A step that stores, for the key k, what a call of the map may leave;    *)
(* an intent that was not there is counted.                                *)
Counted(e, f) == HasIntent(f) /\ ~HasIntent(e) => prepares' = prepares + 1

StoresCall(k) ==
  \E f \in Entry : /\ f.created /\ ~Full(k) /\ Store(k, f) /\ Abs!Call(k, Look(k), f)
                   /\ Counted(Look(k), f)

(* A call that may create the slot stores a call of the map.               *)
LEMMA CreatingStores ==
  ASSUME SlotsOK, Chained, NEW k \in Keys, NEW f \in Abs!Creations(Look(k)),
         Creating(k, f), UNCHANGED tokens
  PROVE  StoresCall(k)
<1>1. Look(k) \in Entry
  BY LookIsOwn DEF OwnRecords
<1>2. f \in Entry /\ f.created
  BY <1>1, CallsLeaveEntries
<1>3. Counted(Look(k), f)
  BY <1>1, NoNewIntent DEF Counted
<1> QED BY <1>2, <1>3 DEF StoresCall, Creating, Abs!Call, Abs!Create

(* So does a call that only looks the slot up.                             *)
LEMMA LookingStores ==
  ASSUME SlotsOK, Chained, NEW k \in Keys, NEW f \in Abs!LookUps(Look(k)) \cup Abs!Older(Look(k)),
         Looking(k, f), UNCHANGED tokens
  PROVE  StoresCall(k)
<1>1. Look(k) \in Entry /\ Look(k).created /\ ~Full(k)
  BY LookIsOwn, FoundIsOwn DEF OwnRecords, Looking
<1>2. f \in Entry /\ f.created
  BY <1>1, CallsLeaveEntries
<1>3. Counted(Look(k), f)
  BY <1>1, NoNewIntent DEF Counted
<1> QED BY <1>1, <1>2, <1>3 DEF StoresCall, Looking, Abs!Call, Abs!LookUp

(* The calls on a key are calls of the map.                                *)
LEMMA CallOnStores ==
  ASSUME SlotsOK, Chained, NEW k \in Keys, CallOn(k)
  PROVE  StoresCall(k)
<1>1. CASE \E t \in Tiers : Acquire(k, t) \/ SetTier(k, t)
  <2>1. PICK t \in Tiers : Acquire(k, t) \/ SetTier(k, t)
    BY <1>1
  <2>2. /\ Abs!Acquired(Look(k), t) \in Abs!Creations(Look(k))
        /\ Abs!TierSet(Look(k), t) \in Abs!Creations(Look(k))
    BY DEF Abs!Creations
  <2> QED BY <2>1, <2>2, CreatingStores DEF Acquire, SetTier
<1>2. CASE \E g \in Generations, t \in Tiers, ttl \in BOOLEAN : PublishSlot(k, g, t, ttl)
  <2>1. PICK g \in Generations, t \in Tiers, ttl \in BOOLEAN : PublishSlot(k, g, t, ttl)
    BY <1>2
  <2>2. <<g, t, ttl>> \in Generations \X Tiers \X BOOLEAN
    OBVIOUS
  <2>3. Abs!PublishedAt(Look(k), g, t, ttl) \in Abs!LookUps(Look(k))
    BY <2>2, Zenon DEF Abs!LookUps
  <2> QED BY <2>1, <2>3, LookingStores DEF PublishSlot
<1>3. CASE \E err \in Errors : FailWithError(k, err)
  <2>1. PICK err \in Errors : FailWithError(k, err)
    BY <1>3
  <2>2. FailedWith(Look(k), err) \in Abs!LookUps(Look(k))
    BY SameOperators DEF Abs!LookUps
  <2> QED BY <2>1, <2>2, LookingStores DEF FailWithError
<1>4. CASE InvalidateSlot(k) \/ BumpGeneration(k) \/ ReserveEviction(k)
  <2>1. /\ Invalidated(Look(k)) \in Abs!LookUps(Look(k))
        /\ Abs!Reserved(Look(k)) \in Abs!LookUps(Look(k))
        /\ Abs!Bumped(Look(k)) \in Abs!Creations(Look(k))
    BY SameOperators DEF Abs!LookUps, Abs!Creations
  <2> QED BY <1>4, <2>1, LookingStores, CreatingStores DEF InvalidateSlot, BumpGeneration, ReserveEviction
<1>5. CASE \E g \in Generations : SetGeneration(k, g) \/ PrepareRefused(k, g)
  <2>1. PICK g \in Generations : SetGeneration(k, g) \/ PrepareRefused(k, g)
    BY <1>5
  <2>2. /\ Abs!GenerationSet(Look(k), g) \in Abs!Creations(Look(k))
        /\ Abs!Touched(Look(k)) \in Abs!Creations(Look(k))
    BY DEF Abs!Creations
  <2> QED BY <2>1, <2>2, CreatingStores DEF SetGeneration, PrepareRefused
<1>6. CASE \E s \in SetStates : SetState(k, s)
  <2>1. PICK s \in SetStates : SetState(k, s)
    BY <1>6
  <2>2. Abs!StateSet(Look(k), s) \in Abs!Creations(Look(k))
    BY ArgumentsAreTyped, SameOperators DEF Abs!Creations
  <2> QED BY <2>1, <2>2, CreatingStores DEF SetState
<1>7. CASE \E t \in Tiers, kind \in IntentKind : PrepareSlot(k, t, kind)
  <2>1. PICK t \in Tiers, kind \in IntentKind : PrepareSlot(k, t, kind)
    BY <1>7
  <2>2. Look(k) \in Entry
    BY LookIsOwn DEF OwnRecords
  <2>3. PreparedFor(Look(k), t, kind) \in Entry /\ PreparedFor(Look(k), t, kind).created
    BY <2>2, EntryTypes, CreatedStays, ArgumentsAreTyped
  <2>4. Abs!Prepare(k, Look(k), PreparedFor(Look(k), t, kind))
    BY <2>1, SameOperators DEF PrepareSlot, Abs!Prepare
  <2>5. Counted(Look(k), PreparedFor(Look(k), t, kind))
    BY <2>1 DEF Counted, PrepareSlot
  <2> QED BY <2>1, <2>3, <2>4, <2>5 DEF StoresCall, PrepareSlot, Creating, Abs!Call
<1>8. CASE ElapseSlotTtl(k) \/ AgeIntent(k)
  <2>1. /\ [Look(k) EXCEPT !.stamp = "old"] \in Abs!Older(Look(k))
        /\ [Look(k) EXCEPT !.intent.old = TRUE] \in Abs!Older(Look(k))
    BY DEF Abs!Older
  <2> QED BY <1>8, <2>1, LookingStores DEF ElapseSlotTtl, AgeIntent
<1> QED BY <1>1, <1>2, <1>3, <1>4, <1>5, <1>6, <1>7, <1>8 DEF CallOn

(* The calls with a token are calls of the map on the key of the token.    *)
LEMMA CallWithStores ==
  ASSUME SlotsOK, Chained, TokensOK, NEW token \in tokens, CallWith(token)
  PROVE  token.key \in Keys /\ StoresCall(token.key)
<1> DEFINE k == token.key
           e == Look(k)
<1>1. k \in Keys /\ token \in Abs!Token
  BY DEF TokensOK, Abs!Token
<1>2. ASSUME NEW f \in Abs!Settlements(e, token), Looking(k, f), UNCHANGED tokens
      PROVE  StoresCall(k)
  <2>1. e \in Entry /\ e.created /\ ~Full(k)
    BY <1>1, <1>2, LookIsOwn, FoundIsOwn DEF OwnRecords, Looking
  <2>2. f \in Entry /\ f.created
    BY <1>1, <2>1, CallsLeaveEntries
  <2>3. Counted(e, f)
    BY <2>1, <1>2, NoNewIntent DEF Counted
  <2> HIDE DEF k
  <2> QED BY <1>2, <2>1, <2>2, <2>3 DEF StoresCall, Looking, Abs!Call, Abs!Settle, k
<1>3. /\ \A ttl \in BOOLEAN : Abs!CommittedWith(e, token, ttl) \in Abs!Settlements(e, token)
      /\ \A err \in Errors : /\ Aborted(e, err) \in Abs!Settlements(e, token)
                              /\ AbortedClean(e, err) \in Abs!Settlements(e, token)
      /\ Aborted(e, "UncommittedIntent") \in Abs!Settlements(e, token)
  BY SameOperators DEF Abs!Settlements
<1>4. CASE \E ttl \in BOOLEAN : CommitSlot(token, ttl)
  BY <1>1, <1>2, <1>3, <1>4 DEF CommitSlot
<1>5. CASE \E err \in Errors : Abort(token, err) \/ AbortProvenClean(token, err)
  BY <1>1, <1>2, <1>3, <1>5 DEF Abort, AbortProvenClean
<1>6. CASE ResolveIntent(token)
  BY <1>1, <1>2, <1>3, <1>6 DEF ResolveIntent, Abort, CommitSlot
<1> QED BY <1>1, <1>4, <1>5, <1>6 DEF CallWith

(* What a recovery sweep does about an intent is a call of the map.        *)
LEMMA ResolutionStores ==
  ASSUME SlotsOK, Chained, NEW s \in Sweepers, NEW k \in Keys,
         AbortIntentByAddress(s, k) \/ ReleasePopulationClaim(s, k)
  PROVE  StoresCall(k)
<1>1. /\ IntentAborted(Look(k), "UncommittedIntent") \in Abs!LookUps(Look(k))
      /\ ClaimReleased(Look(k)) \in Abs!LookUps(Look(k))
  BY SameOperators DEF Abs!LookUps
<1> QED BY <1>1, LookingStores DEF AbortIntentByAddress, ReleasePopulationClaim

-----------------------------------------------------------------------------
(* sweep_expired takes one shard and marks expired entries stale: every    *)
(* key keeps its slot.                                                     *)
LEMMA SweepExpiredKeepsInv ==
  ASSUME SlotsOK, Chained, SweepExpired
  PROVE  /\ SlotsOK' /\ Chained'
         /\ \A k \in Keys : \/ Look(k)' = Look(k)
                            \/ Demotable(Look(k)) /\ Look(k)' = MarkedStale(Look(k))
<1> DEFINE Hit(i) == i[1] = pass.next /\ Occupied(i) /\ Demotable(slots[i].entry)
<1>1. /\ slots' \in [Place -> {slots'[i] : i \in Place}]
      /\ \A i \in Place : slots'[i] = IF Hit(i) THEN [slots[i] EXCEPT !.entry = MarkedStale(@)]
                                                 ELSE slots[i]
  BY DEF SweepExpired, Place
<1>2. \A i \in Place : Occupied(i) => slots[i] \in Slot /\ slots[i].entry \in Entry
  BY DEF SlotsOK, Slot, Occupied
<1> HIDE DEF Hit
<1>3. ASSUME NEW i \in Place, Occupied(i)
      PROVE  /\ slots'[i] \in Slot /\ slots'[i].key = slots[i].key /\ slots'[i].entry.created
             /\ slots'[i] # Empty
             /\ \/ slots'[i].entry = slots[i].entry
                \/ /\ Demotable(slots[i].entry)
                   /\ slots'[i].entry = MarkedStale(slots[i].entry)
  <2>1. slots[i] \in Slot /\ slots[i].entry \in Entry /\ slots[i].entry.created
    BY <1>2, <1>3 DEF SlotsOK
  <2>2. MarkedStale(slots[i].entry) \in Entry /\ MarkedStale(slots[i].entry).created
    BY <2>1, EntryTypes, CreatedStays
  <2>3. CASE ~Hit(i)
    BY <1>1, <1>3, <2>1, <2>3 DEF Occupied
  <2>4. CASE Hit(i)
    <3>1. slots'[i] = [slots[i] EXCEPT !.entry = MarkedStale(slots[i].entry)]
      BY <1>1, <2>4
    <3>2. slots'[i] \in Slot /\ slots'[i].key = slots[i].key
          /\ slots'[i].entry = MarkedStale(slots[i].entry)
      BY <3>1, <2>1, <2>2 DEF Slot
    <3>3. slots'[i] # Empty
      BY <3>2, SMT DEF Slot, Empty
    <3> QED BY <2>2, <2>4, <3>2, <3>3 DEF Hit
  <2> QED BY <2>3, <2>4
<1>4. \A i \in Place : ~Occupied(i) => slots'[i] = Empty
  BY <1>1 DEF Hit, Occupied
<1>5. \A i \in Place : Occupied(i)' <=> Occupied(i)
  BY <1>3, <1>4 DEF Occupied
<1>6. SlotsOK'
  <2>1. \A i \in Place : slots'[i] \in Slot \cup {Empty}
    BY <1>3, <1>4
  <2>2. slots' \in [Place -> Slot \cup {Empty}]
    BY <1>1, <2>1
  <2> QED BY <2>2, <1>3, <1>5 DEF SlotsOK
<1>7. Chained'
  <2> SUFFICES ASSUME NEW i \in Place, NEW n \in Keys, Occupied(i), n = slots'[i].key
               PROVE  Reached(i, n)'
    BY <1>3, <1>5 DEF Chained, Slot
  <2>1. n = slots[i].key
    BY <1>3
  <2>2. PICK d \in Index :
          /\ i = Probe[n][d]
          /\ \A c \in Index : c < d => Occupied(Probe[n][c]) /\ slots[Probe[n][c]].key # n
    BY <2>1, SMT DEF Chained, Reached
  <2>3. \A c \in Index : Probe[n][c] \in Place
    BY ProbeInTable
  <2>4. \A c \in Index : c < d => Occupied(Probe[n][c])' /\ slots'[Probe[n][c]].key # n
    BY <2>2, <2>3, <1>3, <1>5
  <2> QED BY <2>2, <2>4 DEF Reached
<1>8. OwnRecords /\ OwnRecords'
  BY <1>6, <1>7, LookIsOwn, PTL
<1>9. ASSUME NEW k \in Keys
      PROVE  \/ Look(k)' = Look(k)
             \/ Demotable(Look(k)) /\ Look(k)' = MarkedStale(Look(k))
  <2>1. CASE \E i \in Place : Occupied(i) /\ slots[i].key = k
    <3>1. PICK i \in Place : Occupied(i) /\ slots[i].key = k
      BY <2>1
    <3>2. Look(k) = slots[i].entry
      BY <3>1, <1>8 DEF OwnRecords
    <3>3. Look(k)' = slots'[i].entry
      BY <3>1, <1>3, <1>5, <1>8 DEF OwnRecords
    <3> QED BY <3>1, <3>2, <3>3, <1>3
  <2>2. CASE \A i \in Place : Occupied(i) => slots[i].key # k
    <3>1. \A i \in Place : Occupied(i)' => slots'[i].key # k
      BY <2>2, <1>3, <1>5
    <3> QED BY <2>2, <3>1, <1>8 DEF OwnRecords
  <2> QED BY <2>1, <2>2
<1> QED BY <1>6, <1>7, <1>9

(* The passes that only look leave the records alone.                      *)
LEMMA LooksKept ==
  ASSUME UNCHANGED slots
  PROVE  /\ SlotsOK' <=> SlotsOK
         /\ Chained' <=> Chained
         /\ \A k \in Keys : Look(k)' = Look(k)
BY SMT DEF SlotsOK, Chained, Reached, Look, Found, Stops, Occupied

(* The steps of the table: a stored call, a sweep of one shard, or a step  *)
(* that leaves every record and every token as it is.                      *)
LEMMA NextStores ==
  ASSUME TableInv, TableNext
  PROVE  \/ \E k \in Keys : StoresCall(k)
         \/ SweepExpired
         \/ UNCHANGED <<slots, tokens>>
<1> USE DEF TableInv
<1>1. CASE \E k \in Keys : CallOn(k)
  BY <1>1, CallOnStores
<1>2. CASE \E token \in tokens : CallWith(token)
  BY <1>2, CallWithStores
<1>3. CASE PassStep
  <2>1. CASE \E kind \in {"stats", "expiry"} : PassBegins(kind)
    BY <2>1 DEF PassBegins
  <2>2. CASE PlaneStats \/ PassEnds
    BY <2>2 DEF PlaneStats, PassEnds
  <2>3. CASE \E x \in Sweepers : StaleIntents(x)
    BY <2>3 DEF StaleIntents
  <2>4. CASE \E x \in Sweepers : \E k \in Keys :
               AbortIntentByAddress(x, k) \/ ReleasePopulationClaim(x, k)
    BY <2>4, ResolutionStores
  <2> QED BY <1>3, <2>1, <2>2, <2>3, <2>4 DEF PassStep
<1> QED BY <1>1, <1>2, <1>3 DEF TableNext

(* A call of the map hands out at most a token of the right type.          *)
LEMMA TokensKept ==
  ASSUME TokensOK, NEW k \in Keys, NEW e \in Entry, NEW f, Abs!Call(k, e, f)
  PROVE  TokensOK'
<1>1. CASE UNCHANGED tokens
  BY <1>1 DEF TokensOK
<1>2. CASE Abs!Prepare(k, e, f)
  <2>1. PICK t \in Tiers, kind \in Abs!IntentKind :
          tokens' = tokens \cup {Abs!TokenOf(k, e, t, kind)}
    BY <1>2 DEF Abs!Prepare
  <2>2. t \in Abs!Rung /\ e.generation \in Nat
    BY ArgumentsAreTyped, SameOperators DEF Entry
  <2>3. Abs!TokenOf(k, e, t, kind) \in Abs!Token
    BY <2>2 DEF Abs!TokenOf, Abs!Token
  <2> QED BY <2>1, <2>3 DEF TokensOK
<1> QED BY <1>1, <1>2 DEF Abs!Call, Abs!Create, Abs!LookUp, Abs!Settle

(* The invariant of the table is inductive.                                *)
LEMMA TableInvInductive ==
  /\ TableInit => TableInv
  /\ TableInv /\ [TableNext]_tableVars => TableInv'
<1>1. ASSUME TableInit PROVE TableInv
  <2>1. \A i \in Place : ~Occupied(i)
    BY <1>1 DEF TableInit, Place, Occupied
  <2>2. slots \in [Place -> Slot \cup {Empty}]
    BY <1>1 DEF TableInit, Place
  <2>3. tokens = {}
    BY <1>1 DEF TableInit
  <2> QED BY <2>1, <2>2, <2>3 DEF TableInv, SlotsOK, Chained, TokensOK
<1>2. ASSUME TableInv, [TableNext]_tableVars PROVE TableInv'
  <2>1. ASSUME NEW k \in Keys, StoresCall(k) PROVE TableInv'
    <3>1. PICK f \in Entry : f.created /\ ~Full(k) /\ Store(k, f) /\ Abs!Call(k, Look(k), f)
      BY <2>1 DEF StoresCall
    <3>2. SlotsOK' /\ Chained'
      BY <1>2, <3>1, StoreKeepsInv DEF TableInv
    <3>3. Look(k) \in Entry
      BY <1>2, LookIsOwn DEF TableInv, OwnRecords
    <3>4. TokensOK'
      BY <1>2, <3>1, <3>3, TokensKept DEF TableInv
    <3> QED BY <3>2, <3>4 DEF TableInv
  <2>2. CASE SweepExpired
    BY <1>2, <2>2, SweepExpiredKeepsInv DEF TableInv, SweepExpired, TokensOK
  <2>3. CASE UNCHANGED <<slots, tokens>>
    BY <1>2, <2>3, LooksKept DEF TableInv, TokensOK
  <2>4. UNCHANGED tableVars => UNCHANGED <<slots, tokens>>
    BY DEF tableVars
  <2> QED BY <1>2, <2>1, <2>2, <2>3, <2>4, NextStores
<1> QED BY <1>1, <1>2

(* In every reachable state each key has at most one slot, at the end of   *)
(* an unbroken probe chain.                                                *)
THEOREM TableInvariant == TableSpec => []TableInv
BY TableInvInductive, PTL DEF TableSpec

-----------------------------------------------------------------------------
(* The sharded, probed table implements the map: every method of Cachelito *)
(* acts on the record of its own key and on no other, whatever the         *)
(* placements, the number of shards and their capacity.                    *)
THEOREM TableImplementsMap == TableSpec => ImplementsMap
<1>1. TableInit => Abs!Init
  <2> SUFFICES ASSUME TableInit PROVE Abs!Init
    OBVIOUS
  <2>1. SlotsOK /\ Chained /\ tokens = {} /\ \A i \in Place : ~Occupied(i)
    BY TableInvInductive DEF TableInv, TableInit, Place, Occupied
  <2>2. \A k \in Keys : Look(k) = NewEntry
    BY <2>1, LookIsOwn DEF OwnRecords
  <2> QED BY <2>1, <2>2, SameOperators DEF Abs!Init
<1>2. ASSUME TableInv, [TableNext]_tableVars
      PROVE  [Abs!Next]_<<[k \in Keys |-> Look(k)], tokens>>
  <2>1. ASSUME NEW k \in Keys, StoresCall(k) PROVE Abs!Next
    <3>1. PICK f \in Entry : f.created /\ ~Full(k) /\ Store(k, f) /\ Abs!Call(k, Look(k), f)
      BY <2>1 DEF StoresCall
    <3> QED BY <1>2, <3>1, StoreIsMapStep DEF TableInv
  <2>2. CASE SweepExpired
    <3>1. \A k \in Keys : \/ Look(k)' = Look(k)
                          \/ Demotable(Look(k)) /\ Look(k)' = MarkedStale(Look(k))
      BY <1>2, <2>2, SweepExpiredKeepsInv DEF TableInv
    <3>2. tokens' = tokens
      BY <2>2 DEF SweepExpired
    <3>3. Abs!Sweep
      BY <3>1, <3>2, SameOperators DEF Abs!Sweep
    <3> QED BY <3>3 DEF Abs!Next
  <2>3. CASE UNCHANGED <<slots, tokens>>
    <3>1. \A k \in Keys : Look(k)' = Look(k)
      BY <2>3, LooksKept
    <3>2. [k \in Keys |-> Look(k)]' = [k \in Keys |-> Look(k)]
      BY <3>1
    <3> QED BY <2>3, <3>2
  <2>4. UNCHANGED tableVars => UNCHANGED <<slots, tokens>>
    BY DEF tableVars
  <2> QED BY <1>2, <2>1, <2>2, <2>3, <2>4, NextStores
<1> QED BY <1>1, <1>2, TableInvariant, PTL DEF TableSpec, ImplementsMap, Abs!Spec

-----------------------------------------------------------------------------
(* Division with remainder is unique.                                      *)
LEMMA RemainderIs ==
  ASSUME NEW C \in Nat, C > 0, NEW q \in Nat, NEW m \in Nat, m < C
  PROVE  (C * q + m) % C = m
<1> DEFINE a == C * q + m
           x == a \div C
           y == a % C
<1>1. C * q \in Nat /\ a \in Nat
  BY SMT
<1>2. x \in Nat /\ y \in Nat /\ y < C /\ a = C * x + y
  BY <1>1, SMT
<1>3. \A u, v \in Nat : u < v => C * u + C <= C * v
  <2> SUFFICES ASSUME NEW u \in Nat, NEW v \in Nat, u < v
               PROVE  C * u + C <= C * v
    OBVIOUS
  <2>1. PICK w \in Nat : v = u + 1 + w
    <3>1. v - u - 1 \in Nat /\ v = u + 1 + (v - u - 1)
      BY SMT
    <3> QED BY <3>1
  <2>2. C * v = C * u + C + C * w
    BY <2>1, SMT
  <2>3. C * w \in Nat /\ C * u \in Nat
    BY SMT
  <2> QED BY <2>2, <2>3, SMT
<1>4. C * x \in Nat
  BY <1>2, SMT
<1> HIDE DEF x, y
<1>5. ~(x < q)
  <2>1. x < q => C * x + C <= C * q
    BY <1>2, <1>3
  <2> QED BY <1>1, <1>2, <1>4, <2>1, SMT
<1>6. ~(q < x)
  <2>1. q < x => C * q + C <= C * x
    BY <1>2, <1>3
  <2> QED BY <1>1, <1>2, <1>4, <2>1, SMT
<1>7. x = q
  BY <1>2, <1>5, <1>6, SMT
<1>8. y = m
  BY <1>1, <1>2, <1>7, SMT
<1> QED BY <1>8 DEF y

(* A probe visits every slot of its shard.                                 *)
LEMMA ProbeIsOnto ==
  ASSUME NEW k \in Keys, NEW n \in Index
  PROVE  \E d \in Index : Probe[k][d] = <<ShardFor(k), n>>
<1> DEFINE r == Placement[k] % Capacity
           q == Placement[k] \div Capacity
<1>1. /\ Placement[k] \in Nat /\ Capacity \in Nat /\ Capacity > 0
      /\ n \in Nat /\ n < Capacity
  BY PlacementsAreNat, CapacityIsPositive, SMT DEF Index
<1>2. /\ r \in Nat /\ r < Capacity
      /\ q \in Nat /\ Placement[k] = Capacity * q + r
  BY <1>1, SMT
<1>3. \A m \in Nat : m < Capacity => (Capacity * q + m) % Capacity = m
  BY <1>1, <1>2, RemainderIs
<1>4. \A m \in Nat : m < Capacity => (Capacity * q + (Capacity + m)) % Capacity = m
  <2>0. q + 1 \in Nat
    BY <1>2, SMT
  <2>1. \A m \in Nat : m < Capacity => (Capacity * (q + 1) + m) % Capacity = m
    BY <1>1, <2>0, RemainderIs
  <2>2. \A m \in Nat : Capacity * (q + 1) + m = Capacity * q + (Capacity + m)
    BY <1>1, <1>2, SMT
  <2> QED BY <2>1, <2>2
<1> HIDE DEF r, q
<1>5. CASE r <= n
  <2>1. n - r \in Index /\ Placement[k] + (n - r) = Capacity * q + n
    BY <1>1, <1>2, <1>5, SMT DEF Index
  <2> QED BY <1>1, <1>3, <2>1 DEF Probe
<1>6. CASE n < r
  <2>1. /\ n + Capacity - r \in Index
        /\ Placement[k] + (n + Capacity - r) = Capacity * q + (Capacity + n)
    BY <1>1, <1>2, <1>6, SMT DEF Index
  <2> QED BY <1>1, <1>4, <2>1 DEF Probe
<1> QED BY <1>1, <1>2, <1>5, <1>6, SMT

(* find_or_create_entry refuses a key only when its shard is full of other *)
(* keys, for every placement.                                              *)
THEOREM RoomIsAlwaysFound == TableSpec => []RoomIsFound
<1>1. TableInv => RoomIsFound
  <2> SUFFICES ASSUME TableInv, NEW k \in Keys, ~Known(k)
               PROVE  /\ \A i \in Taken : slots[i].key # k
                      /\ Full(k) => \A n \in Index : Occupied(<<ShardFor(k), n>>)
    BY DEF RoomIsFound
  <2>1. ASSUME NEW i \in Taken, slots[i].key = k PROVE FALSE
    <3>1. i \in Place /\ Occupied(i)
      BY DEF Taken, Place
    <3>2. ~Full(k) /\ Spot(k) = i /\ Found(k) = slots[Spot(k)]
      BY <2>1, <3>1, FoundIsOwn DEF TableInv
    <3> QED BY <3>1, <3>2 DEF Known, Occupied
  <2>2. ASSUME Full(k), NEW n \in Index PROVE Occupied(<<ShardFor(k), n>>)
    <3>1. PICK d \in Index : Probe[k][d] = <<ShardFor(k), n>>
      BY ProbeIsOnto
    <3> QED BY <2>2, <3>1 DEF Full, Stops
  <2> QED BY <2>1, <2>2
<1> QED BY <1>1, TableInvariant, PTL

-----------------------------------------------------------------------------
(* Recovery counts: what was recovered and what is still outstanding never *)
(* exceed the intents that were recorded.                                  *)
Outstanding == {k \in Keys : HasIntent(Look(k))}

RecoveryInv ==
  /\ prepares \in Nat /\ recovered \in Nat
  /\ recovered + Cardinality(Outstanding) <= prepares

(* The two counters move in prepare and in abort_intent_by_address only.   *)
LEMMA CountersMove ==
  ASSUME [TableNext]_tableVars
  PROVE  \/ UNCHANGED <<prepares, recovered>>
         \/ prepares' = prepares + 1 /\ UNCHANGED recovered
         \/ \E s \in Sweepers, k \in Keys : AbortIntentByAddress(s, k)
<1>1. ASSUME NEW k \in Keys, CallOn(k)
      PROVE  \/ UNCHANGED <<prepares, recovered>>
             \/ prepares' = prepares + 1 /\ UNCHANGED recovered
  BY <1>1 DEF CallOn, Acquire, SetTier, PublishSlot, FailWithError, InvalidateSlot, BumpGeneration,
              ReserveEviction, SetGeneration, PrepareRefused, SetState, PrepareSlot, ElapseSlotTtl,
              AgeIntent, KeepsPasses
<1>2. ASSUME NEW token \in tokens, CallWith(token)
      PROVE  UNCHANGED <<prepares, recovered>>
  BY <1>2 DEF CallWith, CommitSlot, Abort, AbortProvenClean, ResolveIntent, KeepsPasses
<1>3. ASSUME PassStep
      PROVE  \/ UNCHANGED <<prepares, recovered>>
             \/ \E s \in Sweepers, k \in Keys : AbortIntentByAddress(s, k)
  BY <1>3 DEF PassStep, PassBegins, PlaneStats, SweepExpired, PassEnds, StaleIntents,
              ReleasePopulationClaim
<1>4. UNCHANGED tableVars => UNCHANGED <<prepares, recovered>>
  BY DEF tableVars
<1> QED BY <1>1, <1>2, <1>3, <1>4 DEF TableNext

(* What a step does to the set of outstanding intents.                     *)
LEMMA OutstandingMoves ==
  ASSUME TableInv, [TableNext]_tableVars
  PROVE  \/ Outstanding' \subseteq Outstanding
         \/ prepares' = prepares + 1 /\ \E k \in Keys : Outstanding' \subseteq Outstanding \cup {k}
<1>1. ASSUME NEW k \in Keys, StoresCall(k)
      PROVE  \/ Outstanding' \subseteq Outstanding
             \/ prepares' = prepares + 1 /\ Outstanding' \subseteq Outstanding \cup {k}
  <2>1. PICK f \in Entry : /\ f.created /\ ~Full(k) /\ Store(k, f)
                          /\ Counted(Look(k), f)
    BY <1>1 DEF StoresCall
  <2>2. Look(k)' = f /\ \A j \in Keys \ {k} : Look(j)' = Look(j)
    BY <2>1, StoreKeepsInv DEF TableInv
  <2>3. Outstanding' \subseteq Outstanding \cup {k}
    BY <2>2 DEF Outstanding
  <2>4. HasIntent(f) => HasIntent(Look(k)) \/ prepares' = prepares + 1
    BY <2>1 DEF Counted
  <2>5. (HasIntent(f) => HasIntent(Look(k))) => Outstanding' \subseteq Outstanding
    BY <2>2 DEF Outstanding
  <2> QED BY <2>3, <2>4, <2>5
<1>2. CASE SweepExpired
  <2>1. \A k \in Keys : \/ Look(k)' = Look(k)
                        \/ Look(k)' = MarkedStale(Look(k))
    BY <1>2, SweepExpiredKeepsInv DEF TableInv
  <2>2. \A k \in Keys : HasIntent(MarkedStale(Look(k))) => HasIntent(Look(k))
    BY LookIsOwn DEF TableInv, OwnRecords, MarkedStale, HasIntent, Entry
  <2>3. \A k \in Keys : HasIntent(Look(k))' => HasIntent(Look(k))
    BY <2>1, <2>2 DEF HasIntent
  <2> QED BY <2>3 DEF Outstanding
<1>3. CASE UNCHANGED <<slots, tokens>>
  BY <1>3, LooksKept DEF Outstanding
<1>4. UNCHANGED tableVars => UNCHANGED <<slots, tokens>>
  BY DEF tableVars
<1> QED BY <1>1, <1>2, <1>3, <1>4, NextStores

(* A sweep that reports a recovery took an outstanding intent away.        *)
LEMMA AbortTakesIntent ==
  ASSUME TableInv, NEW s \in Sweepers, NEW k \in Keys, AbortIntentByAddress(s, k)
  PROVE  /\ prepares' = prepares
         /\ Cleared(k) => k \in Outstanding /\ Outstanding' \subseteq Outstanding \ {k}
         /\ recovered' = IF Cleared(k) THEN recovered + 1 ELSE recovered
<1> DEFINE f == IntentAborted(Look(k), "UncommittedIntent")
<1>1. Look(k) \in Entry /\ Look(k).created /\ ~Full(k) /\ Store(k, f)
  BY LookIsOwn, FoundIsOwn DEF TableInv, OwnRecords, AbortIntentByAddress, Looking
<1>2. f \in Entry /\ f.created
  BY <1>1, EntryTypes, CreatedStays
<1>3. Cleared(k) => HasIntent(Look(k)) /\ ~HasIntent(f)
  BY <1>1 DEF Cleared, HasIntent, IntentAborted, Aborted, NoIntent, Entry
<1> HIDE DEF f
<1>4. Look(k)' = f /\ \A j \in Keys \ {k} : Look(j)' = Look(j)
  BY <1>1, <1>2, StoreKeepsInv DEF TableInv
<1>5. Cleared(k) => k \in Outstanding /\ Outstanding' \subseteq Outstanding \ {k}
  BY <1>3, <1>4 DEF Outstanding
<1> QED BY <1>5 DEF AbortIntentByAddress

(* Recoveries and outstanding intents together stay within the intents     *)
(* recorded.                                                               *)
LEMMA RecoveryInvInductive ==
  /\ TableInit => RecoveryInv
  /\ TableInv /\ RecoveryInv /\ [TableNext]_tableVars => RecoveryInv'
<1>1. ASSUME TableInit PROVE RecoveryInv
  <2>1. SlotsOK /\ Chained /\ \A i \in Place : ~Occupied(i)
    BY <1>1, TableInvInductive DEF TableInv, TableInit, Place, Occupied
  <2>2. \A k \in Keys : Look(k) = NewEntry
    BY <2>1, LookIsOwn DEF OwnRecords
  <2>3. Outstanding = {}
    BY <2>2, SMT DEF Outstanding, HasIntent, NewEntry, NoIntent
  <2> QED BY <1>1, <2>3, FS_EmptySet, SMT DEF TableInit, RecoveryInv
<1>2. ASSUME TableInv, RecoveryInv, [TableNext]_tableVars PROVE RecoveryInv'
  <2> DEFINE O == Outstanding
             N == Outstanding'
  <2>1. O \subseteq Keys /\ N \subseteq Keys
    BY DEF Outstanding
  <2> HIDE DEF O, N
  <2>2. /\ IsFiniteSet(O) /\ IsFiniteSet(N)
        /\ Cardinality(O) \in Nat /\ Cardinality(N) \in Nat
    BY <2>1, KeysAreFinite, FS_Subset, FS_CardinalityType
  <2>3. prepares \in Nat /\ recovered \in Nat /\ recovered + Cardinality(O) <= prepares
    BY <1>2 DEF RecoveryInv, O
  <2>4. N \subseteq O => Cardinality(N) <= Cardinality(O)
    BY <2>2, FS_Subset
  <2>5. ASSUME NEW k \in Keys, N \subseteq O \cup {k} PROVE Cardinality(N) <= Cardinality(O) + 1
    <3>1. /\ IsFiniteSet(O \cup {k})
          /\ Cardinality(O \cup {k}) = Cardinality(O) \/ Cardinality(O \cup {k}) = Cardinality(O) + 1
      BY <2>2, FS_AddElement
    <3>2. Cardinality(N) <= Cardinality(O \cup {k})
      BY <2>5, <3>1, FS_Subset
    <3> QED BY <2>2, <3>1, <3>2, SMT
  <2>6. ASSUME NEW k \in Keys, k \in O, N \subseteq O \ {k} PROVE Cardinality(N) <= Cardinality(O) - 1
    <3>1. IsFiniteSet(O \ {k}) /\ Cardinality(O \ {k}) = Cardinality(O) - 1
      BY <2>2, <2>6, FS_RemoveElement
    <3>2. Cardinality(N) <= Cardinality(O \ {k})
      BY <2>6, <3>1, FS_Subset
    <3> QED BY <3>1, <3>2
  <2>7. /\ prepares' \in Nat /\ recovered' \in Nat
        /\ recovered' + Cardinality(N) <= prepares'
    <3>1. CASE \E s \in Sweepers, k \in Keys : AbortIntentByAddress(s, k)
      <4>1. PICK s \in Sweepers, k \in Keys : AbortIntentByAddress(s, k)
        BY <3>1
      <4>2. /\ prepares' = prepares
            /\ Cleared(k) => k \in O /\ N \subseteq O \ {k}
            /\ recovered' = IF Cleared(k) THEN recovered + 1 ELSE recovered
        BY <1>2, <4>1, AbortTakesIntent DEF O, N
      <4>3. CASE Cleared(k)
        BY <4>2, <4>3, <2>2, <2>3, <2>6, SMT
      <4>4. CASE ~Cleared(k)
        <5>1. N \subseteq O \/ prepares' = prepares + 1
          BY <1>2, OutstandingMoves DEF O, N
        <5> QED BY <5>1, <4>2, <4>4, <2>2, <2>3, <2>4, SMT
      <4> QED BY <4>3, <4>4
    <3>2. CASE UNCHANGED <<prepares, recovered>>
      <4>1. N \subseteq O \/ prepares' = prepares + 1
        BY <1>2, OutstandingMoves DEF O, N
      <4> QED BY <3>2, <4>1, <2>2, <2>3, <2>4, SMT
    <3>3. CASE prepares' = prepares + 1 /\ UNCHANGED recovered
      <4>1. N \subseteq O \/ \E k \in Keys : N \subseteq O \cup {k}
        BY <1>2, OutstandingMoves DEF O, N
      <4> QED BY <3>3, <4>1, <2>2, <2>3, <2>4, <2>5, SMT
    <3> QED BY <1>2, <3>1, <3>2, <3>3, CountersMove
  <2> QED BY <2>7 DEF RecoveryInv, N
<1> QED BY <1>1, <1>2

(* However many sweeps race one another and the writers, they report no    *)
(* more recoveries than intents were recorded.                             *)
THEOREM RecoveriesAreAlwaysReal == TableSpec => []RecoveriesAreReal
<1>1. RecoveryInv => RecoveriesAreReal
  <2>1. Outstanding \subseteq Keys
    BY DEF Outstanding
  <2>2. Cardinality(Outstanding) \in Nat
    BY <2>1, KeysAreFinite, FS_Subset, FS_CardinalityType
  <2> QED BY <2>2, SMT DEF RecoveryInv, RecoveriesAreReal
<1> QED BY <1>1, TableInvariant, RecoveryInvInductive, PTL DEF TableSpec

-----------------------------------------------------------------------------
(* The statistics: one shard at a time, while the table changes.           *)

-----------------------------------------------------------------------------
(* plane_stats.  The shards before n have been counted, those from n on    *)
(* have not; a slot taken in the meantime is counted when its shard comes  *)
(* later, and a slot that was taken when the pass began is still there     *)
(* when its shard comes.                                                   *)
Behind(n) == {i \in Taken : i[1] < n}

(* The slots that are taken in shard n.                                    *)
Row(n) == Taken \cap ({n} \X Index)

(* The slots that are taken in the shards from n on.                       *)
Ahead(n) == {i \in Taken : i[1] >= n}

(* The maintenance pass is a record of numbers.                            *)
PassRecord ==
  [kind : {"none", "stats", "expiry"}, next : Nat, floor : Nat, occupied : Nat,
   byTier : [Rung -> Nat]]

(* The count so far: no more than what is behind, and with what is ahead   *)
(* no less than what there was when the pass began.                        *)
StatsInv ==
  /\ pass \in PassRecord
  /\ pass.kind = "stats" =>
       /\ pass.next <= ShardCount
       /\ pass.occupied <= Cardinality(Behind(pass.next))
       /\ pass.floor <= pass.occupied + Cardinality(Ahead(pass.next))
       /\ Total(pass.byTier) = pass.occupied

(* There are finitely many slots.                                          *)
LEMMA PlacesAreFinite == IsFiniteSet(Place)
<1>1. IsFiniteSet(Shard) /\ IsFiniteSet(Index)
  BY FS_Interval, ShardCountIsPositive, CapacityIsPositive, SMT DEF Shard, Index
<1> QED BY <1>1, FS_Product DEF Place

(* A part and the rest of a finite set make up its size.                   *)
LEMMA SplitOff ==
  ASSUME NEW S, IsFiniteSet(S), NEW A \in SUBSET S
  PROVE  /\ IsFiniteSet(A) /\ IsFiniteSet(S \ A)
         /\ Cardinality(A) \in Nat /\ Cardinality(S \ A) \in Nat
         /\ Cardinality(S) = Cardinality(A) + Cardinality(S \ A)
<1>1. IsFiniteSet(A) /\ IsFiniteSet(S \ A)
  BY FS_Subset, FS_Difference
<1>2. Cardinality(S \ A) = Cardinality(S) - Cardinality(S \cap A)
  BY FS_Difference
<1>3. Cardinality(S \cap A) = Cardinality(A)
  <2>1. S \cap A = A
    OBVIOUS
  <2> QED BY <2>1, Zenon
<1>4. Cardinality(A) \in Nat /\ Cardinality(S \ A) \in Nat /\ Cardinality(S) \in Nat
  BY <1>1, FS_CardinalityType
<1> DEFINE a == Cardinality(A)
           b == Cardinality(S \ A)
           m == Cardinality(S)
<1>5. a \in Nat /\ b \in Nat /\ m \in Nat /\ b = m - a
  BY <1>2, <1>3, <1>4
<1> HIDE DEF a, b, m
<1>6. m = a + b
  BY <1>5, SMT
<1> QED BY <1>1, <1>4, <1>6 DEF a, b, m

(* The keys of a finite set, counted rung by rung, are all of them.        *)
LEMMA RungsPartition ==
  ASSUME NEW S, IsFiniteSet(S), NEW f \in [S -> Rung]
  PROVE  Cardinality(S) = Total([t \in Rung |-> Cardinality({k \in S : f[k] = t})])
<1> DEFINE P(t) == {k \in S : f[k] = t}
           R(t) == {k \in S : f[k] >= t}
<1>1. R(0) = S /\ R(6) = P(6)
  BY SMT DEF Rung
<1>2. \A t \in Rung : P(t) \subseteq R(t) /\ R(t) \ P(t) = R(t + 1) /\ R(t) \subseteq S
  BY SMT DEF Rung
<1> HIDE DEF P, R
<1>3. ASSUME NEW t \in Rung
      PROVE  /\ Cardinality(P(t)) \in Nat /\ Cardinality(R(t + 1)) \in Nat
             /\ Cardinality(R(t)) = Cardinality(P(t)) + Cardinality(R(t + 1))
  <2>1. IsFiniteSet(R(t))
    BY <1>2, FS_Subset
  <2> QED BY <1>2, <2>1, SplitOff, SMT
<1>4. 0 \in Rung /\ 1 \in Rung /\ 2 \in Rung /\ 3 \in Rung /\ 4 \in Rung /\ 5 \in Rung /\ 6 \in Rung
  BY SMT DEF Rung
<1>5. /\ Cardinality(R(0)) = Cardinality(P(0)) + Cardinality(R(1))
      /\ Cardinality(R(1)) = Cardinality(P(1)) + Cardinality(R(2))
      /\ Cardinality(R(2)) = Cardinality(P(2)) + Cardinality(R(3))
      /\ Cardinality(R(3)) = Cardinality(P(3)) + Cardinality(R(4))
      /\ Cardinality(R(4)) = Cardinality(P(4)) + Cardinality(R(5))
      /\ Cardinality(R(5)) = Cardinality(P(5)) + Cardinality(R(6))
  BY <1>3, <1>4, SMT
<1>6. \A t \in Rung : Cardinality(P(t)) \in Nat
  BY <1>3
<1>7. Cardinality(R(0)) = Total([t \in Rung |-> Cardinality(P(t))])
  BY <1>1, <1>4, <1>5, <1>6, SMT DEF Total
<1> QED BY <1>1, <1>7 DEF P

(* A shard has as many keys as slots that are taken: no two slots have the *)
(* same key.                                                               *)
LEMMA OneKeyPerSlot ==
  ASSUME TableInv, NEW n \in Nat
  PROVE  /\ KeysOf(n) \subseteq Keys
         /\ IsFiniteSet(KeysOf(n))
         /\ Cardinality(KeysOf(n)) = Cardinality(Row(n))
<1> DEFINE f == [i \in Row(n) |-> slots[i].key]
<1>1. Row(n) \subseteq Place /\ KeysOf(n) = {slots[i].key : i \in Row(n)}
  BY DEF Row, Taken, Place, KeysOf
<1>2. \A i \in Row(n) : Occupied(i) /\ slots[i].key \in Keys
  BY <1>1 DEF Row, Taken, TableInv, SlotsOK, Slot, Occupied
<1>3. ASSUME NEW i \in Row(n), NEW j \in Row(n), slots[i].key = slots[j].key PROVE i = j
  <2>1. \A k \in Keys : \A x \in Place : Occupied(x) /\ slots[x].key = k => Spot(k) = x
    BY FoundIsOwn DEF TableInv
  <2> QED BY <1>1, <1>2, <1>3, <2>1
<1>4. f \in Bijection(Row(n), KeysOf(n))
  <2>1. f \in [Row(n) -> KeysOf(n)]
    BY <1>1
  <2>2. IsInjective(f)
    BY <1>3 DEF IsInjective
  <2>3. \A k \in KeysOf(n) : \E i \in Row(n) : f[i] = k
    BY <1>1
  <2> QED BY <2>1, <2>2, <2>3 DEF Bijection, Injection, Surjection
<1>5. IsFiniteSet(Row(n))
  BY <1>1, PlacesAreFinite, FS_Subset
<1>6. ExistsBijection(Row(n), KeysOf(n))
  BY <1>4 DEF ExistsBijection
<1> QED BY <1>1, <1>2, <1>5, <1>6, FS_Bijection

(* What the loop body of plane_stats adds: the slots of one shard, each    *)
(* under one rung.                                                         *)
LEMMA ShardIsCounted ==
  ASSUME TableInv, StatsInv, PlaneStats
  PROVE  StatsInv'
<1> DEFINE n == pass.next
           c == Cardinality(KeysOf(n))
           g == [t \in Rung |-> CountAt(n, t)]
           h == [t \in Rung |-> pass.byTier[t] + CountAt(n, t)]
<1>1. pass \in PassRecord /\ pass.kind = "stats" /\ pass.next < ShardCount
  BY DEF PlaneStats, StatsInv
<1>2. /\ n \in Nat /\ pass.floor \in Nat /\ pass.occupied \in Nat /\ ShardCount \in Nat
      /\ pass.byTier \in [Rung -> Nat]
  BY <1>1, ShardCountIsPositive DEF PassRecord
<1>3. /\ pass.occupied <= Cardinality(Behind(n))
      /\ pass.floor <= pass.occupied + Cardinality(Ahead(n))
      /\ Total(pass.byTier) = pass.occupied
  BY <1>1 DEF StatsInv
<1>4. /\ KeysOf(n) \subseteq Keys /\ IsFiniteSet(KeysOf(n)) /\ c = Cardinality(Row(n)) /\ c \in Nat
  BY <1>2, OneKeyPerSlot, FS_CardinalityType
<1>5. c = Total(g)
  <2> DEFINE f == [k \in KeysOf(n) |-> Look(k).tier]
  <2>1. f \in [KeysOf(n) -> Rung]
    BY <1>4, LookIsOwn DEF TableInv, OwnRecords, Entry
  <2>2. \A t \in Rung : {k \in KeysOf(n) : f[k] = t} = {k \in KeysOf(n) : Look(k).tier = t}
    OBVIOUS
  <2> HIDE DEF f
  <2>3. Cardinality(KeysOf(n)) = Total([t \in Rung |-> Cardinality({k \in KeysOf(n) : f[k] = t})])
    BY <1>4, <2>1, RungsPartition
  <2>4. [t \in Rung |-> Cardinality({k \in KeysOf(n) : f[k] = t})] = g
    BY <2>2 DEF CountAt
  <2> QED BY <2>3, <2>4
<1>6. \A t \in Rung : CountAt(n, t) \in Nat
  <2> SUFFICES ASSUME NEW t \in Rung PROVE CountAt(n, t) \in Nat
    OBVIOUS
  <2>1. {k \in KeysOf(n) : Look(k).tier = t} \subseteq KeysOf(n)
    OBVIOUS
  <2> QED BY <1>4, <2>1, FS_Subset, FS_CardinalityType DEF CountAt
<1>7. h \in [Rung -> Nat] /\ Total(h) = pass.occupied + c
  <2>1. h \in [Rung -> Nat]
    BY <1>2, <1>6, SMT
  <2>2. Total(h) = Total(pass.byTier) + Total(g)
    <3>1. 0 \in Rung /\ 1 \in Rung /\ 2 \in Rung /\ 3 \in Rung /\ 4 \in Rung /\ 5 \in Rung /\ 6 \in Rung
      BY SMT DEF Rung
    <3>2. \A t \in Rung : /\ h[t] = pass.byTier[t] + g[t]
                          /\ pass.byTier[t] \in Nat /\ g[t] \in Nat
      BY <1>2, <1>6
    <3> HIDE DEF h, g
    <3> QED BY <3>1, <3>2, SMT DEF Total
  <2> QED BY <2>1, <2>2, <1>3, <1>5
<1>8. pass' = [pass EXCEPT !.next = n + 1, !.occupied = pass.occupied + c, !.byTier = h]
  BY DEF PlaneStats
<1> HIDE DEF n, c, g, h
<1>9. /\ pass' \in PassRecord
      /\ pass'.kind = "stats" /\ pass'.next = n + 1 /\ pass'.floor = pass.floor
      /\ pass'.occupied = pass.occupied + c /\ pass'.byTier = h
  <2>1. n + 1 \in Nat /\ pass.occupied + c \in Nat /\ h \in [Rung -> Nat]
    BY <1>2, <1>4, <1>7, SMT
  <2> QED BY <1>1, <1>8, <2>1 DEF PassRecord
<1>11. /\ Row(n) \subseteq Behind(n + 1) /\ Behind(n + 1) \ Row(n) = Behind(n)
       /\ Row(n) \subseteq Ahead(n) /\ Ahead(n) \ Row(n) = Ahead(n + 1)
  <2>1. \A i \in Taken : i[1] \in Nat /\ i[2] \in Index /\ i = <<i[1], i[2]>>
    BY ShardCountIsPositive, SMT DEF Taken, Shard
  <2>2. \A i \in Taken : i \in Row(n) <=> i[1] = n
    BY <2>1, SMT DEF Row
  <2>3. Row(n) \subseteq Taken
    BY DEF Row
  <2> QED BY <1>2, <2>1, <2>2, <2>3, SMT DEF Behind, Ahead, n
<1>12. IsFiniteSet(Behind(n + 1)) /\ IsFiniteSet(Ahead(n))
  <2>1. Behind(n + 1) \subseteq Place /\ Ahead(n) \subseteq Place
    BY DEF Behind, Ahead, Taken, Place
  <2> QED BY <2>1, PlacesAreFinite, FS_Subset
<1>13. /\ Cardinality(Behind(n + 1)) = c + Cardinality(Behind(n))
       /\ Cardinality(Ahead(n)) = c + Cardinality(Ahead(n + 1))
       /\ Cardinality(Behind(n)) \in Nat /\ Cardinality(Ahead(n + 1)) \in Nat
  BY <1>4, <1>11, <1>12, SplitOff DEF c, n
<1>14. /\ pass'.occupied <= Cardinality(Behind(n + 1))
       /\ pass'.floor <= pass'.occupied + Cardinality(Ahead(n + 1))
       /\ pass'.next <= ShardCount
       /\ Total(pass'.byTier) = pass'.occupied
  <2>1. n < ShardCount /\ n \in Nat /\ ShardCount \in Nat
    BY <1>1, <1>2 DEF n
  <2>2. /\ pass.occupied <= Cardinality(Behind(n))
        /\ pass.floor <= pass.occupied + Cardinality(Ahead(n))
        /\ c \in Nat
    BY <1>3, <1>4 DEF n
  <2> QED BY <1>2, <1>7, <1>9, <1>13, <2>1, <2>2, SMT
<1>15. /\ Behind(pass.next)' = Behind(pass'.next)
       /\ Ahead(pass.next)' = Ahead(pass'.next)
  <2>1. slots' = slots
    BY DEF PlaneStats
  <2> QED BY <2>1 DEF Behind, Ahead, Taken, Occupied
<1> QED BY <1>9, <1>14, <1>15 DEF StatsInv

(* A slot that is taken stays taken.                                       *)
LEMMA TakenStays ==
  ASSUME TableInv, [TableNext]_tableVars
  PROVE  Taken \subseteq Taken'
<1>1. ASSUME NEW k \in Keys, StoresCall(k) PROVE Taken \subseteq Taken'
  <2>1. PICK f \in Entry : ~Full(k) /\ Store(k, f)
    BY <1>1 DEF StoresCall
  <2> DEFINE s == [key |-> k, entry |-> f]
  <2>2. slots' = [slots EXCEPT ![Spot(k)] = s] /\ s # Empty
    BY <2>1, SMT DEF Store, Empty
  <2> HIDE DEF s
  <2>3. \A i \in Place : Occupied(i) => Occupied(i)'
    BY <2>2 DEF Occupied, TableInv, SlotsOK
  <2> QED BY <2>3 DEF Taken, Place
<1>2. CASE SweepExpired
  <2>1. \A i \in Place : Occupied(i) => Occupied(i)'
    <3> SUFFICES ASSUME NEW i \in Place, Occupied(i) PROVE Occupied(i)'
      OBVIOUS
    <3>1. slots[i] \in Slot
      BY DEF TableInv, SlotsOK, Occupied
    <3>2. slots'[i] = slots[i] \/ slots'[i] = [slots[i] EXCEPT !.entry = MarkedStale(@)]
      BY <1>2 DEF SweepExpired, Place
    <3>3. [slots[i] EXCEPT !.entry = MarkedStale(@)] # Empty
      BY <3>1, SMT DEF Slot, Empty
    <3> QED BY <3>2, <3>3 DEF Occupied
  <2> QED BY <2>1 DEF Taken, Place
<1>3. CASE UNCHANGED <<slots, tokens>>
  BY <1>3 DEF Taken, Occupied
<1>4. UNCHANGED tableVars => UNCHANGED <<slots, tokens>>
  BY DEF tableVars
<1> QED BY <1>1, <1>2, <1>3, <1>4, NextStores

(* The passes move in their own steps only.                                *)
LEMMA PassMoves ==
  ASSUME [TableNext]_tableVars
  PROVE  \/ UNCHANGED pass
         \/ \E kind \in {"stats", "expiry"} : PassBegins(kind)
         \/ PlaneStats \/ SweepExpired \/ PassEnds
<1>1. ASSUME NEW k \in Keys, CallOn(k) PROVE UNCHANGED pass
  BY <1>1 DEF CallOn, Acquire, SetTier, PublishSlot, FailWithError, InvalidateSlot, BumpGeneration,
              ReserveEviction, SetGeneration, PrepareRefused, SetState, PrepareSlot, ElapseSlotTtl,
              AgeIntent, KeepsPasses
<1>2. ASSUME NEW token \in tokens, CallWith(token) PROVE UNCHANGED pass
  BY <1>2 DEF CallWith, CommitSlot, Abort, AbortProvenClean, ResolveIntent, KeepsPasses
<1>3. ASSUME NEW s \in Sweepers,
             StaleIntents(s) \/ \E k \in Keys : AbortIntentByAddress(s, k) \/ ReleasePopulationClaim(s, k)
      PROVE  UNCHANGED pass
  BY <1>3 DEF StaleIntents, AbortIntentByAddress, ReleasePopulationClaim
<1>4. UNCHANGED tableVars => UNCHANGED pass
  BY DEF tableVars
<1> QED BY <1>1, <1>2, <1>3, <1>4 DEF TableNext, PassStep

(* The count of plane_stats stays within its bounds, whatever is called    *)
(* between two shards.                                                     *)
LEMMA StatsInvInductive ==
  /\ TableInit => StatsInv
  /\ TableInv /\ StatsInv /\ [TableNext]_tableVars => StatsInv'
<1>0. NoPass \in PassRecord /\ NoPass.kind = "none"
  BY DEF NoPass, PassRecord
<1>1. TableInit => StatsInv
  BY <1>0 DEF TableInit, StatsInv
<1>2. ASSUME TableInv, StatsInv, [TableNext]_tableVars PROVE StatsInv'
  <2>1. CASE UNCHANGED pass
    <3> DEFINE n == pass.next
    <3>1. /\ Behind(n) \subseteq Behind(n)' /\ Ahead(n) \subseteq Ahead(n)'
          /\ Behind(n)' \subseteq Place /\ Ahead(n)' \subseteq Place
      <4>1. Taken \subseteq Taken' /\ Taken' \subseteq Place
        BY <1>2, TakenStays DEF Taken, Place
      <4> QED BY <2>1, <4>1 DEF Behind, Ahead
    <3>2. IsFiniteSet(Behind(n)') /\ IsFiniteSet(Ahead(n)')
      BY <3>1, PlacesAreFinite, FS_Subset
    <3>3. /\ Cardinality(Behind(n)) <= Cardinality(Behind(n)')
          /\ Cardinality(Ahead(n)) <= Cardinality(Ahead(n)')
          /\ Cardinality(Behind(n)) \in Nat /\ Cardinality(Ahead(n)) \in Nat
          /\ Cardinality(Behind(n)') \in Nat /\ Cardinality(Ahead(n)') \in Nat
      BY <3>1, <3>2, FS_Subset, FS_CardinalityType
    <3>4. pass \in PassRecord => pass.floor \in Nat /\ pass.occupied \in Nat
      BY DEF PassRecord
    <3> QED BY <1>2, <2>1, <3>3, <3>4, SMT DEF StatsInv
  <2>2. ASSUME NEW kind \in {"stats", "expiry"}, PassBegins(kind) PROVE StatsInv'
    <3>1. IsFiniteSet(Taken) /\ Cardinality(Taken) \in Nat
      <4>1. Taken \subseteq Place
        BY DEF Taken, Place
      <4> QED BY <4>1, PlacesAreFinite, FS_Subset, FS_CardinalityType
    <3>2. pass' = [NoPass EXCEPT !.kind = kind, !.floor = Cardinality(Taken)] /\ slots' = slots
      BY <2>2 DEF PassBegins
    <3>3. /\ pass' \in PassRecord /\ pass'.next = 0 /\ pass'.occupied = 0
          /\ pass'.floor = Cardinality(Taken) /\ pass'.byTier = [t \in Rung |-> 0]
      BY <3>1, <3>2 DEF NoPass, PassRecord
    <3>4. Behind(pass.next)' = {} /\ Ahead(pass.next)' = Taken
      <4>1. \A i \in Taken : i[1] \in Nat
        BY ShardCountIsPositive, SMT DEF Taken, Shard
      <4>2. Taken' = Taken
        BY <3>2 DEF Taken, Occupied
      <4> QED BY <3>3, <4>1, <4>2, SMT DEF Behind, Ahead
    <3>5. Total(pass'.byTier) = 0
      BY <3>3, SMT DEF Total, Rung
    <3> QED BY <3>1, <3>3, <3>4, <3>5, FS_EmptySet, ShardCountIsPositive, SMT DEF StatsInv
  <2>3. CASE PlaneStats
    BY <1>2, <2>3, ShardIsCounted
  <2>4. CASE SweepExpired
    BY <1>2, <2>4, SMT DEF SweepExpired, StatsInv, PassRecord
  <2>5. CASE PassEnds
    BY <1>0, <2>5 DEF PassEnds, StatsInv
  <2> QED BY <1>2, <2>1, <2>2, <2>3, <2>4, <2>5, PassMoves
<1> QED BY <1>1, <1>2

(* plane_stats counts every entry that was there when it began, and none   *)
(* twice, each under one rung, for every number of shards, every capacity  *)
(* and whatever calls come between two shards.                             *)
THEOREM StatsAlwaysAddUp == TableSpec => []StatsAddUp
<1>1. TableInv /\ StatsInv => StatsAddUp
  <2> SUFFICES ASSUME StatsInv, pass.kind = "stats", pass.next = ShardCount
               PROVE  /\ pass.floor <= pass.occupied /\ pass.occupied <= Cardinality(Taken)
                      /\ Total(pass.byTier) = pass.occupied
    BY DEF StatsAddUp
  <2>1. Behind(ShardCount) = Taken /\ Ahead(ShardCount) = {}
    <3>1. \A i \in Taken : i[1] \in Nat /\ i[1] < ShardCount
      BY ShardCountIsPositive, SMT DEF Taken, Shard
    <3> QED BY <3>1, ShardCountIsPositive, SMT DEF Behind, Ahead
  <2>2. pass.floor \in Nat /\ pass.occupied \in Nat
    BY DEF StatsInv, PassRecord
  <2> QED BY <2>1, <2>2, FS_EmptySet, SMT DEF StatsInv
<1> QED BY <1>1, TableInvariant, StatsInvInductive, PTL DEF TableSpec

=============================================================================
