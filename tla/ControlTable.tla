---------------------------- MODULE ControlTable ----------------------------
(***************************************************************************)
(* The control plane as a data structure (src/src/control/cachelito.rs):   *)
(* shards, each with its own lock and a fixed table of slots that is       *)
(* probed linearly from the placement of the key.  A slot, once taken, is  *)
(* never given back.  Every method takes the lock of one shard and is one  *)
(* step; plane_stats, sweep_expired and stale_intents lock the shards one  *)
(* after the other, so other calls come between their parts.               *)
(*                                                                         *)
(* An address identifies its key, so a slot holds the key itself; two keys *)
(* may have the same placement.  Unlike in the module Cachelito, callers   *)
(* here may call anything at any time with any argument of the small sets  *)
(* below, a token they already used included.                              *)
(*                                                                         *)
(* The operators whose names end in Mutant are mutants of the one each     *)
(* precedes; nothing uses them.                                            *)
(***************************************************************************)
EXTENDS ControlEntry, FiniteSetsExt

CONSTANTS
  Keys,           \* the keys callers name
  Placement,      \* the placement of each key
  ShardCount,     \* number of shards
  Capacity,       \* slots per shard
  Tiers,          \* the rungs callers name
  Generations,    \* the generations they name
  Errors,         \* the errors they record
  SetStates,      \* the states they set (the crate sets Stale only)
  UseCases,       \* bound: which methods are called on which keys, case by case
  Sweepers,       \* concurrent recovery sweeps
  MaxSlotGeneration,  \* bound: no call moves an entry past this generation
  MaxPrepares     \* bound: number of prepare calls

ASSUME ShardCountIsPositive == ShardCount \in Nat \ {0}

ASSUME CapacityIsPositive == Capacity \in Nat \ {0}

ASSUME PlacementsAreNat == Placement \in [Keys -> Nat]

ASSUME KeysAreFinite == IsFiniteSet(Keys)

ASSUME ArgumentsAreTyped ==
  Tiers \subseteq Rung /\ Generations \subseteq Nat /\ SetStates \subseteq State

VARIABLES
  uses,       \* the use case of this behaviour
  slots,      \* every slot of every shard
  tokens,     \* the commit tokens handed out
  pass,       \* the maintenance pass under way
  sweep,      \* the recovery sweeps under way
  prepares,   \* history: number of intents recorded
  recovered   \* history: number of recoveries reported by all sweeps

tableVars == <<uses, slots, tokens, pass, sweep, prepares, recovered>>

Shard == 0..(ShardCount - 1)

Index == 0..(Capacity - 1)

Empty == <<>>

Slot == [key : Keys, entry : Entry]

-----------------------------------------------------------------------------
(* shard_for, and the slot at distance d of the home of the key.           *)
ShardFor(k) == Placement[k] % ShardCount

Probe ==
  [k \in Keys |-> [d \in Index |-> <<ShardFor(k), (Placement[k] + d) % Capacity>>]]

Occupied(i) == slots[i] # Empty

(* find_slot and find_empty both stop at the first slot that is empty or   *)
(* the key's own; the former has then found nothing resp. the entry, the   *)
(* latter the slot to use.                                                 *)
StopsMutant(k) == {d \in 0..(Capacity - 2) : ~Occupied(Probe[k][d]) \/ slots[Probe[k][d]].key = k}

StopsAtAliasMutant(k) ==
  {d \in Index : \/ ~Occupied(Probe[k][d])
                 \/ Placement[slots[Probe[k][d]].key] = Placement[k]}

Stops(k) == {d \in Index : ~Occupied(Probe[k][d]) \/ slots[Probe[k][d]].key = k}

Full(k) == Stops(k) = {}

Spot(k) == Probe[k][Min(Stops(k))]

(* What is found there: Empty when the key has no slot.                    *)
Found(k) ==
  LET stops == Stops(k) IN IF stops = {} THEN Empty ELSE slots[Probe[k][Min(stops)]]

Known(k) == Found(k) # Empty

(* find_entry; peek reports the same for a key without a slot.             *)
Look(k) == LET found == Found(k) IN IF found = Empty THEN NewEntry ELSE found.entry

Abs == INSTANCE ControlMap WITH entries <- [k \in Keys |-> Look(k)]

-----------------------------------------------------------------------------
(* Passes over the shards: next is the shard to lock next, ShardCount when *)
(* all were visited.  plane_stats and sweep_expired are both called by the *)
(* governor's task, one after the other; floor is a history of how many    *)
(* slots were taken when plane_stats began.                                *)
NoPass ==
  [kind |-> "none", next |-> 0, floor |-> 0, occupied |-> 0, byTier |-> [t \in Rung |-> 0]]

NewSweep == [next |-> 0, items |-> {}]

Taken == {i \in Shard \X Index : Occupied(i)}

TableInit ==
  /\ uses \in UseCases
  /\ slots = [i \in Shard \X Index |-> Empty]
  /\ tokens = {}
  /\ pass = NoPass
  /\ sweep = [s \in Sweepers |-> NewSweep]
  /\ prepares = 0
  /\ recovered = 0

Store(k, e) == slots' = [slots EXCEPT ![Spot(k)] = [key |-> k, entry |-> e]]

(* A call that finds or creates the slot; refused when the shard is full.  *)
Creating(k, e) == ~Full(k) /\ e.generation <= MaxSlotGeneration /\ Store(k, e)

(* A call that looks the slot up, and does nothing when there is none.     *)
Looking(k, e) == Known(k) /\ e.generation <= MaxSlotGeneration /\ Store(k, e)

KeepsPasses == UNCHANGED <<uses, pass, sweep, prepares, recovered>>

Acquire(k, t) ==
  /\ "acquire" \in uses[k]
  /\ Creating(k, Abs!Acquired(Look(k), t))
  /\ UNCHANGED tokens /\ KeepsPasses

PublishSlot(k, g, t, ttl) ==
  /\ "publish" \in uses[k]
  /\ Looking(k, Abs!PublishedAt(Look(k), g, t, ttl))
  /\ UNCHANGED tokens /\ KeepsPasses

FailWithError(k, err) ==
  /\ "fail" \in uses[k]
  /\ Looking(k, FailedWith(Look(k), err))
  /\ UNCHANGED tokens /\ KeepsPasses

(* release and invalidate have the same body.                              *)
InvalidateSlot(k) ==
  /\ "invalidate" \in uses[k]
  /\ Looking(k, Invalidated(Look(k)))
  /\ UNCHANGED tokens /\ KeepsPasses

SetGeneration(k, g) ==
  /\ "set_generation" \in uses[k]
  /\ Creating(k, Abs!GenerationSet(Look(k), g))
  /\ UNCHANGED tokens /\ KeepsPasses

SetTier(k, t) ==
  /\ "set_tier" \in uses[k]
  /\ Creating(k, Abs!TierSet(Look(k), t))
  /\ UNCHANGED tokens /\ KeepsPasses

SetState(k, s) ==
  /\ "set_state" \in uses[k]
  /\ Creating(k, Abs!StateSet(Look(k), s))
  /\ UNCHANGED tokens /\ KeepsPasses

BumpGeneration(k) ==
  /\ "bump_generation" \in uses[k]
  /\ Creating(k, Abs!Bumped(Look(k)))
  /\ UNCHANGED tokens /\ KeepsPasses

ReserveEviction(k) ==
  /\ "reserve_eviction" \in uses[k]
  /\ Looking(k, Abs!Reserved(Look(k)))
  /\ UNCHANGED tokens /\ KeepsPasses

-----------------------------------------------------------------------------
(* Two-phase commit.  A caller that expects another generation than it     *)
(* finds is refused, but the slot has been created.                        *)
PrepareSlot(k, t, kind) ==
  /\ "prepare" \in uses[k] /\ prepares < MaxPrepares
  /\ Creating(k, PreparedFor(Look(k), t, kind))
  /\ tokens' = tokens \cup {Abs!TokenOf(k, Look(k), t, kind)}
  /\ prepares' = prepares + 1
  /\ UNCHANGED <<uses, pass, sweep, recovered>>

PrepareRefused(k, expected) ==
  /\ "prepare" \in uses[k]
  /\ expected # Look(k).generation
  /\ Creating(k, Abs!Touched(Look(k)))
  /\ UNCHANGED tokens /\ KeepsPasses

CommitSlot(token, ttl) ==
  /\ CommitAdmits(Look(token.key), token)
  /\ Looking(token.key, Abs!CommittedWith(Look(token.key), token, ttl))
  /\ UNCHANGED tokens /\ KeepsPasses

Abort(token, err) ==
  /\ Looking(token.key, Aborted(Look(token.key), err))
  /\ UNCHANGED tokens /\ KeepsPasses

AbortProvenClean(token, err) ==
  /\ Looking(token.key, AbortedClean(Look(token.key), err))
  /\ UNCHANGED tokens /\ KeepsPasses

(* resolve_intent, for a caller that has the key: the token is made up     *)
(* again from the intent, and a move forward keeps no TTL.                 *)
ResolveIntent(token) == Abort(token, "UncommittedIntent") \/ CommitSlot(token, FALSE)

-----------------------------------------------------------------------------
(* Passes over the shards.                                                 *)

KeysOfMutant(s) == {slots[i].key : i \in Taken \cap ({s} \X (0..(Capacity - 2)))}

KeysOf(s) == {slots[i].key : i \in Taken \cap ({s} \X Index)}

CountAt(s, t) == Cardinality({k \in KeysOf(s) : Look(k).tier = t})

(* Neither pass is interleaved with a recovery sweep: what the sweep does  *)
(* to an entry between two of its steps, a call on the entry may do too.   *)
Sweeping == \E s \in Sweepers : sweep[s].next \in 1..(ShardCount - 1) \/ sweep[s].items # {}

PassBegins(kind) ==
  /\ pass = NoPass /\ ~Sweeping
  /\ pass' = [NoPass EXCEPT !.kind = kind, !.floor = Cardinality(Taken)]
  /\ UNCHANGED <<uses, slots, tokens, sweep, prepares, recovered>>

(* The loop body of plane_stats; by_state, population_owned and            *)
(* intents_outstanding are tallied like by_tier.                           *)
PlaneStats ==
  /\ pass.kind = "stats" /\ pass.next < ShardCount
  /\ pass' = [pass EXCEPT
       !.next = @ + 1,
       !.occupied = @ + Cardinality(KeysOf(pass.next)),
       !.byTier = [t \in Rung |-> pass.byTier[t] + CountAt(pass.next, t)]]
  /\ UNCHANGED <<uses, slots, tokens, sweep, prepares, recovered>>

(* The loop body of sweep_expired.                                         *)
SweepExpired ==
  /\ pass.kind = "expiry" /\ pass.next < ShardCount
  /\ pass' = [pass EXCEPT !.next = @ + 1]
  /\ slots' = [i \in Shard \X Index |->
                 IF i[1] = pass.next /\ Occupied(i) /\ Demotable(slots[i].entry)
                 THEN [slots[i] EXCEPT !.entry = MarkedStale(@)]
                 ELSE slots[i]]
  /\ UNCHANGED <<uses, tokens, sweep, prepares, recovered>>

PassEnds ==
  /\ pass.next = ShardCount
  /\ pass' = NoPass
  /\ UNCHANGED <<uses, slots, tokens, sweep, prepares, recovered>>

(* recover_older_than: stale_intents collects shard by shard, and then     *)
(* every item is resolved by a call of its own.  Each sweeper sweeps once. *)
StaleIntents(s) ==
  /\ sweep[s].next < ShardCount /\ pass = NoPass
  /\ sweep' = [sweep EXCEPT
       ![s].next = @ + 1,
       ![s].items = @ \cup {[key |-> k, kind |-> Look(k).intent.kind] :
                              k \in {j \in KeysOf(sweep[s].next) : Look(j).intent.old}}]
  /\ UNCHANGED <<uses, slots, tokens, pass, prepares, recovered>>

(* abort_intent_by_address answers whether it cleared an intent.           *)
ClearedMutant(k) == TRUE

Cleared(k) == HasIntent(Look(k)) /\ Look(k).state = "Prepared"

AbortIntentByAddress(s, k) ==
  /\ [key |-> k, kind |-> "Write"] \in sweep[s].items
  /\ Looking(k, IntentAborted(Look(k), "UncommittedIntent"))
  /\ recovered' = IF Cleared(k) THEN recovered + 1 ELSE recovered
  /\ sweep' = [sweep EXCEPT ![s].items = @ \ {[key |-> k, kind |-> "Write"]}]
  /\ UNCHANGED <<uses, tokens, pass, prepares>>

ReleasePopulationClaim(s, k) ==
  /\ [key |-> k, kind |-> "Move"] \in sweep[s].items
  /\ Looking(k, ClaimReleased(Look(k)))
  /\ sweep' = [sweep EXCEPT ![s].items = @ \ {[key |-> k, kind |-> "Move"]}]
  /\ UNCHANGED <<uses, tokens, pass, prepares, recovered>>

(* Time.                                                                   *)
ElapseSlotTtl(k) ==
  /\ Look(k).ttl /\ Look(k).stamp = "fresh"
  /\ Looking(k, [Look(k) EXCEPT !.stamp = "old"])
  /\ UNCHANGED tokens /\ KeepsPasses

AgeIntent(k) ==
  /\ HasIntent(Look(k)) /\ ~Look(k).intent.old
  /\ Looking(k, [Look(k) EXCEPT !.intent.old = TRUE])
  /\ UNCHANGED tokens /\ KeepsPasses

-----------------------------------------------------------------------------
CallOn(k) ==
  \/ \E t \in Tiers : Acquire(k, t) \/ SetTier(k, t)
  \/ \E g \in Generations, t \in Tiers, ttl \in BOOLEAN : PublishSlot(k, g, t, ttl)
  \/ \E err \in Errors : FailWithError(k, err)
  \/ InvalidateSlot(k) \/ BumpGeneration(k) \/ ReserveEviction(k)
  \/ \E g \in Generations : SetGeneration(k, g) \/ PrepareRefused(k, g)
  \/ \E s \in SetStates : SetState(k, s)
  \/ \E t \in Tiers, kind \in IntentKind : PrepareSlot(k, t, kind)
  \/ ElapseSlotTtl(k) \/ AgeIntent(k)

CallWith(token) ==
  \/ \E ttl \in BOOLEAN : CommitSlot(token, ttl)
  \/ \E err \in Errors : Abort(token, err) \/ AbortProvenClean(token, err)
  \/ ResolveIntent(token)

PassStep ==
  \/ \E kind \in {"stats", "expiry"} : PassBegins(kind)
  \/ PlaneStats \/ SweepExpired \/ PassEnds
  \/ \E s \in Sweepers :
       \/ StaleIntents(s)
       \/ \E k \in Keys : AbortIntentByAddress(s, k) \/ ReleasePopulationClaim(s, k)

TableNext ==
  \/ \E k \in Keys : CallOn(k)
  \/ \E token \in tokens : CallWith(token)
  \/ PassStep

TableSpec == TableInit /\ [][TableNext]_tableVars

-----------------------------------------------------------------------------
(* The sharded, probed table is a map: every call acts on the record of    *)
(* its own key and on no other, a key has one record and keeps it for      *)
(* ever, and no record is reached under another key, however the keys      *)
(* collide.                                                                *)
ImplementsMap == Abs!Spec

(* A key is refused a slot only when every slot of its shard belongs to    *)
(* another key: find_or_create_entry overlooks no room and no entry.       *)
RoomIsFound ==
  \A k \in Keys :
    ~Known(k) =>
      /\ \A i \in Taken : slots[i].key # k
      /\ Full(k) => \A n \in Index : Occupied(<<ShardFor(k), n>>)

(* A tally over the seven rungs, added up.                                 *)
Total(tally) ==
  tally[0] + tally[1] + tally[2] + tally[3] + tally[4] + tally[5] + tally[6]

(* plane_stats locks one shard at a time while slots are being taken, and  *)
(* still counts every entry that was there when it began once, and none    *)
(* twice; each counted entry is counted under one rung.                    *)
StatsAddUp ==
  pass.kind = "stats" /\ pass.next = ShardCount =>
    /\ pass.floor <= pass.occupied /\ pass.occupied <= Cardinality(Taken)
    /\ Total(pass.byTier) = pass.occupied

(* manager.rs:561: "Two sweeps racing the same intent must between them    *)
(* count it once, or the pass reports more recoveries than there were      *)
(* intents."                                                               *)
RecoveriesAreReal == recovered <= prepares

=============================================================================
