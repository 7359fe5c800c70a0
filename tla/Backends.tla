------------------------------- MODULE Backends -------------------------------
(***************************************************************************)
(* One rung bound to one of the stores the crate has: the in-process stubs *)
(* and the test tier, redis, sled, oxigraph and the origin                 *)
(* (src/src/tier/backends), under time, store failures, damage, restarts   *)
(* and crashes of the process.  The stores themselves are external.        *)
(*                                                                         *)
(* A record is [value, until, form].  A key has at most one in a key-value *)
(* store; in oxigraph each is a quad, of which a key may have several.  A  *)
(* time is a number of milliseconds; Never is no deadline.  Every call is  *)
(* one step, but for the get of sled that meets an expired record: reading *)
(* and removing it are two calls of the store.                             *)
(*                                                                         *)
(* The operators whose names end in Mutant are mutants of the one each     *)
(* precedes; nothing uses them.                                            *)
(***************************************************************************)
EXTENDS Capability, Sequences, FiniteSets

CONSTANTS
  RungKeys,
  RungValues,
  BoundTo,        \* the capabilities of the backends to look at
  Lifetimes,           \* the times to live a set may name, Never for none
  Second,         \* milliseconds of a second (1000 in the code)
  MaxClock,       \* bound on time
  MaxSets,        \* bound on the sets
  MaxUnflushed,   \* bound on the contents between two flushes of sled
  MaxFailures     \* bound on the failures counted

Never == 0

ASSUME TimesAreNat == Lifetimes \subseteq Nat /\ Second \in Nat \ {0}

ASSUME BoundToATier ==
  BoundTo \subseteq {L0Stub, L1Stub, L2Stub, L3Stub, L4Stub, L5Stub, TestTier, RedisTier, SledTier,
                     OriginTier, OxigraphTier}

EmptyPayload == "empty payload"

VARIABLES
  backend,      \* the capability of the backend the rung is bound to
  writer,       \* whether the origin has a writer
  healthy,      \* the switch of the test tier
  records,      \* what the store holds, by key
  unflushed,    \* what sled's files may hold after a crash, each with its history
  expiring,     \* keys whose expired record a get of sled has read and not yet removed
  clock,
  failed,       \* consecutive_failures of the backend's health
  written,      \* history: what was set since the key was last removed
  sets          \* number of sets so far

backendVars ==
  <<backend, writer, healthy, records, unflushed, expiring, clock, failed, written, sets>>

Is(name) == backend.backend = name

(* The stubs of L0 to L5 and the test tier, which keeps one.               *)
InProcessMap == backend.backend \in {"in-memory", "in-memory-fallback", "test"}

(* The stores whose calls may fail for reasons of their own.               *)
Remote == backend.backend \in {"redis", "sled", "origin"}

Record(v, until) == [value |-> v, until |-> until, form |-> "whole"]

-----------------------------------------------------------------------------
Until(ttl) == IF ttl = Never THEN Never ELSE clock + ttl

(* Redis is told whole seconds, and refuses none.                          *)
RedisUntil(ttl) == Until((ttl \div Second) * Second)

RedisRefuses(ttl) == ttl # Never /\ ttl < Second

Overdue(record) == record.until # Never /\ clock >= record.until

DecodeUncheckedMutant(record) == IF Overdue(record) THEN "none" ELSE record.value

(* decode_record of sled: what get answers for a record.  Redis and the    *)
(* stubs drop expired records themselves.                                  *)
Decode(record) ==
  CASE record.form = "short"   -> "SerializationFailed"
    [] record.form # "short" /\ Overdue(record) -> "none"
    [] record.form = "flipped" /\ ~Overdue(record) -> "Corrupted"
    [] OTHER -> record.value

GetErrors == {"SerializationFailed", "Corrupted", "TierUnavailable"}

(* succeed and fail of the backends that track their health.               *)
Succeed == failed' = 0

Fail == failed < MaxFailures /\ failed' = failed + 1

(* A call the count of failures does not show.                             *)
Untracked == UNCHANGED failed

(* What a store holds, and what had been set by then.                      *)
Snapshot == [records |-> records, written |-> written]

(* A change of what the store holds of k, and of what counts as set; sled  *)
(* writes it to its files later.                                           *)
StoreAs(k, rs, ws) ==
  /\ records' = [records EXCEPT ![k] = rs]
  /\ written' = [written EXCEPT ![k] = ws]
  /\ unflushed' = IF Is("sled") THEN unflushed \cup {Snapshot'} ELSE unflushed
  /\ Cardinality(unflushed') <= MaxUnflushed

KeepRecords == UNCHANGED <<records, unflushed>>

Fixed == UNCHANGED <<backend, writer, healthy, clock>>

(* What the get, set and remove of every backend have in common, history   *)
(* included: an accepted set is what is current.                           *)
Looks == KeepRecords /\ Fixed /\ UNCHANGED <<written, sets>>

Sets(k, v, ttl, rs) ==
  /\ sets < MaxSets
  /\ StoreAs(k, rs, {[w EXCEPT !.current = FALSE] : w \in written[k]}
                      \cup {[value |-> v, until |-> Until(ttl), current |-> TRUE]})
  /\ sets' = sets + 1
  /\ Fixed /\ UNCHANGED expiring

Removes(k, rs) ==
  /\ StoreAs(k, rs, {})
  /\ Fixed /\ UNCHANGED <<expiring, sets>>

-----------------------------------------------------------------------------
BackendInit ==
  /\ backend \in BoundTo
  /\ writer \in IF Is("origin") THEN BOOLEAN ELSE {FALSE}
  /\ healthy = TRUE
  /\ records = [k \in RungKeys |-> {}]
  /\ written = [k \in RungKeys |-> {}]
  /\ unflushed = IF Is("sled") THEN {Snapshot} ELSE {}
  /\ expiring = {}
  /\ clock = 1
  /\ failed = 0 /\ sets = 0

(* The stubs and the test tier.  An unhealthy test tier refuses whatever   *)
(* it is asked, and its count of failures never goes back.                 *)
MapReads == InProcessMap /\ healthy /\ Untracked /\ Looks /\ UNCHANGED expiring

MapSet(k, v, ttl) == InProcessMap /\ healthy /\ Untracked /\ Sets(k, v, ttl, {Record(v, Until(ttl))})

MapRemove(k) == InProcessMap /\ healthy /\ Untracked /\ Removes(k, {})

TestTierRefuses == Is("test") /\ ~healthy /\ Fail /\ Looks /\ UNCHANGED expiring

(* Redis.  A call of which only the answer was lost has been done.         *)
RedisReads == Is("redis") /\ (Succeed \/ Fail) /\ Looks /\ UNCHANGED expiring

RedisSet(k, v, ttl) ==
  /\ Is("redis")
  /\ \/ Fail /\ Looks /\ UNCHANGED expiring
     \/ /\ ~RedisRefuses(ttl)
        /\ Sets(k, v, ttl, {Record(v, RedisUntil(ttl))})
        /\ (Succeed \/ Fail)

RedisRemove(k) ==
  /\ Is("redis")
  /\ \/ Fail /\ Looks /\ UNCHANGED expiring
     \/ Removes(k, {}) /\ (Succeed \/ Fail)

-----------------------------------------------------------------------------
(* Sled.  A get counts the record that does not decode as a failure, and   *)
(* contains answers with the error and counts nothing.                     *)
SledGet(k) ==
  /\ Is("sled")
  /\ \/ records[k] = {} /\ Succeed /\ UNCHANGED expiring
     \/ Fail /\ UNCHANGED expiring
     \/ \E record \in records[k] :
          /\ IF Decode(record) \in GetErrors THEN Fail ELSE Succeed
          /\ expiring' = IF Decode(record) = "none" THEN expiring \cup {k} ELSE expiring
  /\ Looks

(* The second half of a get that found an expired record: whatever is      *)
(* there by now is removed.                                                *)
ExpiryRemove(k) ==
  /\ k \in expiring
  /\ expiring' = expiring \ {k}
  /\ StoreAs(k, {}, written[k])
  /\ Fixed /\ UNCHANGED <<failed, sets>>

SledSet(k, v, ttl) ==
  /\ Is("sled")
  /\ \/ Fail /\ Looks /\ UNCHANGED expiring
     \/ Sets(k, v, ttl, {Record(v, Until(ttl))}) /\ Succeed

SledRemove(k) ==
  /\ Is("sled")
  /\ \/ Fail /\ Looks /\ UNCHANGED expiring
     \/ Removes(k, {}) /\ Succeed

SledContains(k) ==
  /\ Is("sled")
  /\ \/ records[k] = {} /\ Succeed
     \/ Fail
     \/ \E record \in records[k] :
          IF Decode(record) \in GetErrors THEN Untracked ELSE Succeed
  /\ Looks /\ UNCHANGED expiring

-----------------------------------------------------------------------------
(* The origin.  What its writer makes of a time to live is the             *)
(* application's affair; a removal is a write of an empty payload.         *)
OriginReads == Is("origin") /\ (Succeed \/ Fail) /\ Looks /\ UNCHANGED expiring

OriginSet(k, v, ttl) ==
  /\ Is("origin")
  /\ IF writer
     THEN \/ Fail /\ Looks /\ UNCHANGED expiring
          \/ Sets(k, v, ttl, {Record(v, Never)}) /\ (Succeed \/ Fail)
     ELSE Sets(k, v, ttl, records[k]) /\ Untracked

OriginRemove(k) ==
  /\ Is("origin")
  /\ IF writer
     THEN \/ Fail /\ Looks /\ UNCHANGED expiring
          \/ Removes(k, {Record(EmptyPayload, Never)}) /\ (Succeed \/ Fail)
     ELSE Removes(k, records[k]) /\ Untracked

(* Oxigraph.  A set takes back the quad it is about to insert and no       *)
(* other, a get answers with the one the store happens to list first, and  *)
(* no time to live is kept.                                                *)
OxigraphReads == Is("oxigraph") /\ Untracked /\ Looks /\ UNCHANGED expiring

OxigraphSet(k, v, ttl) ==
  LET quad == Record(v, Never)
  IN  Is("oxigraph") /\ Untracked /\ Sets(k, v, ttl, (records[k] \ {quad}) \cup {quad})

OxigraphRemove(k) == Is("oxigraph") /\ Untracked /\ Removes(k, {})

-----------------------------------------------------------------------------
(* set_healthy of the test tier.                                           *)
SetHealthy ==
  /\ Is("test")
  /\ healthy' = ~healthy
  /\ KeepRecords /\ UNCHANGED <<backend, writer, expiring, clock, failed, written, sets>>

(* Damage to a record of sled: truncate_record_for_test and                *)
(* corrupt_payload_for_test.                                               *)
DamageRecord(k) ==
  /\ Is("sled")
  /\ \E record \in records[k] :
       \/ StoreAs(k, {[record EXCEPT !.form = "short"]}, written[k])
       \/ StoreAs(k, {[record EXCEPT !.form = "flipped", !.value = "damaged"]}, written[k])
  /\ Fixed /\ UNCHANGED <<expiring, failed, sets>>

FlushSled ==
  /\ Is("sled")
  /\ unflushed' = {Snapshot}
  /\ Fixed /\ UNCHANGED <<records, expiring, failed, written, sets>>

Tick ==
  /\ clock < MaxClock
  /\ clock' = clock + 1
  /\ UNCHANGED <<backend, writer, healthy, records, unflushed, expiring, failed, written, sets>>

(* The process ends in order and starts again, or crashes; what sled then  *)
(* has is the contents at some moment since the last flush.  With a stub,  *)
(* the test tier or oxigraph everything is gone.                           *)
BackendRestart ==
  /\ records' = IF Remote THEN records ELSE [k \in RungKeys |-> {}]
  /\ unflushed' = IF Is("sled") THEN {Snapshot} ELSE {}
  /\ healthy' = TRUE /\ expiring' = {} /\ failed' = 0
  /\ UNCHANGED <<backend, writer, clock, written, sets>>

BackendCrash ==
  /\ Is("sled")
  /\ \E snapshot \in unflushed :
       /\ records' = snapshot.records /\ written' = snapshot.written
       /\ unflushed' = {snapshot}
  /\ expiring' = {} /\ failed' = 0
  /\ Fixed /\ UNCHANGED sets

BackendNext ==
  \/ MapReads \/ RedisReads \/ OriginReads \/ OxigraphReads \/ TestTierRefuses
  \/ \E k \in RungKeys :
       \/ MapRemove(k) \/ RedisRemove(k) \/ SledRemove(k) \/ OriginRemove(k) \/ OxigraphRemove(k)
       \/ SledGet(k) \/ ExpiryRemove(k) \/ SledContains(k) \/ DamageRecord(k)
       \/ \E v \in RungValues, ttl \in Lifetimes :
            \/ MapSet(k, v, ttl) \/ RedisSet(k, v, ttl) \/ SledSet(k, v, ttl)
            \/ OriginSet(k, v, ttl) \/ OxigraphSet(k, v, ttl)
  \/ SetHealthy \/ FlushSled \/ Tick \/ BackendRestart \/ BackendCrash

BackendSpec == BackendInit /\ [][BackendNext]_backendVars

-----------------------------------------------------------------------------
(* A get answers with nothing, with an error, or with a value that was set *)
(* since the key was last removed: damage and a removed value are never    *)
(* served, whatever restarts and late removals of expired records come     *)
(* between.  A key-value store moreover answers with the last value set,   *)
(* and never past its time to live.  After a crash of sled this is about   *)
(* the sets and removals up to a moment since its last flush: a later one  *)
(* may be undone, and an earlier one may not.                              *)
ReadsAreOfWrites ==
  \A k \in RungKeys : \A record \in records[k] :
    LET answer == Decode(record)
    IN  answer \notin GetErrors \cup {"none"} /\ ~Is("origin") =>
          \E w \in written[k] :
            /\ w.value = answer
            /\ ~Is("oxigraph") => w.current /\ (w.until = Never \/ clock < w.until)

(* No false durability (capability.rs, DurabilityClass): what a rung that  *)
(* claims to survive a restart held before it, it holds after it.          *)
NoFalseDurability ==
  [][BackendRestart /\ SurvivesRestart(backend) => records' = records]_backendVars

=============================================================================
