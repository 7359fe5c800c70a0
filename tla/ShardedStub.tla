----------------------------- MODULE ShardedStub -----------------------------
(***************************************************************************)
(* The sharded stub (src/src/tier/sharded_stub.rs) that the stub rungs L0  *)
(* to L5 wrap: a power of two of fixed stubs, each under its own lock.  A  *)
(* key's operations lock its shard.  The two scans, for an eviction        *)
(* candidate and for the slot of an address, lock one shard after the      *)
(* other, so that keys come and go behind and ahead of them.  The cursor   *)
(* that starts the first scan is one static for the stubs of all rungs:    *)
(* one rung is modelled, and the others as what they do to the cursor.     *)
(*                                                                         *)
(* A shard is the set of keys it holds (FixedTierStub has its slots, and   *)
(* EvictionCursor the order of its own nominations).  The cursor is used   *)
(* modulo the number of shards, which divides 2^64, and is kept so.        *)
(*                                                                         *)
(* The operators whose names end in Mutant are mutants of the one each     *)
(* precedes; nothing uses them.                                            *)
(***************************************************************************)
EXTENDS Naturals, FiniteSets

CONSTANTS
  StubKeys,
  Askers,          \* tasks that scan
  Hash,            \* the hash of each key
  RequestedShards, \* with_shards' argument
  ShardCapacity,
  MaxPoisoned      \* bound on the panics under a shard's lock

(* What a scan may be for beside a key.                                    *)
Victim == "victim"

Nothing == "nothing"

ASSUME HashesAreNat == Hash \in [StubKeys -> Nat]

ASSUME KeysAreKeys == {Victim, Nothing} \cap StubKeys = {}

(* The powers of two that a number of shards may be rounded up to.  Every  *)
(* rung asks for DEFAULT_SHARDS, which is four.                            *)
PowerOfTwo == {1, 2, 4, 8, 16, 32, 64, 128, 256, 512, 1024}

ASSUME ShardsAreBounded == RequestedShards \in 0..1024

(* usize::next_power_of_two.                                               *)
NextPowerOfTwo(m) == CHOOSE p \in PowerOfTwo : p >= m /\ \A q \in PowerOfTwo : q >= m => p <= q

(* with_shards: n, and the mask n - 1.                                     *)
Shards == NextPowerOfTwo(IF RequestedShards = 0 THEN 1 ELSE RequestedShards)

(* shard_for: masking with n - 1 is the remainder by a power of two.       *)
StubShard(k) == Hash[k] % Shards

VARIABLES
  held,       \* the keys the rung holds
  shared,     \* the static cursor, modulo the number of shards
  poisoned,   \* the shards whose lock is poisoned
  scan,       \* the scan each asker is in
  stayed,     \* history: keys held since the asker's scan began
  last        \* the shard last nominated from

stubVars == <<held, shared, poisoned, scan, stayed, last>>

NoScan == [for |-> Nothing]

(* A scan of the shards from start; seen of them have been visited.        *)
Nominating(start, seen) == [for |-> Victim, start |-> start, seen |-> seen]

Removing(k, seen) == [for |-> k, start |-> 0, seen |-> seen]

ShardedInit ==
  /\ held = {}
  /\ shared = 0
  /\ poisoned = {}
  /\ scan = [a \in Askers |-> NoScan]
  /\ stayed = [a \in Askers |-> {}]
  /\ last = Shards

InShard(i) == {k \in held : StubShard(k) = i}

(* Keys a scan can find.                                                   *)
Reachable == {k \in held : StubShard(k) \notin poisoned}

(* A key that leaves the rung has not stayed for any scan.                 *)
Leaves(gone) == stayed' = [a \in Askers |-> stayed[a] \ gone]

-----------------------------------------------------------------------------
(* set; a full shard refuses a new key and a poisoned one every call.      *)
StubSet(k) ==
  /\ k \notin held /\ StubShard(k) \notin poisoned
  /\ Cardinality(InShard(StubShard(k))) < ShardCapacity
  /\ held' = held \cup {k}
  /\ UNCHANGED <<shared, poisoned, scan, stayed, last>>

(* remove, and the removal of an expired slot by whoever meets it.         *)
StubRemove(k) ==
  /\ k \in Reachable
  /\ held' = held \ {k}
  /\ Leaves({k})
  /\ UNCHANGED <<shared, poisoned, scan, last>>

(* A task panics while it holds a shard's lock.                            *)
Poison(i) ==
  /\ i \notin poisoned
  /\ Cardinality(poisoned) < MaxPoisoned
  /\ poisoned' = poisoned \cup {i}
  /\ Leaves(InShard(i))
  /\ UNCHANGED <<held, shared, scan, last>>

StartsLateMutant(a) ==
  /\ scan[a] = NoScan
  /\ scan' = [scan EXCEPT ![a] = Nominating(shared, 1)]
  /\ shared' = (shared + 1) % Shards
  /\ stayed' = [stayed EXCEPT ![a] = Reachable]
  /\ UNCHANGED <<held, poisoned, last>>

SameStartMutant(a) ==
  /\ scan[a] = NoScan
  /\ scan' = [scan EXCEPT ![a] = Nominating(shared, 0)]
  /\ stayed' = [stayed EXCEPT ![a] = Reachable]
  /\ UNCHANGED <<held, shared, poisoned, last>>

(* eviction_candidate: next_shard.                                         *)
NextShard(a) ==
  /\ scan[a] = NoScan
  /\ scan' = [scan EXCEPT ![a] = Nominating(shared, 0)]
  /\ shared' = (shared + 1) % Shards
  /\ stayed' = [stayed EXCEPT ![a] = Reachable]
  /\ UNCHANGED <<held, poisoned, last>>

(* remove_if_address begins.                                               *)
SeekAddress(a, k) ==
  /\ scan[a] = NoScan
  /\ scan' = [scan EXCEPT ![a] = Removing(k, 0)]
  /\ stayed' = [stayed EXCEPT ![a] = Reachable]
  /\ UNCHANGED <<held, shared, poisoned, last>>

(* One shard of a scan: what is sought is there, and the scan ends, or it  *)
(* is not, and the scan goes on.                                           *)
VisitShard(a) ==
  LET s    == scan[a]
      i    == (s.start + s.seen) % Shards
      here == IF i \in poisoned THEN {} ELSE InShard(i)
      Stops == scan' = [scan EXCEPT ![a] = NoScan]
  IN  /\ s # NoScan /\ s.seen < Shards
      /\ CASE s.for = Victim /\ here # {} ->
                Stops /\ last' = i /\ stayed' = [stayed EXCEPT ![a] = {}] /\ UNCHANGED held
           [] s.for \in here ->
                /\ Stops /\ held' = held \ {s.for} /\ UNCHANGED last
                /\ stayed' = [b \in Askers |-> IF b = a THEN {} ELSE stayed[b] \ {s.for}]
           [] OTHER ->
                scan' = [scan EXCEPT ![a].seen = @ + 1] /\ UNCHANGED <<held, last, stayed>>
      /\ UNCHANGED <<shared, poisoned>>

(* The scan has visited every shard: None, or Ok(false).                   *)
ScanEnds(a) ==
  /\ scan[a] # NoScan /\ scan[a].seen = Shards
  /\ scan' = [scan EXCEPT ![a] = NoScan]
  /\ stayed' = [stayed EXCEPT ![a] = {}]
  /\ UNCHANGED <<held, shared, poisoned, last>>

(* The stub of another rung is asked for a candidate.                      *)
AskedElsewhere ==
  /\ shared' = (shared + 1) % Shards
  /\ UNCHANGED <<held, poisoned, scan, stayed, last>>

ShardedNext ==
  \/ \E k \in StubKeys : StubSet(k) \/ StubRemove(k)
  \/ \E i \in 0..Shards - 1 : Poison(i)
  \/ \E a \in Askers : \/ NextShard(a) \/ \E k \in StubKeys : SeekAddress(a, k)
                      \/ VisitShard(a) \/ ScanEnds(a)
  \/ AskedElsewhere

ShardedSpec == ShardedInit /\ [][ShardedNext]_stubVars

(* A task that scans does not stop in the middle of it.                    *)
ScansGoOn == \A a \in Askers : WF_stubVars(VisitShard(a) \/ ScanEnds(a))

-----------------------------------------------------------------------------
(* A scan that finds nothing is right about every key that was there all   *)
(* the while: eviction_candidate says None, and remove_if_address false,   *)
(* only when each key the rung held throughout was not what was sought,    *)
(* whatever was set and removed between the shards.                        *)
ScansMissNothing ==
  \A a \in Askers : scan[a] # NoScan /\ scan[a].seen = Shards =>
    IF scan[a].for = Victim THEN stayed[a] = {} ELSE scan[a].for \notin stayed[a]

(* The rotating start spreads eviction over the shards: while one rung     *)
(* alone goes on being asked for candidates, a shard that keeps a key is   *)
(* nominated from again and again.  The cursor is shared by the rungs, so  *)
(* this says nothing of rungs that are asked in turns.                     *)
RotationReaches ==
  \A k \in StubKeys :
    /\ <>[](k \in Reachable)
    /\ <>[][~AskedElsewhere]_stubVars
    /\ []<>(\E a \in Askers : scan[a] # NoScan /\ scan[a].for = Victim)
    => []<>(last = StubShard(k))

=============================================================================
