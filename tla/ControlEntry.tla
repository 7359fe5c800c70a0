---------------------------- MODULE ControlEntry ----------------------------
(***************************************************************************)
(* The control-plane record of one key (src/src/control/cachelito.rs) and  *)
(* what each method of Cachelito does to it.  Every method runs under the  *)
(* mutex of the key's shard, so each is one indivisible function from the  *)
(* record it finds to the record it leaves.  The modules Cachelito and     *)
(* Manager turn these functions into actions.                              *)
(*                                                                         *)
(* Data kept: everything a branch of the code reads.  A TTL is only armed  *)
(* or not, and a time stamp only "none", "fresh" or "old": old means that  *)
(* the armed TTL has elapsed (resp. that the intent has reached the age    *)
(* the recovery sweep asks for).                                           *)
(*                                                                         *)
(* RecordedVerbatim, AbortedCleanKeepsOwner and EvictedInPlace are mutants *)
(* of the operator each precedes; nothing uses them.                       *)
(***************************************************************************)
EXTENDS Naturals

(* tier/mod.rs: rungs L0..L6; L6 is the authority and no cache rung.       *)
Rung == 0..6

AuthorityRung == 6

State == {"Absent", "Ready", "Stale", "InFlight", "Failed", "Prepared"}

Claimable == {"Absent", "Failed", "Stale"}

Readable == {"Ready", "Stale"}

Pending == {"InFlight", "Prepared"}

IntentKind == {"Write", "Move"}

(* The error byte of an entry tells four errors apart.                     *)
ErrorCode == {"none", "Timeout", "PopulationFailed", "TierUnavailable", "Cancelled"}

RecordedVerbatim(err) == err

(* encode_error then decode_error: any other error reads back as           *)
(* PopulationFailed.                                                       *)
Recorded(err) == IF err \in ErrorCode THEN err ELSE "PopulationFailed"

NoIntent == [kind |-> "none", generation |-> 0, tier |-> 0, old |-> FALSE]

Intent == [kind : IntentKind \cup {"none"}, generation : Nat, tier : Rung, old : BOOLEAN]

(* created: the shard has a slot for the key (never taken back).           *)
Entry ==
  [created    : BOOLEAN,
   state      : State,
   generation : Nat,
   tier       : Rung,
   owner      : BOOLEAN,
   ttl        : BOOLEAN,
   stamp      : {"none", "fresh", "old"},
   error      : ErrorCode,
   intent     : Intent,
   prev       : State]

(* What peek reports for a key without a slot, and ControlEntry::new.      *)
NewEntry ==
  [created    |-> FALSE,
   state      |-> "Absent",
   generation |-> 0,
   tier       |-> 0,
   owner      |-> FALSE,
   ttl        |-> FALSE,
   stamp      |-> "none",
   error      |-> "none",
   intent     |-> NoIntent,
   prev       |-> "Absent"]

HasIntent(e) == e.intent.kind # "none"

(* increment_generation.                                                   *)
NextGeneration(e) == e.generation + 1

Expired(e) == e.ttl /\ e.stamp = "old"

-----------------------------------------------------------------------------
(* acquire, on a claimable entry: the caller owns the population of a new  *)
(* generation.  An outstanding intent is left where it is.                 *)
Claimed(e, t) ==
  [e EXCEPT !.created = TRUE, !.state = "InFlight", !.owner = TRUE,
            !.generation = NextGeneration(e), !.tier = t, !.error = "none", !.stamp = "fresh"]

(* publish, once the generation matched; the state is not consulted.       *)
Published(e, t, ttl) ==
  [e EXCEPT !.state = "Ready", !.tier = t, !.ttl = ttl, !.error = "none",
            !.owner = FALSE, !.stamp = "fresh"]

(* fail_with_error: no condition on state, generation or ownership.        *)
FailedWith(e, err) ==
  IF e.created
  THEN [e EXCEPT !.state = "Failed", !.error = Recorded(err), !.owner = FALSE,
                 !.stamp = "none"]
  ELSE e

(* invalidate and release have the same body.                              *)
Invalidated(e) ==
  IF e.created
  THEN [e EXCEPT !.generation = NextGeneration(e), !.state = "Absent", !.owner = FALSE,
                 !.stamp = "none", !.ttl = FALSE, !.error = "none"]
  ELSE e

(* set_state(Stale), the only use the crate makes of set_state.            *)
MarkedStale(e) == [e EXCEPT !.created = TRUE, !.state = "Stale"]

(* prepare(None, ...): records what it interrupts and takes the entry from *)
(* any state at all, another writer's Prepared included.                   *)
PreparedFor(e, t, k) ==
  [e EXCEPT !.created = TRUE, !.prev = e.state, !.state = "Prepared", !.owner = TRUE,
            !.intent = [kind |-> k, generation |-> e.generation, tier |-> t, old |-> FALSE]]

(* commit's condition: the generation of the token and the state, and not  *)
(* that the outstanding intent is the token's own.                         *)
CommitAdmits(e, token) == e.generation = token.generation /\ e.state = "Prepared"

Committed(e, token, ttl) ==
  [e EXCEPT !.state = "Ready", !.tier = token.tier, !.ttl = ttl, !.prev = "Ready",
            !.owner = FALSE, !.intent = NoIntent, !.stamp = "fresh", !.error = "none"]

(* abort: only a Prepared entry is touched; the token's generation is not  *)
(* compared.                                                               *)
Aborted(e, err) ==
  IF e.state = "Prepared"
  THEN [e EXCEPT !.state = "Failed", !.generation = NextGeneration(e), !.owner = FALSE,
                 !.intent = NoIntent, !.error = Recorded(err)]
  ELSE e

AbortedCleanKeepsOwner(e, err) ==
  IF e.state = "Prepared"
  THEN [e EXCEPT !.state = e.prev, !.intent = NoIntent, !.error = Recorded(err)]
  ELSE e

(* abort_proven_clean: restores what the last prepare interrupted.         *)
AbortedClean(e, err) ==
  IF e.state = "Prepared"
  THEN [e EXCEPT !.state = e.prev, !.owner = FALSE, !.intent = NoIntent,
                 !.error = Recorded(err)]
  ELSE e

(* abort_intent_by_address: the sweep's resolution of a write.             *)
IntentAborted(e, err) == IF HasIntent(e) THEN Aborted(e, err) ELSE e

(* release_population_claim: the sweep's answer to a move; the intent      *)
(* stays.                                                                  *)
ClaimReleased(e) ==
  IF e.state = "Prepared" /\ e.owner
  THEN [e EXCEPT !.state = "Failed", !.generation = NextGeneration(e), !.owner = FALSE]
  ELSE e

(* reserve_eviction: admits only a settled entry nobody works on.          *)
Evictable(e) == e.state = "Ready" /\ ~e.owner /\ ~HasIntent(e)

EvictedInPlace(e) == [e EXCEPT !.state = "Stale"]

Evicted(e) == [e EXCEPT !.generation = NextGeneration(e), !.state = "Stale"]

(* sweep_expired, for one entry.                                           *)
Demotable(e) == e.tier # AuthorityRung /\ e.state = "Ready" /\ Expired(e)

=============================================================================
