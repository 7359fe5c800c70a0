----------------------------- MODULE ControlMap -----------------------------
(***************************************************************************)
(* What the control plane promises its callers: one record per key, for    *)
(* ever, and every call an indivisible step on the record of its own key.  *)
(* Shards, slots and probing are not part of the promise; ControlTable     *)
(* is shown to implement it.                                               *)
(*                                                                         *)
(* A call may also be refused for want of a slot; that leaves everything   *)
(* as it is.  The time steps make an armed TTL elapse and an intent old.   *)
(***************************************************************************)
EXTENDS ControlEntry

CONSTANTS
  Keys,         \* the keys callers name
  Tiers,        \* the rungs they name
  Generations,  \* the generations they name
  Errors        \* the errors they record

VARIABLES
  entries,   \* the record of each key
  tokens     \* the commit tokens prepare has handed out

Token == [key : Keys, generation : Nat, tier : Rung, kind : IntentKind]

TokenOf(k, e, t, kind) ==
  [key |-> k, generation |-> e.generation, tier |-> t, kind |-> kind]

(* find_or_create_entry: the slot exists from now on.                      *)
Touched(e) == [e EXCEPT !.created = TRUE]

-----------------------------------------------------------------------------
(* What a call that needs no token may leave of the record it finds: the   *)
(* calls that create a slot, and those that only look one up.              *)

Acquired(e, t) == IF e.state \in Claimable THEN Claimed(e, t) ELSE Touched(e)

GenerationSet(e, g) == [Touched(e) EXCEPT !.generation = g]

TierSet(e, t) == [Touched(e) EXCEPT !.tier = t]

StateSet(e, s) == [Touched(e) EXCEPT !.state = s]

Bumped(e) == [Touched(e) EXCEPT !.generation = NextGeneration(e)]

Creations(e) ==
  {Acquired(e, t) : t \in Tiers} \cup {TierSet(e, t) : t \in Tiers}
    \cup {GenerationSet(e, g) : g \in Generations} \cup {StateSet(e, s) : s \in State}
    \cup {Bumped(e), Touched(e)}

PublishedAt(e, g, t, ttl) == IF g = e.generation THEN Published(e, t, ttl) ELSE e

Reserved(e) == IF Evictable(e) THEN Evicted(e) ELSE e

LookUps(e) ==
  {PublishedAt(e, gtl[1], gtl[2], gtl[3]) : gtl \in Generations \X Tiers \X BOOLEAN}
    \cup {FailedWith(e, err) : err \in Errors}
    \cup {Invalidated(e), Reserved(e), IntentAborted(e, "UncommittedIntent"), ClaimReleased(e)}

(* What a call that presents a token may leave: commit, abort,             *)
(* abort_proven_clean, and resolve_intent, which is one of the first two.  *)
CommittedWith(e, token, ttl) ==
  IF CommitAdmits(e, token) THEN Committed(e, token, ttl) ELSE e

Settlements(e, token) ==
  {CommittedWith(e, token, ttl) : ttl \in BOOLEAN}
    \cup {Aborted(e, err) : err \in Errors \cup {"UncommittedIntent"}}
    \cup {AbortedClean(e, err) : err \in Errors}

(* Time: the TTL elapses, the intent reaches the age recovery asks for.    *)
Older(e) == {[e EXCEPT !.stamp = "old"], [e EXCEPT !.intent.old = TRUE]}

-----------------------------------------------------------------------------
Init ==
  /\ entries = [k \in Keys |-> NewEntry]
  /\ tokens = {}

(* The calls that may turn the record e of k into f.                       *)
Create(e, f) == f \in Creations(e) /\ UNCHANGED tokens

LookUp(e, f) == e.created /\ f \in LookUps(e) \cup Older(e) /\ UNCHANGED tokens

Prepare(k, e, f) ==
  \E t \in Tiers, kind \in IntentKind :
    /\ f = PreparedFor(e, t, kind)
    /\ tokens' = tokens \cup {TokenOf(k, e, t, kind)}

Settle(k, e, f) ==
  /\ e.created
  /\ \E token \in tokens : token.key = k /\ f \in Settlements(e, token)
  /\ UNCHANGED tokens

Call(k, e, f) == Create(e, f) \/ LookUp(e, f) \/ Prepare(k, e, f) \/ Settle(k, e, f)

(* One shard's part of sweep_expired, under the lock of the shard.         *)
Sweep ==
  /\ \A k \in Keys :
       \/ entries'[k] = entries[k]
       \/ Demotable(entries[k]) /\ entries'[k] = MarkedStale(entries[k])
  /\ UNCHANGED tokens

(* A call changes the record of its key and no other.                      *)
Next ==
  \/ Sweep
  \/ \E k \in Keys :
       /\ \A j \in Keys \ {k} : entries'[j] = entries[j]
       /\ \E e \in {entries[k]}, f \in {entries'[k]} : Call(k, e, f)

Spec == Init /\ [][Next]_<<entries, tokens>>

=============================================================================
