------------------------- MODULE ControlEntryProofs -------------------------
(***************************************************************************)
(* What each method of the control plane leaves in an entry: lemmas for    *)
(* the proofs about Cachelito and about Manager.                           *)
(***************************************************************************)
EXTENDS ControlEntry, TLAPS

(* A leaf goes to Zenon unless it names another prover: most are first-    *)
(* order, and those with arithmetic or several updates of a record say SMT.*)
USE Zenon

(* What each method leaves in the entry is an entry again.                 *)
LEMMA EntryTypes ==
  ASSUME NEW e \in Entry
  PROVE  /\ \A t \in Rung : Claimed(e, t) \in Entry
         /\ \A t \in Rung, ttl \in BOOLEAN : Published(e, t, ttl) \in Entry
         /\ \A err : FailedWith(e, err) \in Entry
         /\ Invalidated(e) \in Entry
         /\ MarkedStale(e) \in Entry
         /\ \A t \in Rung, k \in IntentKind : PreparedFor(e, t, k) \in Entry
         /\ \A h : \A ttl \in BOOLEAN : h.tier \in Rung => Committed(e, h, ttl) \in Entry
         /\ \A err : Aborted(e, err) \in Entry
         /\ \A err : AbortedClean(e, err) \in Entry
         /\ \A err : IntentAborted(e, err) \in Entry
         /\ ClaimReleased(e) \in Entry
         /\ Evicted(e) \in Entry
<1>0. NextGeneration(e) \in Nat
  BY SMT DEF NextGeneration, Entry
<1>1. \A err : Recorded(err) \in ErrorCode
  BY DEF Recorded, ErrorCode
<1>2. NoIntent \in Intent
  BY SMT DEF NoIntent, Intent, IntentKind, Rung
<1>3. \A t \in Rung : Claimed(e, t) \in Entry
  BY <1>0 DEF Claimed, Entry, State, ErrorCode
<1>4. \A t \in Rung, ttl \in BOOLEAN : Published(e, t, ttl) \in Entry
  BY DEF Published, Entry, State, ErrorCode
<1>5. MarkedStale(e) \in Entry /\ \A err : FailedWith(e, err) \in Entry
  BY <1>1, ZenonT(60) DEF FailedWith, MarkedStale, Entry, State
<1>6. Invalidated(e) \in Entry
  BY <1>0, ZenonT(60) DEF Invalidated, Entry, State, ErrorCode
<1>7. \A t \in Rung, k \in IntentKind : PreparedFor(e, t, k) \in Entry
  BY DEF PreparedFor, Entry, State, Intent
<1>8. \A h : \A ttl \in BOOLEAN : h.tier \in Rung => Committed(e, h, ttl) \in Entry
  BY <1>2, ZenonT(40) DEF Committed, Entry, State, ErrorCode
<1>9. \A err : Aborted(e, err) \in Entry
  BY <1>0, <1>1, <1>2 DEF Aborted, Entry, State
<1>10. \A err : AbortedClean(e, err) \in Entry
  BY <1>1, <1>2 DEF AbortedClean, Entry, State
<1>11. \A err : IntentAborted(e, err) \in Entry
  BY <1>9 DEF IntentAborted
<1>12. ClaimReleased(e) \in Entry
  BY <1>0 DEF ClaimReleased, Entry, State
<1>13. Evicted(e) \in Entry
  BY <1>0 DEF Evicted, Entry, State
<1> QED BY <1>3, <1>4, <1>5, <1>6, <1>7, <1>8, <1>9, <1>10, <1>11, <1>12, <1>13

(* The fields of an entry the invariants speak of, after each method.      *)
(* Generations only grow.                                                  *)
LEMMA NextGenerationIsNext ==
  ASSUME NEW e \in Entry
  PROVE  NextGeneration(e) \in Nat /\ NextGeneration(e) > e.generation
BY SMT DEF NextGeneration, Entry

(* acquire puts the entry in flight at the next generation.                *)
LEMMA ClaimedFields ==
  ASSUME NEW e \in Entry, NEW t
  PROVE  Claimed(e, t).state = "InFlight" /\ Claimed(e, t).generation = NextGeneration(e)
BY DEF Claimed, Entry

(* publish settles the entry at the generation it has.                     *)
LEMMA PublishedFields ==
  ASSUME NEW e \in Entry, NEW t, NEW ttl
  PROVE  Published(e, t, ttl).state = "Ready" /\ Published(e, t, ttl).generation = e.generation
BY DEF Published, Entry

(* fail_with_error keeps the generation and fails a known key.             *)
LEMMA FailedFields ==
  ASSUME NEW e \in Entry, NEW err
  PROVE  /\ FailedWith(e, err).generation = e.generation
         /\ FailedWith(e, err) = e \/ FailedWith(e, err).state = "Failed"
         /\ e.created => FailedWith(e, err).state = "Failed"
BY DEF FailedWith, Entry

(* invalidate empties a known key at the next generation.                  *)
LEMMA InvalidatedFields ==
  ASSUME NEW e \in Entry
  PROVE  /\ e.created => /\ Invalidated(e).state = "Absent"
                         /\ Invalidated(e).generation = NextGeneration(e)
         /\ ~e.created => Invalidated(e) = e
BY DEF Invalidated, Entry

(* set_state(Stale) keeps the generation.                                  *)
LEMMA MarkedStaleFields ==
  ASSUME NEW e \in Entry
  PROVE  MarkedStale(e).state = "Stale" /\ MarkedStale(e).generation = e.generation
BY DEF MarkedStale, Entry

(* prepare keeps the generation and remembers the state it interrupts.     *)
LEMMA PreparedFields ==
  ASSUME NEW e \in Entry, NEW t, NEW k
  PROVE  /\ PreparedFor(e, t, k).state = "Prepared"
         /\ PreparedFor(e, t, k).prev = e.state
         /\ PreparedFor(e, t, k).generation = e.generation
BY DEF PreparedFor, Entry

(* commit settles the entry at the generation it has.                      *)
LEMMA CommittedFields ==
  ASSUME NEW e \in Entry, NEW h, NEW ttl
  PROVE  Committed(e, h, ttl).state = "Ready" /\ Committed(e, h, ttl).generation = e.generation
BY DEF Committed, Entry

(* abort fails a Prepared entry at the next generation.                    *)
LEMMA AbortedFields ==
  ASSUME NEW e \in Entry, NEW err
  PROVE  /\ e.state = "Prepared" => /\ Aborted(e, err).state = "Failed"
                                    /\ Aborted(e, err).generation = NextGeneration(e)
         /\ e.state # "Prepared" => Aborted(e, err) = e
BY DEF Aborted, Entry

(* abort_proven_clean restores what prepare interrupted.                   *)
LEMMA AbortedCleanFields ==
  ASSUME NEW e \in Entry, NEW err
  PROVE  /\ AbortedClean(e, err).generation = e.generation
         /\ e.state = "Prepared" => /\ AbortedClean(e, err).state = e.prev
                                    /\ AbortedClean(e, err).prev = e.prev
                                    /\ AbortedClean(e, err).owner = FALSE
         /\ e.state # "Prepared" => AbortedClean(e, err) = e
BY DEF AbortedClean, Entry

(* The sweep fails a Prepared entry at the next generation, or nothing.    *)
LEMMA SweptFields ==
  ASSUME NEW e \in Entry, NEW err
  PROVE  /\ \/ IntentAborted(e, err) = e
            \/ /\ IntentAborted(e, err).state = "Failed"
               /\ IntentAborted(e, err).generation = NextGeneration(e)
         /\ \/ ClaimReleased(e) = e
            \/ /\ ClaimReleased(e).state = "Failed"
               /\ ClaimReleased(e).generation = NextGeneration(e)
BY DEF IntentAborted, Aborted, ClaimReleased, Entry

(* reserve_eviction advances the generation.                               *)
LEMMA EvictedFields ==
  ASSUME NEW e \in Entry
  PROVE  Evicted(e).state = "Stale" /\ Evicted(e).generation = NextGeneration(e)
BY DEF Evicted, Entry


(* Only acquire, publish and commit name a rung.                           *)
LEMMA TierFields ==
  ASSUME NEW e \in Entry
  PROVE  /\ \A t : Claimed(e, t).tier = t
         /\ \A t, ttl : Published(e, t, ttl).tier = t
         /\ \A h, ttl : Committed(e, h, ttl).tier = h.tier
         /\ \A t, k : PreparedFor(e, t, k).tier = e.tier
         /\ \A err : FailedWith(e, err).tier = e.tier
         /\ \A err : Aborted(e, err).tier = e.tier
         /\ \A err : AbortedClean(e, err).tier = e.tier
         /\ Invalidated(e).tier = e.tier
         /\ MarkedStale(e).tier = e.tier
         /\ Evicted(e).tier = e.tier
BY DEF Claimed, Published, Committed, PreparedFor, FailedWith, Aborted, AbortedClean,
       Invalidated, MarkedStale, Evicted, Entry

(* A slot, once created, stays; until then the key is as new.              *)
LEMMA CreatedStays ==
  ASSUME NEW e \in Entry
  PROVE  /\ \A t : Claimed(e, t).created
         /\ MarkedStale(e).created
         /\ \A t, k : PreparedFor(e, t, k).created
         /\ e.created => /\ \A t, ttl : Published(e, t, ttl).created
                         /\ \A err : FailedWith(e, err).created
                         /\ Invalidated(e).created
                         /\ \A h, ttl : Committed(e, h, ttl).created
                         /\ \A err : Aborted(e, err).created
                         /\ \A err : AbortedClean(e, err).created
                         /\ \A err : IntentAborted(e, err).created
                         /\ ClaimReleased(e).created
                         /\ Evicted(e).created
BY DEF Claimed, Published, FailedWith, Invalidated, MarkedStale, PreparedFor, Committed,
       Aborted, AbortedClean, IntentAborted, ClaimReleased, Evicted, Entry

=============================================================================
