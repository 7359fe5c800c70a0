---------------------------- MODULE EvictionCursor ----------------------------
(***************************************************************************)
(* FixedTierStub with its eviction cursor: which entry a full rung         *)
(* nominates.  The cursor is only read modulo the capacity.                *)
(* EvictionCandidateMutant is a mutant of the action it precedes.          *)
(***************************************************************************)
EXTENDS FixedTierStub

VARIABLES
  cursor,     \* where the next scan starts
  nominated   \* the key last answered by eviction_candidate

cursorVars == <<vars, cursor, nominated>>

EvictionCandidateMutant ==
  LET live == {i \in Index : Live(i)}
  IN  /\ live # {}
      /\ nominated' = {slots[Min(live)].key}
      /\ UNCHANGED <<slots, pool, free, cursor>>

(* eviction_candidate: the first live slot from the cursor on, and the     *)
(* cursor moves past it; with none live, the lowest slot there is.         *)
EvictionCandidate ==
  LET live == {d \in Index : Live((cursor + d) % Capacity)}
      used == {i \in Index : Occupied(i)}
      i    == (cursor + Min(live)) % Capacity
  IN  /\ IF live # {} THEN nominated' = {slots[i].key} /\ cursor' = (i + 1) % Capacity
                      ELSE /\ nominated' = IF used = {} THEN {} ELSE {slots[Min(used)].key}
                           /\ cursor' = (cursor + 1) % Capacity
      /\ UNCHANGED <<slots, pool, free>>

CursorInit == Init /\ cursor = 0 /\ nominated = {}

CursorNext == (Next /\ UNCHANGED <<cursor, nominated>>) \/ EvictionCandidate

CursorSpec == CursorInit /\ [][CursorNext]_cursorVars

(* Eviction goes round: an entry that stays live in its slot is nominated  *)
(* again and again by a rung that keeps being asked, whatever else is      *)
(* written, removed or expires.  This is what eviction_cursor is for.      *)
EvictionGoesRound ==
  \A i \in Index, k \in Keys :
    <>[](Live(i) /\ slots[i].key = k) => []<>(nominated = {k})

=============================================================================
