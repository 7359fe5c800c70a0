-------------------------------- MODULE Policy --------------------------------
(***************************************************************************)
(* Where an operation is sent: the policies of src/src/policy.rs, over the *)
(* state of an entry (the rung it is on and that rung's health) and the    *)
(* caller.  Pure functions, without state of their own.                    *)
(*                                                                         *)
(* A rung is its number.  A health is [failures, available]: failures in a *)
(* row, and whether the rung reports any room at all.                      *)
(***************************************************************************)
EXTENDS Naturals

CONSTANTS
  OpensAt,       \* failures in a row that open a circuit (5 in the code)
  CustomTiers    \* the rungs a policy of the application's own may name

ASSUME OpensAtIsPositive == OpensAt \in Nat \ {0}

LastCacheTier == 5

AuthorityTier == 6

ASSUME CustomTiersAreRungs == CustomTiers \subseteq 0..AuthorityTier

IsCacheRung(r) == r <= LastCacheTier

Operation == {"Get", "Set", "Remove", "Invalidate", "Refresh", "Exists", "Promote", "Demote"}

Health == [failures : Nat, available : BOOLEAN]

DefaultHealth == [failures |-> 0, available |-> TRUE]

CircuitOpenMutant(health) == health.failures > OpensAt

CircuitOpen(health) == health.failures >= OpensAt

(* What most operations select from: CacheState::new, which knows no rung. *)
NewState == [tier |-> 0, health |-> DefaultHealth]

-----------------------------------------------------------------------------
BaseTier(op, current) ==
  CASE op = "Get" -> current
    [] op = "Set" -> 1
    [] OTHER      -> 0

(* From a rung whose circuit is open, the walk goes to the end of the      *)
(* ladder; it looks at no rung in between.                                 *)
HealthyFallback(start, state) ==
  IF ~CircuitOpen(state.health) \/ state.tier # start \/ start > LastCacheTier
  THEN start ELSE LastCacheTier

CapacityFallback(start, state) ==
  IF state.tier # start \/ state.health.available THEN start
  ELSE IF start < LastCacheTier THEN start + 1 ELSE LastCacheTier

Allow(tier) == [authorized |-> TRUE, tier |-> tier]

Deny == [authorized |-> FALSE, tier |-> 0]

DefaultSelect(op, state) ==
  LET healthy == HealthyFallback(BaseTier(op, state.tier), state)
  IN  Allow(IF op \in {"Set", "Refresh"} THEN CapacityFallback(healthy, state) ELSE healthy)

Mutating == Operation \ {"Get", "Exists"}

StrictSelect(op, state, authenticated) ==
  IF op \in Mutating /\ ~authenticated THEN Deny ELSE DefaultSelect(op, state)

(* A policy is one of the crate's two, or the application's own, which may *)
(* deny anything and name any rung of CustomTiers.                         *)
Decisions(policy, op, state, authenticated) ==
  CASE policy = "default" -> {DefaultSelect(op, state)}
    [] policy = "strict"  -> {StrictSelect(op, state, authenticated)}
    [] policy = "custom"  -> {Deny} \cup {Allow(r) : r \in CustomTiers}

=============================================================================
