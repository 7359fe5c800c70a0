------------------------------ MODULE Capability ------------------------------
(***************************************************************************)
(* What a rung says of itself (src/src/capability.rs), and what each tier  *)
(* of the crate says (src/src/tier/l0.rs .. l5.rs, test.rs, backends).     *)
(* Flags are a set.  A stub answers every call by the same call of its     *)
(* ShardedTierStub, so that what distinguishes one stub from another is    *)
(* the claim below.                                                        *)
(***************************************************************************)
EXTENDS Naturals

Flag == {"in_memory", "volatile", "persistent", "shared", "authoritative", "blocking_io",
         "atomic_write_or_error"}

DurabilityClass == {"volatile", "delegated", "verified"}

OperationalState ==
  {"unbound", "unavailable", "healthy", "degraded", "recovering", "reconciling"}

TierCapability(rung, backend, flags, durability) ==
  [rung |-> rung, backend |-> backend, flags |-> flags, durability |-> durability]

(* Whether a consumer may rely on values outliving the process.            *)
SurvivesRestart(capability) == capability.durability \in {"delegated", "verified"}

-----------------------------------------------------------------------------
InProcess == {"in_memory", "volatile"}

L0Stub == TierCapability(0, "in-memory", InProcess, "volatile")

L1Stub == TierCapability(1, "in-memory", InProcess \cup {"atomic_write_or_error"}, "volatile")

L2Stub == TierCapability(2, "in-memory", InProcess \cup {"atomic_write_or_error"}, "volatile")

L3Stub == TierCapability(3, "in-memory-fallback", InProcess \cup {"atomic_write_or_error"}, "volatile")

L4Stub == TierCapability(4, "in-memory-fallback", InProcess \cup {"atomic_write_or_error"}, "volatile")

L5Stub == TierCapability(5, "in-memory-fallback", InProcess \cup {"atomic_write_or_error"}, "volatile")

TestTier == TierCapability(0, "test", InProcess, "volatile")

RedisTier ==
  TierCapability(3, "redis", {"shared", "blocking_io", "atomic_write_or_error"}, "delegated")

SledTier ==
  TierCapability(4, "sled", {"persistent", "blocking_io", "atomic_write_or_error"}, "delegated")

OriginTier == TierCapability(5, "origin", {"shared", "authoritative"}, "delegated")

OxigraphClaimsDiskMutant == TierCapability(5, "oxigraph", {"blocking_io"}, "delegated")

OxigraphTier == TierCapability(5, "oxigraph", {"blocking_io"}, "volatile")

=============================================================================
