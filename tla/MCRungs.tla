------------------------------ MODULE MCRungs ------------------------------
(***************************************************************************)
(* Small instances of EvictionCursor (on the keys of MCFixedTierStub),     *)
(* ShardedStub and L3Binding.  They share no state, so each is explored on *)
(* its own: a behaviour is one of the part it chose, and the other parts   *)
(* stay as they began.                                                     *)
(*                                                                         *)
(* Shards: two keys in different shards.  L3: no variable set, a scoped    *)
(* one before a well-known one, and in each order an invalid one before or *)
(* after a valid one.                                                      *)
(***************************************************************************)
EXTENDS EvictionCursor, MCFixedTierStub, ShardedStub, L3Binding

CONSTANTS s1, s2

VARIABLE part

MCHash == (s1 :> 0) @@ (s2 :> 3)

Setting(a, b, c, d) ==
  ("THESIX_REDIS_URL" :> a) @@ ("THESIX_VALKEY_URL" :> b) @@ ("REDIS_URL" :> c) @@ ("VALKEY_URL" :> d)

MCEnvs ==
  {Setting("unset", "blank", "unset", "unset"), Setting("blank", "valkeys", "redis", "unset"),
   Setting("unset", "unset", "other", "valkey"), Setting("rediss", "other", "unset", "redis")}

allVars == <<part, cursorVars, stubVars, l3Vars>>

(* What the other parts have to choose is fixed.                           *)
RungsInit ==
  /\ CursorInit /\ ShardedInit /\ L3Init
  /\ part \in {"stub", "shards", "l3"}
  /\ part # "l3" => env = (CHOOSE e \in Envs : TRUE) /\ ~compiled /\ ~executes

RungsNext ==
  \/ part = "stub"   /\ CursorNext /\ UNCHANGED <<part, stubVars, l3Vars>>
  \/ part = "shards" /\ ShardedNext /\ UNCHANGED <<part, cursorVars, l3Vars>>
  \/ part = "l3"     /\ L3Next /\ UNCHANGED <<part, cursorVars, stubVars>>

(* A write that finds the ladder full asks for an eviction candidate; what *)
(* EvictionGoesRound says is of a rung that keeps being asked.             *)
RungsSpec ==
  /\ RungsInit /\ [][RungsNext]_allVars
  /\ WF_cursorVars(part = "stub" /\ EvictionCandidate)
  /\ ScansGoOn
  /\ L3Fairness

=============================================================================
