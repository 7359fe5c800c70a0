------------------------------ MODULE MCParts ------------------------------
(***************************************************************************)
(* Small instances of Manager, ControlTable, FrontDoor, Backends and       *)
(* FaultyTier.  They share no state, so each is explored on its own: a     *)
(* behaviour is one of the part it chose, and the other parts stay as they *)
(* began.                                                                  *)
(*                                                                         *)
(* Writers: three callers of the manager that write, populate and take     *)
(* away, over one rung.                                                    *)
(*                                                                         *)
(* Table: k1 and k2 have one placement and probe into each other's slots,  *)
(* and with k3 they are one more than the shard they share has room for;   *)
(* k4 is alone in the other shard.                                         *)
(*                                                                         *)
(* Door: the tenant <<1, 2>> begins like <<1>>, and <<1, 0>> like a frame  *)
(* of it; the separator also occurs in a key, and the last key is as long  *)
(* as only the shortest tenant may have.                                   *)
(*                                                                         *)
(* Store: a second is two units, so that a lifetime of three is one and a  *)
(* half, and it can run out.                                               *)
(*                                                                         *)
(* Fault: a failure that lets two sets pass before a partial write, and a  *)
(* hang.                                                                   *)
(***************************************************************************)
EXTENDS MCManager, ControlTable, FrontDoor, Backends, FaultyTier

CONSTANTS k1, k2, k3, k4

VARIABLE part

MCPlacement == (k1 :> 2) @@ (k2 :> 2) @@ (k3 :> 0) @@ (k4 :> 1)

Symmetry == Permutations(Sweepers) \cup Permutations(Requesters) \cup Permutations(Tasks)

Using(u1, u2, u3, u4) == (k1 :> u1) @@ (k2 :> u2) @@ (k3 :> u3) @@ (k4 :> u4)

MCUseCases ==
  {Using({"prepare", "invalidate"}, {"acquire", "publish"}, {"set_tier"}, {}),
   Using({"acquire", "publish", "reserve_eviction"}, {"invalidate", "set_generation"}, {"acquire", "fail"}, {"set_tier", "set_state", "bump_generation"})}

MCTenants == {<<1>>, <<1, 2>>, <<1, 0>>}

MCAppKeys == {<<2>>, <<2, 2>>, <<0, 2>>, <<2, 2, 2>>, <<2, 2, 2, 2>>}

Asking(ops) == [op : ops, tenant : {<<1>>}, authenticated : {TRUE}, key : {<<2>>}]

MCCases ==
  {[policy |-> "strict", latencies |-> 1..3, records |-> 4,
    requests |-> [op : {"get"}, tenant : {<<1>>}, authenticated : {FALSE}, key : {<<2>>}]],
   [policy |-> "strict", latencies |-> {1}, records |-> 0,
    requests |-> [op : {"exists", "invalidate"}, tenant : Tenants, authenticated : BOOLEAN,
                  key : AppKeys]],
   [policy |-> "custom", latencies |-> {1}, records |-> 2,
    requests |-> Asking({"get_or_fetch", "set"})],
   [policy |-> "default", latencies |-> {1}, records |-> 3,
    requests |-> Asking({"get_or_fetch", "get", "refresh"})],
   [policy |-> "default", latencies |-> {1}, records |-> 4,
    requests |-> Asking({"set", "promote", "demote", "remove"})]}

MCBoundTo == {L0Stub, L3Stub, TestTier, RedisTier, SledTier, OriginTier, OxigraphTier}

MCPlans ==
  {<<Armed("set", "WriteFailure", 2), Armed("set", "PartialWrite", 0)>>,
   <<Armed("get", "Hang", 0), Armed("remove", "Disconnect", 0)>>}

(* What the other parts have to choose is fixed.                           *)
PartsInit ==
  /\ Init /\ TableInit /\ DoorInit /\ BackendInit /\ FaultInit
  /\ part \in {"writers", "table", "door", "store", "fault"}
  /\ part # "table" => uses = CHOOSE case \in UseCases : TRUE
  /\ part # "door"  => offered = CHOOSE case \in Cases : TRUE
  /\ part # "store" => backend = L0Stub
  /\ part # "fault" => plan = (CHOOSE some \in Plans : TRUE) /\ ~corruptor

PartsNext ==
  \/ part = "writers" /\ Next /\ UNCHANGED <<part, tableVars, doorVars, backendVars, faultVars>>
  \/ part = "table" /\ TableNext /\ UNCHANGED <<part, vars, doorVars, backendVars, faultVars>>
  \/ part = "door"  /\ DoorNext /\ UNCHANGED <<part, vars, tableVars, backendVars, faultVars>>
  \/ part = "store" /\ BackendNext /\ UNCHANGED <<part, vars, tableVars, doorVars, faultVars>>
  \/ part = "fault" /\ FaultNext /\ UNCHANGED <<part, vars, tableVars, doorVars, backendVars>>

PartsSpec ==
  PartsInit /\ [][PartsNext]_<<part, vars, tableVars, doorVars, backendVars, faultVars>>

=============================================================================
