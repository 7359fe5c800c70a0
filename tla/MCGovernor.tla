---------------------------- MODULE MCGovernor ----------------------------
(* The governor for TLC.  L1 holds two entries and sheds from one on; the  *)
(* other rungs do not say how many they hold.                              *)
EXTENDS Governor

MCCapacity == [r \in CacheRung |-> IF r = 1 THEN 2 ELSE 0]

MCPressure == <<1, 2>>

=============================================================================
