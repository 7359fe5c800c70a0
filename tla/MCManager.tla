----------------------------- MODULE MCManager -----------------------------
(* Manager for TLC: who performs what.                                     *)
EXTENDS Manager, TLC

(* One writer; the other reads, fences and takes away.                     *)
OneWriter == "w" :> {"set", "move"} @@ "r" :> {"get", "invalidate", "remove"}

(* Three that write, populate and take away.                               *)
Writers == "w" :> {"set"} @@ "v" :> {"set", "remove"} @@ "f" :> {"fetch", "invalidate"}

(* Two that populate and a writer that interrupts them.                    *)
Populations ==
  "f" :> {"fetch", "refresh"} @@ "g" :> {"fetch", "get"} @@ "w" :> {"set", "remove"}

(* Two that write, and every other operation beside them.                  *)
Everybody == "w" :> {"set", "move"} @@ "v" :> {"set", "fetch", "refresh", "get", "remove"}

TwoSetters == "w" :> {"set"} @@ "v" :> {"set"}

TwoFetchers == "f" :> {"fetch"} @@ "g" :> {"fetch"}

=============================================================================
