------------------------------ MODULE Governor ------------------------------
(***************************************************************************)
(* The maintenance loop (src/src/governor/) beside an application: one     *)
(* tick observes the control plane, the census and the telemetry ring in   *)
(* separate reads, plans, and then sweeps, rebinds and moves an entry at a *)
(* time; the application's steps come in between.                          *)
(*                                                                         *)
(* Of an entry only what the planner reads is kept: whether it has a slot, *)
(* its rung, and whether it is Ready.  Any entry may turn out expired when *)
(* it is swept, and any flaky rung degraded when continuity is read.  The  *)
(* census, the ring and a rebinder are configured, and policy permits the  *)
(* moves.  promote and demote are one step here; module Manager takes them *)
(* apart.  The recovery sweep works on intents, which module Cachelito     *)
(* has.  The operators whose names end in Mutant are mutants of the one    *)
(* each precedes.                                                          *)
(***************************************************************************)
EXTENDS Naturals, Sequences, FiniteSetsExt

CONSTANTS
  Keys,
  LastCacheRung,  \* L5 in the code
  Wants,          \* the rungs the application writes at
  Capacity,       \* capacity()[r]; 0 for a rung that does not say
  Pressure,       \* pressure_threshold, as <<numerator, denominator>>
  HotRungs,       \* rungs bound to a HotRungTier
  Unbound,        \* cache rungs nothing is bound to
  Flaky,          \* bound cache rungs whose calls may fail
  HotHeat,        \* hot_heat
  MaxMoves,       \* max_moves_per_tick
  MaxRebinds,     \* max_rebinds_per_tick
  RingSize,       \* capacity of the telemetry ring
  MaxCensus,      \* number of registrations
  Modes           \* the modes the governor may be set to

CacheRung == 0..LastCacheRung

Mode == {"Manual", "SemiAutonomous", "FullyAutonomous"}

ASSUME ConstantsAreTyped ==
  /\ Modes \subseteq Mode
  /\ Wants \cup HotRungs \cup Unbound \cup Flaky \subseteq CacheRung
  /\ Capacity \in [CacheRung -> Nat]
  /\ Pressure \in Nat \X (Nat \ {0})
  /\ {LastCacheRung, MaxMoves, MaxRebinds, MaxCensus} \subseteq Nat
  /\ {RingSize, HotHeat} \subseteq Nat \ {0}

VARIABLES
  mode,      \* settings.mode
  entry,     \* the control plane's record of each key
  census,    \* the registered keys, in order
  ring,      \* the telemetry ring: the key of a served read, or Other
  backing,   \* the rung claimed by the tier behind each rung
  tick,      \* the tick: how far it is and what it has read and planned
  moved      \* history of this tick: number of moves, keys moved up and down

vars == <<mode, entry, census, ring, backing, tick, moved>>

Other == "other"

Entry == [slot : BOOLEAN, ready : BOOLEAN, tier : CacheRung]

Heat(k) == Cardinality({i \in DOMAIN ring : ring[i] = k})

(* RingTelemetry::record: the oldest record makes room.                    *)
Record(x) == ring' = Append(IF Len(ring) = RingSize THEN Tail(ring) ELSE ring, x)

Asleep == [at |-> "asleep", view |-> <<>>, pressured |-> {}, heat |-> [k \in Keys |-> 0],
           rebind |-> {}, demote |-> {}, promote |-> {}, budget |-> 0]

Unmoved == [count |-> 0, up |-> {}, down |-> {}]

At(place) == tick.at = place

Init ==
  /\ mode \in Modes
  /\ entry = [k \in Keys |-> [slot |-> FALSE, ready |-> FALSE, tier |-> 0]]
  /\ census = <<>>
  /\ ring = <<>>
  /\ backing = [r \in HotRungs |-> r]
  /\ tick = Asleep
  /\ moved = Unmoved

-----------------------------------------------------------------------------
(* The application.                                                        *)

RegisterFirstMutant(k) ==
  /\ Len(census) < MaxCensus
  /\ census' = <<k>> \o census
  /\ UNCHANGED <<mode, entry, ring, backing, tick, moved>>

(* KeyCensus::register; a key may be registered twice.                     *)
Register(k) ==
  /\ Len(census) < MaxCensus
  /\ census' = Append(census, k)
  /\ UNCHANGED <<mode, entry, ring, backing, tick, moved>>

(* A read that is served, any other operation that is recorded, a write or *)
(* a population that commits, the end of an entry (invalidation, eviction, *)
(* expiry, failure), whose slot stays.                                     *)
Served(k) ==
  /\ entry[k].ready
  /\ Record(k)
  /\ UNCHANGED <<mode, entry, census, backing, tick, moved>>

Recorded ==
  /\ Record(Other)
  /\ UNCHANGED <<mode, entry, census, backing, tick, moved>>

Write(k, r) ==
  /\ entry' = [entry EXCEPT ![k] = [slot |-> TRUE, ready |-> TRUE, tier |-> r]]
  /\ Record(Other)
  /\ UNCHANGED <<mode, census, backing, tick, moved>>

Leave(k) ==
  /\ entry[k].ready
  /\ entry' = [entry EXCEPT ![k].ready = FALSE]
  /\ UNCHANGED <<mode, census, ring, backing, tick, moved>>

-----------------------------------------------------------------------------
(* The planner.                                                            *)

(* rung_occupancy and the threshold.  by_tier counts every slot.           *)
UnderPressure(r) ==
  /\ Capacity[r] > 0
  /\ Cardinality({k \in Keys : entry[k].slot /\ entry[k].tier = r}) * Pressure[2] >= Pressure[1] * Capacity[r]

(* The n deepest of a set of rungs.                                        *)
Deepest(S, n) == {r \in S : Cardinality({q \in S : q > r}) < n}

(* observe, first part: stats, capacities and continuity.                  *)
Observe ==
  /\ At("asleep")
  /\ \E degraded \in SUBSET Flaky :
       tick' = [Asleep EXCEPT !.at = "view",
                              !.pressured = {r \in CacheRung : UnderPressure(r)},
                              !.rebind = Deepest(Unbound \cup degraded, MaxRebinds)]
  /\ UNCHANGED <<mode, entry, census, ring, backing, moved>>

(* observe, second part: a peek at every census entry.                     *)
View ==
  /\ At("view")
  /\ tick' = [tick EXCEPT !.at = "plan", !.view = [i \in DOMAIN census |-> entry[census[i]]]]
  /\ UNCHANGED <<mode, entry, census, ring, backing, moved>>

HotMutant(view, heat) ==
  {i \in DOMAIN view : view[i].ready /\ view[i].tier > 1 /\ heat[i] >= HotHeat}

(* Hot entries that are not at the top already.                            *)
Hot(view, heat) ==
  {i \in DOMAIN view : view[i].ready /\ view[i].tier > 0 /\ heat[i] >= HotHeat}

(* Hottest first, and the later registration first among equals.           *)
Before(heat, i, j) == heat[i] > heat[j] \/ (heat[i] = heat[j] /\ i > j)

Hottest(S, heat, n) == {i \in S : Cardinality({j \in S : Before(heat, j, i)}) < n}

(* Entries without a read in the window, on rungs under pressure.          *)
Cold(view, heat) ==
  {i \in DOMAIN view : /\ view[i].ready /\ view[i].tier < LastCacheRung
                       /\ view[i].tier \in tick.pressured
                       /\ heat[i] = 0}

(* plan_tick, on the heat measured now.  Without a census or without any   *)
(* served read in the window nothing moves.  The demotions are planned if  *)
(* the promotions left some budget, however many there are.                *)
Plan ==
  LET view    == tick.view
      heat    == [i \in DOMAIN view |-> Heat(census[i])]
      moves   == view # <<>> /\ \E k \in Keys : Heat(k) > 0
      promote == IF moves THEN Hottest(Hot(view, heat), heat, MaxMoves) ELSE {}
      demote  == IF moves /\ Cardinality(promote) < MaxMoves THEN Cold(view, heat) ELSE {}
  IN  /\ At("plan")
      /\ tick' = IF mode = "Manual" THEN Asleep
                 ELSE [Asleep EXCEPT !.at = "sweep", !.heat = [k \in Keys |-> Heat(k)],
                                     !.rebind = tick.rebind,
                                     !.promote = promote, !.demote = demote]
      /\ UNCHANGED <<mode, entry, census, ring, backing, moved>>

-----------------------------------------------------------------------------
(* The executor.                                                           *)

(* How the tick goes on once a leg has nothing left to do: rebinds, then   *)
(* demotions, then promotions; moves only if the mode executes them.       *)
Onward(t) ==
  LET moves == [t EXCEPT !.at = "demote", !.budget = MaxMoves]
      u == IF t.at # "rebind" \/ t.rebind # {} THEN t
           ELSE IF mode = "FullyAutonomous" THEN moves ELSE Asleep
  IN  IF u.at = "demote" /\ (u.demote = {} \/ u.budget = 0)
      THEN [u EXCEPT !.at = "promote", !.demote = {}] ELSE u

(* sweep_expired: whichever Ready entries have expired become Stale.       *)
Sweep ==
  /\ At("sweep")
  /\ \E expired \in SUBSET Keys :
       entry' = [k \in Keys |-> [entry[k] EXCEPT !.ready = @ /\ k \notin expired]]
  /\ tick' = Onward([tick EXCEPT !.at = "rebind"])
  /\ UNCHANGED <<mode, census, ring, backing, moved>>

HotSwapMutant(r, claimed) == backing' = [backing EXCEPT ![r] = claimed]

(* HotRungTier::hot_swap refuses a tier that claims another rung.          *)
HotSwap(r, claimed) == backing' = IF claimed = r THEN [backing EXCEPT ![r] = claimed] ELSE backing

(* The deepest planned rung is next; a rung that is not hot is passed      *)
(* over.  The rebinder may bring any tier, or nothing.                     *)
Rebind ==
  /\ At("rebind")
  /\ LET r == Max(tick.rebind)
     IN  /\ \/ r \in HotRungs /\ \E claimed \in CacheRung : HotSwap(r, claimed)
            \/ UNCHANGED backing
         /\ tick' = Onward([tick EXCEPT !.rebind = @ \ {r}])
  /\ UNCHANGED <<mode, entry, census, ring, moved>>

(* promote and demote: the rung next to the entry's own, if it may move.   *)
Up(t) == IF t > 0 THEN t - 1 ELSE t

DownMutant(t) == t + 1

Down(t) == IF t < LastCacheRung THEN t + 1 ELSE t

(* A move of key k to rung t that returns Ok; without a change of rung it  *)
(* did nothing.                                                            *)
MoveOk(k, t) ==
  /\ entry[k].ready
  /\ IF t = entry[k].tier THEN UNCHANGED <<entry, ring>>
     ELSE /\ entry' = [entry EXCEPT ![k].tier = t]
          /\ Record(Other)

(* A move that returns an error: Miss, or a refusal that aborts and leaves *)
(* the entry Failed, with or without a record of the write.                *)
MoveErr(k, t) ==
  \/ ~entry[k].ready /\ UNCHANGED <<entry, ring>>
  \/ /\ entry[k].ready /\ t # entry[k].tier
     /\ entry' = [entry EXCEPT ![k].ready = FALSE]
     /\ UNCHANGED ring \/ Record(Other)

(* Demotions go in census order.                                           *)
First(i) == \A j \in tick.demote : i <= j

DemoteFreeMutant ==
  /\ At("demote") /\ tick.budget > 0
  /\ \E i \in tick.demote :
       LET k == census[i]
           t == Down(entry[k].tier)
       IN  /\ First(i)
           /\ \/ /\ MoveOk(k, t)
                 /\ moved' = [moved EXCEPT !.count = @ + 1, !.down = @ \cup {k}]
                 /\ tick' = Onward([tick EXCEPT !.demote = @ \ {i}])
              \/ /\ MoveErr(k, t) /\ UNCHANGED moved
                 /\ tick' = Onward([tick EXCEPT !.demote = @ \ {i}, !.budget = @ - 1])
  /\ UNCHANGED <<mode, census, backing>>

(* A demotion costs budget whether or not it succeeds; a full rung below   *)
(* (CapacityExhausted) costs none and ends the leg.                        *)
Demote ==
  /\ At("demote") /\ tick.budget > 0
  /\ \E i \in tick.demote :
       LET k == census[i]
           t == Down(entry[k].tier)
       IN  /\ First(i)
           /\ \/ /\ MoveOk(k, t)
                 /\ moved' = [moved EXCEPT !.count = @ + 1, !.down = @ \cup {k}]
                 /\ tick' = Onward([tick EXCEPT !.demote = @ \ {i}, !.budget = @ - 1])
              \/ /\ MoveErr(k, t) /\ UNCHANGED moved
                 /\ tick' = Onward([tick EXCEPT !.demote = @ \ {i}, !.budget = @ - 1])
              \/ /\ entry[k].ready /\ MoveErr(k, t) /\ UNCHANGED moved
                 /\ tick' = Onward([tick EXCEPT !.demote = {}])
  /\ UNCHANGED <<mode, census, backing>>

(* Only a promotion that succeeds costs budget.                            *)
Promote ==
  /\ At("promote") /\ tick.budget > 0
  /\ \E i \in tick.promote :
       LET k == census[i]
           t == Up(entry[k].tier)
           heat == [j \in tick.promote |-> tick.heat[census[j]]]
       IN  /\ \A j \in tick.promote \ {i} : Before(heat, i, j)
           /\ \/ /\ MoveOk(k, t)
                 /\ moved' = [moved EXCEPT !.count = @ + 1, !.up = @ \cup {k}]
                 /\ tick' = [tick EXCEPT !.promote = @ \ {i}, !.budget = @ - 1]
              \/ /\ MoveErr(k, t) /\ UNCHANGED moved
                 /\ tick' = [tick EXCEPT !.promote = @ \ {i}]
  /\ UNCHANGED <<mode, census, backing>>

PromoteDone ==
  /\ At("promote") /\ (tick.promote = {} \/ tick.budget = 0)
  /\ tick' = Asleep /\ moved' = Unmoved
  /\ UNCHANGED <<mode, entry, census, ring, backing>>

(* GovernorHandle::abort, or the owner drops the tick for good.            *)
Abort ==
  /\ tick.at # "stopped"
  /\ tick' = [Asleep EXCEPT !.at = "stopped"] /\ moved' = Unmoved
  /\ UNCHANGED <<mode, entry, census, ring, backing>>

-----------------------------------------------------------------------------
Application ==
  \/ \E k \in Keys : Register(k) \/ Served(k) \/ Leave(k)
  \/ \E k \in Keys, r \in Wants : Write(k, r)
  \/ Recorded

TickStep ==
  \/ Observe \/ View \/ Plan \/ Sweep \/ Rebind \/ Demote
  \/ Promote \/ PromoteDone

Next == Application \/ TickStep \/ Abort

Spec == Init /\ [][Next]_vars

(* The loop of task.rs: sleep, tick, repeat, until it is aborted.          *)
FairSpec == Spec /\ WF_vars(TickStep)

-----------------------------------------------------------------------------
Place == {"asleep", "view", "plan", "sweep", "rebind", "demote", "promote", "stopped"}

(* The types of the variables; an entry stays on a cache rung.             *)
TypeOK ==
  /\ mode \in Mode
  /\ entry \in [Keys -> Entry]
  /\ census \in Seq(Keys) /\ Len(census) <= MaxCensus
  /\ ring \in Seq(Keys \cup {Other}) /\ Len(ring) <= RingSize
  /\ backing \in [HotRungs -> CacheRung]
  /\ tick.at \in Place /\ tick.budget \in 0..MaxMoves
  /\ tick.promote \cup tick.demote \subseteq DOMAIN census
  /\ moved.count \in Nat

(* A tick moves no more entries than max_moves_per_tick, promotions and    *)
(* demotions together, and none below FullyAutonomous, although the plan   *)
(* may hold more demotions than the budget.                                *)
MovesWithinBudget == moved.count <= IF mode = "FullyAutonomous" THEN MaxMoves ELSE 0

(* What a tick moves is what it had evidence for: a key it has promoted    *)
(* was read hot_heat times in the window the plan was made from, a key it  *)
(* has demoted not at all, whatever was registered, read, written or       *)
(* removed between plan and move.  So no key goes both ways in one tick.   *)
MovesFollowEvidence ==
  At("demote") \/ At("promote") =>
    /\ \A k \in moved.up : tick.heat[k] >= HotHeat
    /\ \A k \in moved.down : tick.heat[k] = 0

(* Whatever the rebinder brings, a hot rung is backed by a tier that       *)
(* claims that rung.                                                       *)
RungsKeepTheirName == \A r \in HotRungs : backing[r] = r

(* Once the application only reads, a registered key that stays Ready and  *)
(* hot comes to L0 and stays there, however tight the budget, whichever    *)
(* other keys are hot or shed, and although demotions are executed before  *)
(* promotions.                                                             *)
HotKeysRise ==
  \A k \in Keys :
    /\ <>[](entry[k].ready /\ Heat(k) >= HotHeat /\ mode = "FullyAutonomous" /\ tick.at # "stopped"
             /\ \E i \in DOMAIN census : census[i] = k)
    /\ <>[][\A q \in Keys, r \in Wants : ~Write(q, r)]_vars
    => <>[](entry[k].tier = 0)

=============================================================================
