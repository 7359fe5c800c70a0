--------------------------- MODULE GovernorProofs ---------------------------
(***************************************************************************)
(* Proofs about the governor, for any keys, ladder, budgets and ring, and  *)
(* about the binding of the Redis rung.                                    *)
(*                                                                         *)
(* MovesWithinBudget is inductive once the budget that is left is added to *)
(* what was moved; MovesFollowEvidence needs that the plan's census        *)
(* positions still name the keys whose heat was measured, which holds      *)
(* because the census only grows at its end.                               *)
(***************************************************************************)
EXTENDS Governor, L3Binding, FiniteSetTheorems, TLAPS

(* A leaf goes to Zenon unless it names another prover: most are first-    *)
(* order, and those with arithmetic or several updates of a record say SMT.*)
USE Zenon

Tick == [at : Place, view : Seq(Entry), pressured : SUBSET CacheRung, heat : [Keys -> Nat],
         rebind : SUBSET CacheRung, demote : SUBSET Nat, promote : SUBSET Nat, budget : Nat]

Moved == [count : Nat, up : SUBSET Keys, down : SUBSET Keys]

(* A tick whose plan is about registered keys and follows its evidence.    *)
TickOK(t) ==
  /\ t \in Tick
  /\ t.budget <= MaxMoves
  /\ Len(t.view) <= Len(census)
  /\ t.promote \cup t.demote \subseteq DOMAIN census
  /\ \A i \in t.promote : t.heat[census[i]] >= HotHeat
  /\ \A i \in t.demote : t.heat[census[i]] = 0

Moving(t) == t.at \in {"demote", "promote"}

(* What has been moved in tick t.                                          *)
MovedOK(t, mv) ==
  /\ mv \in Moved
  /\ ~Moving(t) => mv = Unmoved
  /\ Moving(t) =>
       /\ mode = "FullyAutonomous"
       /\ mv.count + t.budget <= MaxMoves
       /\ \A k \in mv.up : t.heat[k] >= HotHeat
       /\ \A k \in mv.down : t.heat[k] = 0

StateOK ==
  /\ mode \in Mode
  /\ entry \in [Keys -> Entry]
  /\ census \in Seq(Keys) /\ Len(census) <= MaxCensus
  /\ ring \in Seq(Keys \cup {Other}) /\ Len(ring) <= RingSize
  /\ backing \in [HotRungs -> CacheRung]
  /\ RungsKeepTheirName

(* The inductive invariant.                                                *)
Inv == StateOK /\ TickOK(tick) /\ MovedOK(tick, moved)

-----------------------------------------------------------------------------
(* The constants have the types the settings give them.                    *)
LEMMA Constants ==
  /\ MaxMoves \in Nat /\ MaxRebinds \in Nat /\ MaxCensus \in Nat /\ LastCacheRung \in Nat
  /\ RingSize \in Nat /\ RingSize > 0 /\ HotHeat \in Nat /\ HotHeat > 0
  /\ Wants \subseteq CacheRung /\ HotRungs \subseteq CacheRung
  /\ Unbound \subseteq CacheRung /\ Flaky \subseteq CacheRung
  /\ Modes \subseteq Mode
BY ConstantsAreTyped, SMT

(* The heat of a key is a number: the ring is finite.                      *)
LEMMA HeatIsANumber ==
  ASSUME NEW X, ring \in Seq(X), NEW k
  PROVE  Heat(k) \in Nat
<1> DEFINE S == {i \in DOMAIN ring : ring[i] = k}
<1>1. DOMAIN ring = 1..Len(ring) /\ Len(ring) \in Nat
  BY SMT
<1>2. IsFiniteSet(1..Len(ring))
  BY <1>1, FS_Interval, SMT
<1>3. IsFiniteSet(S)
  BY <1>1, <1>2, FS_Subset
<1>4. Cardinality(S) \in Nat
  BY <1>3, FS_CardinalityType
<1> QED
  BY <1>4 DEF Heat

(* RingTelemetry keeps at most its capacity.                               *)
LEMMA RecordKeepsTheRing ==
  ASSUME NEW x \in Keys \cup {Other}, Record(x),
         ring \in Seq(Keys \cup {Other}), Len(ring) <= RingSize
  PROVE  ring' \in Seq(Keys \cup {Other}) /\ Len(ring') <= RingSize
<1>1. CASE Len(ring) = RingSize
  <2>1. ring # <<>>
    BY <1>1, Constants, SMT
  <2>2. Tail(ring) \in Seq(Keys \cup {Other}) /\ Len(Tail(ring)) = Len(ring) - 1
    BY <2>1, SMT
  <2> QED
    BY <1>1, <2>2, Constants, SMT DEF Record
<1>2. CASE Len(ring) # RingSize
  BY <1>2, Constants, SMT DEF Record
<1> QED
  BY <1>1, <1>2

(* The tick between two intervals, and after an abort.                     *)
LEMMA AsleepIsOK ==
  ASSUME census \in Seq(Keys), NEW t \in {Asleep, [Asleep EXCEPT !.at = "stopped"]}
  PROVE  TickOK(t) /\ MovedOK(t, Unmoved)
<1>1. <<>> \in Seq(Entry) /\ Len(<<>>) = 0
  BY SMT
<1>2. t \in Tick
  <2>1. Asleep \in Tick
    BY <1>1 DEF Tick, Asleep, Place
  <2>2. [Asleep EXCEPT !.at = "stopped"] \in Tick
    BY <2>1 DEF Tick, Place
  <2> QED
    BY <2>1, <2>2
<1>3. /\ t.at \in {"asleep", "stopped"} /\ t.view = <<>>
      /\ t.promote = {} /\ t.demote = {} /\ t.budget = 0
  <2>1. CASE t = Asleep
    BY <2>1 DEF Asleep
  <2>2. CASE t = [Asleep EXCEPT !.at = "stopped"]
    BY <2>2 DEF Asleep
  <2> QED
    BY <2>1, <2>2
<1>4. TickOK(t)
  BY <1>1, <1>2, <1>3, Constants, SMT DEF TickOK
<1>5. MovedOK(t, Unmoved)
  BY <1>3 DEF MovedOK, Moving, Moved, Unmoved
<1> QED
  BY <1>4, <1>5

(* Leg after leg, a tick goes on with the plan it has.                     *)
LEMMA OnwardIsOK ==
  ASSUME census \in Seq(Keys), mode \in Mode, NEW mv,
         NEW t, TickOK(t), t.at \in {"rebind", "demote"}, MovedOK(t, mv)
  PROVE  TickOK(Onward(t)) /\ MovedOK(Onward(t), mv)
<1> DEFINE moves == [t EXCEPT !.at = "demote", !.budget = MaxMoves]
           u == IF t.at # "rebind" \/ t.rebind # {} THEN t
                ELSE IF mode = "FullyAutonomous" THEN moves ELSE Asleep
           w == IF u.at = "demote" /\ (u.demote = {} \/ u.budget = 0)
                THEN [u EXCEPT !.at = "promote", !.demote = {}] ELSE u
<1>1. Onward(t) = w
  BY DEF Onward
<1>2. TickOK(u) /\ MovedOK(u, mv)
  <2>1. CASE t.at # "rebind" \/ t.rebind # {}
    BY <2>1
  <2>2. CASE ~(t.at # "rebind" \/ t.rebind # {}) /\ mode = "FullyAutonomous"
    <3>1. mv = Unmoved
      BY <2>2 DEF MovedOK, Moving
    <3>2. moves \in Tick
      BY Constants DEF TickOK, Tick, Place
    <3>3. /\ moves.at = "demote" /\ moves.budget = MaxMoves
          /\ moves.view = t.view /\ moves.heat = t.heat
          /\ moves.promote = t.promote /\ moves.demote = t.demote
      BY DEF TickOK, Tick
    <3>4. MovedOK(moves, mv)
      BY <3>1, <3>3, <2>2, Constants, SMT DEF MovedOK, Moving, Moved, Unmoved
    <3>5. TickOK(moves)
      BY <3>2, <3>3, Constants, SMT DEF TickOK
    <3> QED
      BY <2>2, <3>4, <3>5
  <2>3. CASE ~(t.at # "rebind" \/ t.rebind # {}) /\ mode # "FullyAutonomous"
    <3>1. mv = Unmoved /\ u = Asleep
      BY <2>3 DEF MovedOK, Moving
    <3> QED
      BY <3>1, AsleepIsOK
  <2> QED
    BY <2>1, <2>2, <2>3
<1> HIDE DEF u
<1>3. CASE u.at = "demote" /\ (u.demote = {} \/ u.budget = 0)
  <2>1. TickOK(w)
    BY <1>2, <1>3 DEF TickOK, Tick, Place
  <2>2. w.at = "promote" /\ w.budget = u.budget /\ w.heat = u.heat
    BY <1>2, <1>3 DEF TickOK, Tick
  <2>3. MovedOK(w, mv)
    BY <1>2, <1>3, <2>2 DEF MovedOK, Moving
  <2> QED
    BY <1>1, <2>1, <2>3
<1>4. CASE ~(u.at = "demote" /\ (u.demote = {} \/ u.budget = 0))
  BY <1>1, <1>2, <1>4
<1> QED
  BY <1>3, <1>4

-----------------------------------------------------------------------------
(* Every initial state satisfies the invariant.                            *)
LEMMA InitIsOK == Init => Inv
<1> SUFFICES ASSUME Init PROVE Inv
  OBVIOUS
<1>1. <<>> \in Seq(Keys) /\ <<>> \in Seq(Keys \cup {Other}) /\ Len(<<>>) = 0
  BY SMT
<1>2. StateOK
  BY <1>1, Constants, SMT DEF Init, StateOK, Entry, CacheRung, RungsKeepTheirName
<1>3. TickOK(tick) /\ MovedOK(tick, moved)
  BY <1>1, AsleepIsOK DEF Init
<1> QED
  BY <1>2, <1>3 DEF Inv

(* The application's steps keep the tick and its plan as they are: what    *)
(* they change is a type-correct entry, a record or the end of the census. *)
LEMMA ApplicationIsOK == Inv /\ Application => Inv'
<1> SUFFICES ASSUME Inv, Application PROVE Inv'
  OBVIOUS
<1> USE DEF Inv
<1>1. ASSUME NEW k \in Keys, Register(k) PROVE Inv'
  <2>1. /\ census' \in Seq(Keys) /\ Len(census') = Len(census) + 1 /\ Len(census') <= MaxCensus
        /\ DOMAIN census \subseteq DOMAIN census'
        /\ \A i \in DOMAIN census : census'[i] = census[i]
    BY <1>1, Constants, SMT DEF Register, StateOK
  <2>2. StateOK'
    BY <1>1, <2>1 DEF Register, StateOK, RungsKeepTheirName
  <2>3. Len(tick.view) \in Nat /\ Len(census) \in Nat
    BY SMT DEF TickOK, Tick, StateOK
  <2>4. TickOK(tick)'
    BY <1>1, <2>1, <2>3, SMT DEF Register, TickOK
  <2>5. MovedOK(tick, moved)'
    BY <1>1 DEF Register, MovedOK
  <2> QED
    BY <2>2, <2>4, <2>5
<1>2. ASSUME UNCHANGED <<mode, census, backing, tick, moved>>, entry' \in [Keys -> Entry],
             ring' \in Seq(Keys \cup {Other}), Len(ring') <= RingSize
      PROVE Inv'
  BY <1>2 DEF StateOK, RungsKeepTheirName, TickOK, MovedOK
<1>3. ASSUME NEW k \in Keys, Served(k) PROVE Inv'
  BY <1>2, <1>3, RecordKeepsTheRing DEF Served, StateOK
<1>4. ASSUME Recorded PROVE Inv'
  BY <1>2, <1>4, RecordKeepsTheRing DEF Recorded, StateOK
<1>5. ASSUME NEW k \in Keys, NEW r \in Wants, Write(k, r) PROVE Inv'
  BY <1>2, <1>5, RecordKeepsTheRing, Constants DEF Write, StateOK, Entry
<1>6. ASSUME NEW k \in Keys, Leave(k) PROVE Inv'
  BY <1>2, <1>6 DEF Leave, StateOK, Entry
<1> QED
  BY <1>1, <1>3, <1>4, <1>5, <1>6 DEF Application

(* What a move does to the entry and the ring.                             *)
LEMMA MovesAreTyped ==
  ASSUME StateOK, NEW k \in Keys, NEW t \in CacheRung, MoveOk(k, t) \/ MoveErr(k, t)
  PROVE  /\ entry' \in [Keys -> Entry]
         /\ ring' \in Seq(Keys \cup {Other}) /\ Len(ring') <= RingSize
<1>1. entry' \in [Keys -> Entry]
  BY DEF MoveOk, MoveErr, StateOK, Entry
<1>2. ring' = ring \/ Record(Other)
  BY DEF MoveOk, MoveErr
<1> QED
  BY <1>1, <1>2, RecordKeepsTheRing DEF StateOK

(* promote and demote stay on the ladder.                                  *)
LEMMA MovesStayOnTheLadder ==
  ASSUME NEW t \in CacheRung
  PROVE  Up(t) \in CacheRung /\ Down(t) \in CacheRung
BY Constants, SMT DEF Up, Down, CacheRung

(* A step that only changes the tick.                                      *)
LEMMA TickOnly ==
  ASSUME Inv, UNCHANGED <<mode, entry, census, ring, backing>>,
         TickOK(tick'), MovedOK(tick', moved')
  PROVE  Inv'
<1>1. StateOK'
  BY DEF Inv, StateOK, RungsKeepTheirName
<1>2. TickOK(tick)' /\ MovedOK(tick, moved)'
  BY DEF TickOK, MovedOK
<1> QED
  BY <1>1, <1>2 DEF Inv

(* The first half of the observation leaves a tick without a plan.         *)
LEMMA ObserveIsOK == Inv /\ Observe => Inv'
<1> SUFFICES ASSUME Inv, Observe PROVE Inv'
  OBVIOUS
<1>0. census \in Seq(Keys)
  BY DEF Inv, StateOK
<1>1. PICK degraded \in SUBSET Flaky :
        tick' = [Asleep EXCEPT !.at = "view",
                               !.pressured = {r \in CacheRung : UnderPressure(r)},
                               !.rebind = Deepest(Unbound \cup degraded, MaxRebinds)]
  BY DEF Observe
<1>2. Asleep \in Tick /\ TickOK(Asleep)
  BY <1>0, AsleepIsOK DEF TickOK
<1>3. Deepest(Unbound \cup degraded, MaxRebinds) \subseteq CacheRung
  BY Constants DEF Deepest
<1>4. tick' \in Tick
  BY <1>1, <1>2, <1>3 DEF Tick, Place
<1>5. /\ tick'.at = "view" /\ tick'.view = Asleep.view /\ tick'.heat = Asleep.heat
      /\ tick'.promote = Asleep.promote /\ tick'.demote = Asleep.demote
      /\ tick'.budget = Asleep.budget
  BY <1>1, <1>2 DEF Tick
<1>6. TickOK(tick')
  BY <1>2, <1>4, <1>5 DEF TickOK
<1>7. MovedOK(tick', moved')
  BY <1>5 DEF Inv, Observe, At, MovedOK, Moving
<1> QED
  BY <1>6, <1>7, TickOnly DEF Observe

(* The second half looks at every census position there is.                *)
LEMMA ViewIsOK == Inv /\ View => Inv'
<1> SUFFICES ASSUME Inv, View PROVE Inv'
  OBVIOUS
<1> DEFINE view == [i \in DOMAIN census |-> entry[census[i]]]
<1>1. view \in Seq(Entry) /\ Len(view) = Len(census)
  BY SMT DEF Inv, StateOK
<1>2. tick \in Tick /\ tick' = [tick EXCEPT !.at = "plan", !.view = view]
  BY DEF View, Inv, TickOK
<1> HIDE DEF view
<1>3. tick' \in Tick
  BY <1>1, <1>2 DEF Tick, Place
<1>4. /\ tick'.at = "plan" /\ tick'.view = view /\ tick'.heat = tick.heat
      /\ tick'.promote = tick.promote /\ tick'.demote = tick.demote
      /\ tick'.budget = tick.budget
  BY <1>2 DEF Tick
<1>5. TickOK(tick')
  <2>1. Len(census) \in Nat
    BY SMT DEF Inv, StateOK
  <2> QED
    BY <1>1, <1>3, <1>4, <2>1, SMT DEF Inv, TickOK
<1>6. MovedOK(tick', moved')
  BY <1>4 DEF Inv, View, At, MovedOK, Moving
<1> QED
  BY <1>5, <1>6, TickOnly DEF View

(* The plan is about census positions it has looked at, and follows the    *)
(* heat it has measured.                                                   *)
LEMMA PlanIsOK == Inv /\ Plan => Inv'
<1> SUFFICES ASSUME Inv, Plan PROVE Inv'
  OBVIOUS
<1> DEFINE view    == tick.view
           heat    == [i \in DOMAIN view |-> Heat(census[i])]
           moves   == view # <<>> /\ \E k \in Keys : Heat(k) > 0
           promote == IF moves THEN Hottest(Hot(view, heat), heat, MaxMoves) ELSE {}
           demote  == IF moves /\ Cardinality(promote) < MaxMoves THEN Cold(view, heat) ELSE {}
           full    == [k \in Keys |-> Heat(k)]
           u       == [Asleep EXCEPT !.at = "sweep", !.heat = full, !.rebind = tick.rebind,
                                     !.promote = promote, !.demote = demote]
<1>0. census \in Seq(Keys) /\ ring \in Seq(Keys \cup {Other})
  BY DEF Inv, StateOK
<1>1. DOMAIN view \subseteq DOMAIN census /\ DOMAIN view \subseteq Nat
  BY <1>0, SMT DEF Inv, TickOK, Tick
<1>2. full \in [Keys -> Nat]
  BY <1>0, HeatIsANumber
<1>3. \A i \in DOMAIN view : heat[i] = full[census[i]]
  BY <1>0, <1>1, SMT
<1>4. promote \subseteq DOMAIN view /\ \A i \in promote : heat[i] >= HotHeat
  BY DEF Hottest, Hot
<1>5. demote \subseteq DOMAIN view /\ \A i \in demote : heat[i] = 0
  BY DEF Cold
<1>6. tick' = IF mode = "Manual" THEN Asleep ELSE u
  BY DEF Plan
<1>7. moved = Unmoved /\ moved' = Unmoved
  BY DEF Inv, Plan, At, MovedOK, Moving
<1>8. TickOK(u) /\ MovedOK(u, Unmoved)
  <2>1. Asleep \in Tick /\ TickOK(Asleep)
    BY <1>0, AsleepIsOK DEF TickOK
  <2>2. tick.rebind \subseteq CacheRung
    BY DEF Inv, TickOK, Tick
  <2>3. promote \in SUBSET Nat /\ demote \in SUBSET Nat
    BY <1>1, <1>4, <1>5
  <2> HIDE DEF promote, demote, full
  <2>4. u \in Tick
    BY <1>2, <2>1, <2>2, <2>3 DEF Tick, Place
  <2>5. /\ u.at = "sweep" /\ u.view = Asleep.view /\ u.heat = full
        /\ u.promote = promote /\ u.demote = demote /\ u.budget = Asleep.budget
    BY <2>1 DEF Tick
  <2>6. TickOK(u)
    BY <1>1, <1>3, <1>4, <1>5, <2>1, <2>4, <2>5, ZenonT(40) DEF TickOK
  <2>7. MovedOK(u, Unmoved)
    BY <2>5 DEF MovedOK, Moving, Moved, Unmoved
  <2> QED
    BY <2>6, <2>7
<1> HIDE DEF u
<1>9. TickOK(tick') /\ MovedOK(tick', moved')
  BY <1>0, <1>6, <1>7, <1>8, AsleepIsOK
<1> QED
  BY <1>9, TickOnly DEF Plan

(* The expiry sweep makes entries Stale and leaves the plan alone.         *)
LEMMA SweepIsOK == Inv /\ Sweep => Inv'
<1> SUFFICES ASSUME Inv, Sweep PROVE Inv'
  OBVIOUS
<1> DEFINE t == [tick EXCEPT !.at = "rebind"]
<1>0. census \in Seq(Keys) /\ mode \in Mode /\ tick \in Tick
  BY DEF Inv, StateOK, TickOK
<1>1. /\ t \in Tick /\ t.at = "rebind" /\ t.view = tick.view /\ t.heat = tick.heat
      /\ t.promote = tick.promote /\ t.demote = tick.demote /\ t.budget = tick.budget
  BY <1>0 DEF Tick, Place
<1>2. TickOK(t) /\ MovedOK(t, moved)
  BY <1>1 DEF Inv, Sweep, At, TickOK, MovedOK, Moving
<1> HIDE DEF t
<1>3. TickOK(Onward(t)) /\ MovedOK(Onward(t), moved)
  BY <1>0, <1>1, <1>2, OnwardIsOK
<1>4. tick' = Onward(t) /\ UNCHANGED <<mode, census, ring, backing, moved>>
  BY DEF Sweep, t
<1>5. entry' \in [Keys -> Entry]
  BY ZenonT(40) DEF Sweep, Inv, StateOK, Entry
<1>6. StateOK'
  BY <1>4, <1>5 DEF Inv, StateOK, RungsKeepTheirName
<1>7. TickOK(tick)' /\ MovedOK(tick, moved)'
  BY <1>3, <1>4 DEF TickOK, MovedOK
<1> QED
  BY <1>6, <1>7 DEF Inv

(* A rebind may change what backs a hot rung, not the rung it claims.      *)
LEMMA RebindIsOK == Inv /\ Rebind => Inv'
<1> SUFFICES ASSUME Inv, Rebind PROVE Inv'
  OBVIOUS
<1> DEFINE r == Max(tick.rebind)
           t == [tick EXCEPT !.rebind = @ \ {r}]
<1>0. census \in Seq(Keys) /\ mode \in Mode /\ tick \in Tick
  BY DEF Inv, StateOK, TickOK
<1>1. /\ t \in Tick /\ t.at = "rebind" /\ t.view = tick.view /\ t.heat = tick.heat
      /\ t.promote = tick.promote /\ t.demote = tick.demote /\ t.budget = tick.budget
  BY <1>0 DEF Tick, Rebind, At
<1>2. TickOK(t) /\ MovedOK(t, moved)
  BY <1>1 DEF Inv, Rebind, At, TickOK, MovedOK, Moving
<1> HIDE DEF t
<1>3. TickOK(Onward(t)) /\ MovedOK(Onward(t), moved)
  BY <1>0, <1>1, <1>2, OnwardIsOK
<1>4. tick' = Onward(t) /\ UNCHANGED <<mode, entry, census, ring, moved>>
  BY DEF Rebind, t
<1>5. backing' \in [HotRungs -> CacheRung] /\ RungsKeepTheirName'
  BY Constants DEF Rebind, HotSwap, Inv, StateOK, RungsKeepTheirName
<1>6. StateOK'
  BY <1>4, <1>5 DEF Inv, StateOK
<1>7. TickOK(tick)' /\ MovedOK(tick, moved)'
  BY <1>3, <1>4 DEF TickOK, MovedOK
<1> QED
  BY <1>6, <1>7 DEF Inv

(* A step that moves one key of the plan: what the tick and the history    *)
(* become is all that is left to show.                                     *)
LEMMA MoveStep ==
  ASSUME Inv, NEW i \in DOMAIN census, NEW t \in CacheRung,
         MoveOk(census[i], t) \/ MoveErr(census[i], t),
         UNCHANGED <<mode, census, backing>>, TickOK(tick'), MovedOK(tick', moved')
  PROVE  Inv'
<1>1. census[i] \in Keys /\ StateOK
  BY SMT DEF Inv, StateOK
<1>2. /\ entry' \in [Keys -> Entry]
      /\ ring' \in Seq(Keys \cup {Other}) /\ Len(ring') <= RingSize
  BY <1>1, MovesAreTyped
<1>3. StateOK'
  BY <1>1, <1>2 DEF StateOK, RungsKeepTheirName
<1>4. TickOK(tick)' /\ MovedOK(tick, moved)'
  BY DEF TickOK, MovedOK
<1> QED
  BY <1>3, <1>4 DEF Inv

(* Demotions: the budget pays for each attempt.                            *)
LEMMA DemoteIsOK == Inv /\ Demote => Inv'
<1> SUFFICES ASSUME Inv, Demote PROVE Inv'
  OBVIOUS
<1> DEFINE Spent(i) == [tick EXCEPT !.demote = @ \ {i}, !.budget = @ - 1]
           Ended == [tick EXCEPT !.demote = {}]
           Counted(k) == [moved EXCEPT !.count = @ + 1, !.down = @ \cup {k}]
<1>1. PICK i \in tick.demote :
        \/ /\ MoveOk(census[i], Down(entry[census[i]].tier))
           /\ moved' = Counted(census[i]) /\ tick' = Onward(Spent(i))
        \/ /\ MoveErr(census[i], Down(entry[census[i]].tier))
           /\ moved' = moved /\ (tick' = Onward(Spent(i)) \/ tick' = Onward(Ended))
  BY DEF Demote
<1> DEFINE k == census[i]
<1>2. /\ i \in DOMAIN census /\ k \in Keys /\ census \in Seq(Keys) /\ mode \in Mode
      /\ tick \in Tick /\ tick.at = "demote" /\ tick.budget > 0 /\ tick.heat[k] = 0
      /\ Down(entry[k].tier) \in CacheRung
  BY <1>1, MovesStayOnTheLadder, SMT DEF Inv, StateOK, TickOK, Demote, At, Entry
<1>3. /\ moved \in Moved /\ mode = "FullyAutonomous" /\ moved.count + tick.budget <= MaxMoves
      /\ \A q \in moved.up : tick.heat[q] >= HotHeat
      /\ \A q \in moved.down : tick.heat[q] = 0
  BY <1>2 DEF Inv, MovedOK, Moving
<1>4. /\ Spent(i) \in Tick /\ Spent(i).at = "demote" /\ Spent(i).view = tick.view
      /\ Spent(i).heat = tick.heat /\ Spent(i).promote = tick.promote
      /\ Spent(i).demote = tick.demote \ {i} /\ Spent(i).budget = tick.budget - 1
  <2>1. tick.budget - 1 \in Nat /\ tick.demote \ {i} \in SUBSET Nat
    BY <1>2, SMT DEF Tick
  <2> QED
    BY <1>2, <2>1, Zenon DEF Tick
<1>5. /\ Ended \in Tick /\ Ended.at = "demote" /\ Ended.view = tick.view
      /\ Ended.heat = tick.heat /\ Ended.promote = tick.promote
      /\ Ended.demote = {} /\ Ended.budget = tick.budget
  BY <1>2 DEF Tick
<1>6. /\ Counted(k) \in Moved /\ Counted(k).count = moved.count + 1
      /\ Counted(k).up = moved.up /\ Counted(k).down = moved.down \cup {k}
  <2>1. moved.count + 1 \in Nat /\ moved.down \cup {k} \in SUBSET Keys
    BY <1>2, <1>3, SMT DEF Moved
  <2> QED
    BY <1>3, <2>1, Zenon DEF Moved
<1>7. tick.budget \in Nat /\ moved.count \in Nat
  BY <1>2, <1>3 DEF Tick, Moved
<1> HIDE DEF Spent, Ended, Counted
<1>8. TickOK(Spent(i)) /\ TickOK(Ended)
  BY <1>4, <1>5, <1>7, Constants, SMT DEF Inv, TickOK
<1>9. MovedOK(Spent(i), moved) /\ MovedOK(Ended, moved)
  BY <1>3, <1>4, <1>5, <1>7, Constants, SMT DEF MovedOK, Moving
<1>10. MovedOK(Spent(i), Counted(k))
  BY <1>2, <1>3, <1>4, <1>6, <1>7, Constants, SMT DEF MovedOK, Moving
<1>11. TickOK(tick') /\ MovedOK(tick', moved')
  BY <1>1, <1>2, <1>4, <1>5, <1>8, <1>9, <1>10, OnwardIsOK
<1>12. UNCHANGED <<mode, census, backing>>
  BY DEF Demote
<1> QED
  BY <1>1, <1>2, <1>11, <1>12, MoveStep

(* Promotions: the budget pays for each success.                           *)
LEMMA PromoteIsOK == Inv /\ Promote => Inv'
<1> SUFFICES ASSUME Inv, Promote PROVE Inv'
  OBVIOUS
<1> DEFINE Spent(i) == [tick EXCEPT !.promote = @ \ {i}, !.budget = @ - 1]
           Passed(i) == [tick EXCEPT !.promote = @ \ {i}]
           Counted(k) == [moved EXCEPT !.count = @ + 1, !.up = @ \cup {k}]
<1>1. PICK i \in tick.promote :
        \/ /\ MoveOk(census[i], Up(entry[census[i]].tier))
           /\ moved' = Counted(census[i]) /\ tick' = Spent(i)
        \/ /\ MoveErr(census[i], Up(entry[census[i]].tier))
           /\ moved' = moved /\ tick' = Passed(i)
  BY DEF Promote
<1> DEFINE k == census[i]
<1>2. /\ i \in DOMAIN census /\ k \in Keys
      /\ tick \in Tick /\ tick.at = "promote" /\ tick.budget > 0 /\ tick.heat[k] >= HotHeat
      /\ Up(entry[k].tier) \in CacheRung
  BY <1>1, MovesStayOnTheLadder, SMT DEF Inv, StateOK, TickOK, Promote, At, Entry
<1>3. /\ moved \in Moved /\ mode = "FullyAutonomous" /\ moved.count + tick.budget <= MaxMoves
      /\ \A q \in moved.up : tick.heat[q] >= HotHeat
      /\ \A q \in moved.down : tick.heat[q] = 0
  BY <1>2 DEF Inv, MovedOK, Moving
<1>4. /\ Spent(i) \in Tick /\ Spent(i).at = "promote" /\ Spent(i).view = tick.view
      /\ Spent(i).heat = tick.heat /\ Spent(i).promote = tick.promote \ {i}
      /\ Spent(i).demote = tick.demote /\ Spent(i).budget = tick.budget - 1
  <2>1. tick.budget - 1 \in Nat /\ tick.promote \ {i} \in SUBSET Nat
    BY <1>2, SMT DEF Tick
  <2> QED
    BY <1>2, <2>1, Zenon DEF Tick
<1>5. /\ Passed(i) \in Tick /\ Passed(i).at = "promote" /\ Passed(i).view = tick.view
      /\ Passed(i).heat = tick.heat /\ Passed(i).promote = tick.promote \ {i}
      /\ Passed(i).demote = tick.demote /\ Passed(i).budget = tick.budget
  BY <1>2 DEF Tick
<1>6. /\ Counted(k) \in Moved /\ Counted(k).count = moved.count + 1
      /\ Counted(k).down = moved.down /\ Counted(k).up = moved.up \cup {k}
  <2>1. moved.count + 1 \in Nat /\ moved.up \cup {k} \in SUBSET Keys
    BY <1>2, <1>3, SMT DEF Moved
  <2> QED
    BY <1>3, <2>1, Zenon DEF Moved
<1>7. tick.budget \in Nat /\ moved.count \in Nat
  BY <1>2, <1>3 DEF Tick, Moved
<1> HIDE DEF Spent, Passed, Counted
<1>8. TickOK(Spent(i)) /\ TickOK(Passed(i))
  BY <1>4, <1>5, <1>7, Constants, SMT DEF Inv, TickOK
<1>9. MovedOK(Passed(i), moved)
  BY <1>3, <1>5 DEF MovedOK, Moving
<1>10. MovedOK(Spent(i), Counted(k))
  BY <1>2, <1>3, <1>4, <1>6, <1>7, Constants, SMT DEF MovedOK, Moving
<1>11. TickOK(tick') /\ MovedOK(tick', moved')
  BY <1>1, <1>8, <1>9, <1>10
<1>12. UNCHANGED <<mode, census, backing>>
  BY DEF Promote
<1> QED
  BY <1>1, <1>2, <1>11, <1>12, MoveStep

(* The end of a tick, and of the governor.                                 *)
LEMMA EndIsOK == Inv /\ (PromoteDone \/ Abort) => Inv'
<1> SUFFICES ASSUME Inv, PromoteDone \/ Abort PROVE Inv'
  OBVIOUS
<1>1. /\ tick' \in {Asleep, [Asleep EXCEPT !.at = "stopped"]} /\ moved' = Unmoved
      /\ UNCHANGED <<mode, entry, census, ring, backing>>
  BY DEF PromoteDone, Abort
<1>2. census \in Seq(Keys)
  BY DEF Inv, StateOK
<1>3. TickOK(tick') /\ MovedOK(tick', moved')
  BY <1>1, <1>2, AsleepIsOK
<1> QED
  BY <1>1, <1>3, TickOnly

-----------------------------------------------------------------------------
(* The inductive invariant holds in every reachable state, whatever the    *)
(* application does between two steps of a tick.                           *)
THEOREM Invariance == Spec => []Inv
<1>1. Init => Inv
  BY InitIsOK
<1>2. Inv /\ [Next]_vars => Inv'
  <2>1. Inv /\ Next => Inv'
    BY ApplicationIsOK, ObserveIsOK, ViewIsOK, PlanIsOK, SweepIsOK, RebindIsOK,
       DemoteIsOK, PromoteIsOK, EndIsOK, Zenon DEF Next, TickStep
  <2>2. Inv /\ UNCHANGED vars => Inv'
    BY DEF vars, Inv, StateOK, RungsKeepTheirName, TickOK, MovedOK
  <2> QED
    BY <2>1, <2>2
<1> QED
  BY <1>1, <1>2, PTL DEF Spec

(* Type correctness; in particular no promotion or demotion takes an entry *)
(* off the ladder, wherever it was when it was planned.                    *)
THEOREM TypeCorrectness == Spec => []TypeOK
<1>1. Inv => TypeOK
  BY Constants, SMT DEF Inv, StateOK, TickOK, Tick, MovedOK, Moved, TypeOK
<1> QED
  BY <1>1, Invariance, PTL

(* No tick moves more entries than max_moves_per_tick, promotions and      *)
(* demotions together, however many the plan holds, and none moves an      *)
(* entry below FullyAutonomous.                                            *)
THEOREM BudgetHolds == Spec => []MovesWithinBudget
<1>1. Inv => MovesWithinBudget
  <2> SUFFICES ASSUME Inv PROVE MovesWithinBudget
    OBVIOUS
  <2>1. CASE Moving(tick)
    BY <2>1, Constants, SMT DEF Inv, TickOK, Tick, MovedOK, Moved, MovesWithinBudget
  <2>2. CASE ~Moving(tick)
    BY <2>2, Constants, SMT DEF Inv, MovedOK, Unmoved, MovesWithinBudget
  <2> QED
    BY <2>1, <2>2
<1> QED
  BY <1>1, Invariance, PTL

(* A key a tick has promoted was hot in the window its plan was made from, *)
(* and a key it has demoted was not read in it, although keys are          *)
(* registered, read, written and lost between plan and move.               *)
THEOREM EvidenceHolds == Spec => []MovesFollowEvidence
<1>1. Inv => MovesFollowEvidence
  BY DEF Inv, MovedOK, Moving, At, MovesFollowEvidence
<1> QED
  BY <1>1, Invariance, PTL

(* Whatever tiers the rebinder brings, a hot rung is backed by a tier that *)
(* claims that rung.                                                       *)
THEOREM RungNamesHold == Spec => []RungsKeepTheirName
<1>1. Inv => RungsKeepTheirName
  BY DEF Inv, StateOK
<1> QED
  BY <1>1, Invariance, PTL

-----------------------------------------------------------------------------
(* The binding of the Redis rung.                                          *)

(* The variables that are set, and the first of them.                      *)
Present(e) == {i \in DOMAIN Candidates : Lookup(e, Candidates[i])}

(* detect_redis_endpoint takes the first of the four variables that is     *)
(* set.                                                                    *)
LEMMA FirstPresent ==
  ASSUME NEW e, Present(e) # {}
  PROVE  \E i \in 1..4 : /\ i \in Present(e) /\ \A j \in Present(e) : i <= j
                         /\ DetectRedisEndpoint(e) = NormalizeUrl(e, Candidates[i])
<1>1. DOMAIN Candidates = 1..4
  BY SMT DEF Candidates
<1> DEFINE P == Present(e)
<1>2. P \subseteq 1..4 /\ P # {}
  BY <1>1 DEF Present
<1> HIDE DEF P
<1>3. \E i \in P : \A j \in P : i <= j
  <2>1. CASE 1 \in P
    BY <1>2, <2>1, SMT
  <2>2. CASE 1 \notin P /\ 2 \in P
    BY <1>2, <2>2, SMT
  <2>3. CASE 1 \notin P /\ 2 \notin P /\ 3 \in P
    BY <1>2, <2>3, SMT
  <2>4. CASE 1 \notin P /\ 2 \notin P /\ 3 \notin P
    <3>1. \A j \in P : j = 4
      BY <1>2, <2>4, SMT
    <3>2. 4 \in P
      BY <1>2, <3>1
    <3> QED BY <3>1, <3>2, SMT
  <2> QED BY <2>1, <2>2, <2>3, <2>4
<1> DEFINE i == CHOOSE n \in P : \A j \in P : n <= j
<1>4. i \in P /\ \A j \in P : i <= j
  BY <1>3
<1>5. DetectRedisEndpoint(e) = NormalizeUrl(e, Candidates[i])
  BY <1>2 DEF DetectRedisEndpoint, Present, P
<1> HIDE DEF i
<1> QED BY <1>2, <1>4, <1>5 DEF P

(* detect_redis_endpoint: the first variable that is set decides, and if   *)
(* that one is no redis URL it decides that there is no ladder.            *)
LEMMA DetectionIsOfTheFirst ==
  ASSUME NEW e
  PROVE  LET endpoint == DetectRedisEndpoint(e)
         IN  /\ endpoint.at \in {"none", "refused", "found"}
             /\ endpoint.at = "found" =>
                  \A i \in DOMAIN Candidates :
                    Lookup(e, Candidates[i]) => \E j \in 1..i : Candidates[j] = endpoint.host
             /\ endpoint.at = "refused" =>
                  \E i \in DOMAIN Candidates : /\ e[Candidates[i]] = "other"
                                               /\ \A j \in 1..i - 1 : ~Lookup(e, Candidates[j])
<1> DEFINE endpoint == DetectRedisEndpoint(e)
<1>0. DOMAIN Candidates = 1..4
  BY SMT DEF Candidates
<1>1. CASE Present(e) = {}
  <2>1. endpoint.at = "none"
    BY <1>1 DEF DetectRedisEndpoint, Present
  <2> QED BY <2>1
<1>2. CASE Present(e) # {}
  <2>1. PICK i \in 1..4 : /\ i \in Present(e) /\ \A j \in Present(e) : i <= j
                          /\ endpoint = NormalizeUrl(e, Candidates[i])
    BY <1>2, FirstPresent
  <2>2. \A j \in DOMAIN Candidates : Lookup(e, Candidates[j]) => i <= j
    BY <2>1 DEF Present
  <2>3. CASE e[Candidates[i]] = "other"
    <3>1. endpoint.at = "refused"
      BY <2>1, <2>3, SMT DEF NormalizeUrl, Refused
    <3>2. \A j \in 1..i - 1 : ~Lookup(e, Candidates[j])
      BY <1>0, <2>2, SMT
    <3> QED BY <1>0, <2>3, <3>1, <3>2
  <2>4. CASE e[Candidates[i]] # "other"
    <3>1. endpoint.at = "found" /\ endpoint.host = Candidates[i]
      BY <2>1, <2>4, SMT DEF NormalizeUrl
    <3>2. \A j \in DOMAIN Candidates : Lookup(e, Candidates[j]) => i \in 1..j
      BY <1>0, <2>2, SMT
    <3> QED BY <3>1, <3>2
  <2> QED BY <2>3, <2>4
<1> QED BY <1>1, <1>2

-----------------------------------------------------------------------------
(* A connection to the endpoint that was detected.                         *)
BehindL3(tier) == tier.kind = "redis" /\ tier.endpoint = ladder.endpoint

(* The report, the rung behind it and the rebinding agree: what is dialled *)
(* and what is behind a hot rung are connections to the endpoint that the  *)
(* environment named when it was read.                                     *)
BindingOK ==
  /\ ladder = NoLadder \/ ladder.at \in {"built", "refused"}
  /\ ladder.at = "built" =>
       /\ ladder.hot \in BOOLEAN
       /\ ladder.hot <=> ladder.report = "Redis"
       /\ ladder.hot => BehindL3(inner)
       /\ ladder.report # "NotConfigured" =>
            ladder.endpoint = DetectRedisEndpoint(read) /\ ladder.endpoint.at = "found"
  /\ ladder.at = "refused" => DetectRedisEndpoint(read).at = "refused"
  /\ repair.at # "asleep" => ladder.at = "built"
  /\ repair.at = "dialled" => BehindL3(repair.tier)

(* assemble_ladder, in each of its cases.                                  *)
LEMMA AssemblyBinds ==
  ASSUME BindingOK, AssembleLadder
  PROVE  BindingOK'
<1> DEFINE endpoint == DetectRedisEndpoint(env)
<1>1. ladder = NoLadder /\ read' = env /\ repair' = repair /\ repair.at = "asleep"
  BY DEF AssembleLadder, BindingOK, NoLadder
<1>2. endpoint.at \in {"none", "refused", "found"} /\ endpoint = DetectRedisEndpoint(read')
  BY <1>1, DetectionIsOfTheFirst
<1>3. CASE endpoint.at = "refused"
  <2>1. ladder'.at = "refused"
    BY <1>3, SMT DEF AssembleLadder, Refused
  <2> QED BY <1>1, <1>2, <1>3, <2>1 DEF BindingOK
<1>4. CASE endpoint.at = "none"
  <2>1. ladder' = Built("NotConfigured", endpoint, FALSE, FALSE)
    BY <1>4 DEF AssembleLadder
  <2>2. ladder'.at = "built" /\ ladder'.report = "NotConfigured" /\ ladder'.hot = FALSE
    BY <2>1 DEF Built
  <2> QED BY <1>1, <2>2 DEF BindingOK
<1>5. CASE endpoint.at = "found"
  <2>1. BindL3(endpoint)
    BY <1>5 DEF AssembleLadder
  <2>2. CASE compiled /\ server.up
    <3>1. ladder' = Built("Redis", endpoint, TRUE, TRUE) /\ inner' = Connection(endpoint)
      BY <2>1, <2>2 DEF BindL3
    <3>2. inner'.kind = "redis" /\ inner'.endpoint = endpoint
      BY <3>1 DEF Connection
    <3>3. /\ ladder'.at = "built" /\ ladder'.report = "Redis" /\ ladder'.hot = TRUE
          /\ ladder'.endpoint = endpoint
      BY <3>1 DEF Built
    <3> QED BY <1>1, <1>2, <1>5, <3>2, <3>3 DEF BindingOK, BehindL3
  <2>3. CASE ~(compiled /\ server.up)
    <3>1. ladder' = Built("RedisDegradedToMemory", endpoint, FALSE, compiled)
      BY <2>1, <2>3 DEF BindL3
    <3>2. /\ ladder'.at = "built" /\ ladder'.report = "RedisDegradedToMemory"
          /\ ladder'.hot = FALSE /\ ladder'.endpoint = endpoint
      BY <3>1 DEF Built
    <3> QED BY <1>1, <1>2, <1>5, <3>2 DEF BindingOK
  <2> QED BY <2>2, <2>3
<1> QED BY <1>2, <1>3, <1>4, <1>5

(* Every step of the binding keeps the report and the rung in agreement.   *)
LEMMA BindingStep == BindingOK /\ [L3Next]_l3Vars => BindingOK'
<1> SUFFICES ASSUME BindingOK, [L3Next]_l3Vars PROVE BindingOK'
  OBVIOUS
<1>1. CASE UNCHANGED <<read, ladder, inner, repair>>
  BY <1>1 DEF BindingOK, BehindL3
<1>2. CASE PlanRebind
  BY <1>2 DEF PlanRebind, BindingOK, BehindL3
<1>3. CASE RedisRebinder
  <2>1. Connection(ladder.endpoint).kind = "redis" /\ Connection(ladder.endpoint).endpoint = ladder.endpoint
    BY DEF Connection
  <2>2. \/ repair' = [at |-> "asleep"]
        \/ repair' = [at |-> "dialled", tier |-> Connection(ladder.endpoint)]
    BY <1>3 DEF RedisRebinder
  <2>3. repair'.at = "asleep" \/ (repair'.at = "dialled" /\ repair'.tier = Connection(ladder.endpoint))
    BY <2>2, SMT
  <2> QED BY <1>3, <2>1, <2>3 DEF RedisRebinder, BindingOK, BehindL3
<1>4. CASE SwapL3
  BY <1>4 DEF SwapL3, BindingOK, BehindL3
<1> QED BY <1>1, <1>2, <1>3, <1>4, AssemblyBinds
        DEF L3Next, Governing, EditEnv, ServerStarts, ServerStops, CallL3, L3Answers, l3Vars

(* The report bind_l3 makes stays true while the governor rebinds L3 and   *)
(* the operator edits the environment, for every environment, any number   *)
(* of clients and however often the server restarts.                       *)
THEOREM ReportStaysTrue == L3Spec => []ReportIsTrue
<1>1. L3Init => BindingOK
  BY SMT DEF L3Init, BindingOK, NoLadder
<1>2. BindingOK => ReportIsTrue
  <2> SUFFICES ASSUME BindingOK PROVE ReportIsTrue
    OBVIOUS
  <2>1. CASE ladder.at = "built"
    <3>1. ladder.report = "Redis" <=> Current.kind = "redis"
      BY <2>1 DEF BindingOK, BehindL3, Current, Memory
    <3>2. ladder.hot => inner.endpoint = ladder.endpoint
      BY <2>1 DEF BindingOK, BehindL3
    <3>3. ladder.report # "NotConfigured" =>
            \A i \in DOMAIN Candidates :
              Lookup(read, Candidates[i]) => \E j \in 1..i : Candidates[j] = ladder.endpoint.host
      BY <2>1, DetectionIsOfTheFirst DEF BindingOK
    <3> QED BY <2>1, <3>1, <3>2, <3>3 DEF ReportIsTrue
  <2>2. CASE ladder.at = "refused"
    <3>1. \E i \in DOMAIN Candidates : /\ read[Candidates[i]] = "other"
                                       /\ \A j \in 1..i - 1 : ~Lookup(read, Candidates[j])
      BY <2>2, DetectionIsOfTheFirst DEF BindingOK
    <3> QED BY <2>2, <3>1 DEF ReportIsTrue
  <2>3. CASE ladder.at \notin {"built", "refused"}
    BY <2>3 DEF ReportIsTrue
  <2> QED BY <2>1, <2>2, <2>3
<1> QED BY <1>1, <1>2, BindingStep, PTL DEF L3Spec

=============================================================================
