--------------------------- MODULE CachelitoProofs ---------------------------
(***************************************************************************)
(* Proofs that the control plane keeps its invariants for every set of     *)
(* callers, waiters, rungs and errors and for every bound on generations;  *)
(* and, at the end, about the tier that tests inject faults with, for any  *)
(* plans and tasks.                                                        *)
(***************************************************************************)
EXTENDS Cachelito, FaultyTier, ControlEntryProofs, FiniteSetTheorems, TLAPS

(* A leaf goes to Zenon unless it names another prover: most are first-    *)
(* order, and those with arithmetic or several updates of a record say SMT.*)
USE Zenon

(* Nobody holds a claim or a token from the future.                        *)
HoldingsAreBehind ==
  \A c \in Clients : Holds(c, CanSettle) => held[c].generation <= entry.generation

(* What a fence has separated stays strictly behind.                       *)
FencedAreBehind ==
  \A c \in fenced : Holds(c, CanSettle) /\ held[c].generation < entry.generation

(* acquire grants each generation once.                                    *)
PopulationsDiffer ==
  \A c, d \in Clients :
    Holds(c, {"population"}) /\ Holds(d, {"population"}) /\ c # d
      => held[c].generation # held[d].generation

(* A client holds role r at the entry's own generation.                    *)
LiveHolder(r) ==
  \E c \in Clients : Holds(c, {r}) /\ held[c].generation = entry.generation

(* An interrupted population is as live as one in flight: a clean abort    *)
(* puts it back.                                                           *)
InterruptedIsLive ==
  entry.state = "Prepared" /\ entry.prev = "InFlight" => LiveHolder("population")

(* Nobody holds anything of a key that has no slot yet.                    *)
KnownKey ==
  entry.created \/ (entry = NewEntry /\ \A c \in Clients : held[c].role = "none")

(* Generations: what the fences and the claims rest on.                    *)
Generations == HoldingsAreBehind /\ FencedAreBehind /\ PopulationsDiffer

Owners == OwnersAreLive /\ InterruptedIsLive

Inv ==
  /\ TypeOK
  /\ KnownKey
  /\ Generations
  /\ Owners
  /\ NoLostWakeup

-----------------------------------------------------------------------------
(* Type correctness is inductive by itself.                                *)
LEMMA TypeStep == TypeOK /\ [Next]_vars => TypeOK'
<1> SUFFICES ASSUME TypeOK, [Next]_vars PROVE TypeOK'
  OBVIOUS
<1>0. /\ entry \in Entry /\ held \in [Clients -> Holding] /\ fenced \subseteq Clients
      /\ wait \in [Waiters -> {"idle", "observed", "enabled", "parked"}]
      /\ notified \subseteq Waiters
  BY DEF TypeOK
<1>1. /\ \A c \in Clients : Drop(c) => held' \in [Clients -> Holding]
      /\ \A c \in Clients, r \in Role, g \in Nat, t \in Rung, k \in IntentKind \cup {"none"} :
           Take(c, r, g, t, k) => held' \in [Clients -> Holding]
  <2>1. Nothing \in Holding
    BY SMT DEF Nothing, Holding, Role, Rung
  <2> QED BY <1>0, <2>1, SMT DEF Drop, Take, Holding
<1>2. /\ \A c \in Clients : Issue(c) => fenced' \subseteq Clients
      /\ \A S, p : FenceIf(p, S) => fenced' \subseteq Clients
      /\ \A S : Fence(S) => fenced' \subseteq Clients
      /\ Notify => notified' \subseteq Waiters
  BY <1>0 DEF Issue, Fence, FenceIf, Notify
<1>3. /\ entry.generation \in Nat /\ NextGeneration(entry) \in Nat
      /\ entry.intent.kind \in IntentKind \cup {"none"}
      /\ 0 \in Rung
  BY <1>0, NextGenerationIsNext, SMT DEF Entry, Intent, Rung
<1>E. /\ \A t \in Tiers : t \in Rung
      /\ \A t \in Rung : Claimed(entry, t) \in Entry
      /\ \A t \in Rung, ttl \in BOOLEAN : Published(entry, t, ttl) \in Entry
      /\ \A t \in Rung, k \in IntentKind : PreparedFor(entry, t, k) \in Entry
  BY <1>0, EntryTypes, TiersAreRungs
<1>4. ASSUME NEW c \in Clients, ClientStep(c) PROVE TypeOK'
  <2>1. CASE \E t \in Tiers : Acquire(c, t) \/ AssumePopulation(c, t)
    BY <2>1, <1>0, <1>1, <1>2, <1>3, <1>E
       DEF Acquire, AssumePopulation, TypeOK, Role
  <2>2. CASE \E t \in Tiers, ttl \in BOOLEAN : Publish(c, t, ttl)
    BY <2>2, <1>0, <1>1, <1>2, <1>E DEF Publish, TypeOK
  <2>3. CASE \E err \in Errors : Fail(c, err)
    BY <2>3, <1>0, <1>1, <1>2, EntryTypes DEF Fail, TypeOK
  <2>4. CASE \E t \in Tiers, k \in IntentKind : Prepare(c, t, k)
    BY <2>4, <1>0, <1>1, <1>2, <1>3, <1>E DEF Prepare, TypeOK, Role
  <2>5. CASE \E ttl \in BOOLEAN : Commit(c, ttl)
    <3>1. held[c].tier \in Rung
      BY <1>0 DEF Holding
    <3>2. \A ttl \in BOOLEAN : Committed(entry, held[c], ttl) \in Entry
      BY <1>0, <3>1, EntryTypes
    <3> QED BY <2>5, <3>2, <1>0, <1>1, <1>2 DEF Commit, TypeOK
  <2>6. CASE \E err \in Errors : Abort(c, err) \/ AbortProvenClean(c, err)
    BY <2>6, <1>0, <1>1, <1>2, EntryTypes DEF Abort, AbortProvenClean, TypeOK
  <2>7. CASE ReadReady(c) \/ ListStaleIntent(c)
    <3>1. held' \in [Clients -> Holding]
      BY <2>7, <1>1, <1>3 DEF ReadReady, ListStaleIntent, Role
    <3> QED BY <2>7, <3>1, <1>0 DEF ReadReady, ListStaleIntent, TypeOK
  <2>8. CASE MarkStale(c)
    BY <2>8, <1>0, <1>1, EntryTypes DEF MarkStale, Notify, TypeOK
  <2>9. CASE ResolveStaleIntent(c)
    BY <2>9, <1>0, <1>1, <1>2, EntryTypes DEF ResolveStaleIntent, TypeOK
  <2> QED BY <1>4, <2>1, <2>2, <2>3, <2>4, <2>5, <2>6, <2>7, <2>8, <2>9 DEF ClientStep
<1>5. ASSUME NEW w \in Waiters, WaiterStep(w) PROVE TypeOK'
  BY <1>5, <1>0 DEF WaiterStep, ObservePending, EnableNotified, Recheck, WakeUp, WaitTimeout,
                    WaitStep, TypeOK
<1>6. CASE Invalidate \/ ReserveEviction \/ SweepExpired
  BY <1>6, <1>0, <1>2, EntryTypes DEF Invalidate, ReserveEviction, SweepExpired, TypeOK
<1>7. CASE ElapseTtl
  BY <1>7, <1>0 DEF ElapseTtl, TypeOK, Entry
<1>8. CASE AgeIntent
  <2>1. entry.intent \in Intent /\ [entry.intent EXCEPT !.old = TRUE] \in Intent
    BY <1>0 DEF Entry, Intent
  <2>2. entry' = [entry EXCEPT !.intent = [entry.intent EXCEPT !.old = TRUE]]
    BY <1>8, <1>0 DEF AgeIntent, Entry
  <2>3. entry' \in Entry
    BY <1>0, <2>1, <2>2 DEF Entry
  <2> QED BY <1>8, <1>0, <2>3 DEF AgeIntent, TypeOK
<1>9. CASE UNCHANGED vars
  BY <1>9, <1>0 DEF vars, TypeOK
<1> QED BY <1>4, <1>5, <1>6, <1>7, <1>8, <1>9 DEF Next

-----------------------------------------------------------------------------
(* No wake-up is lost: the entry leaves Pending only in steps that notify, *)
(* and notify_waiters reaches everybody registered.                        *)
LEMMA WakeupStep == TypeOK /\ NoLostWakeup /\ [Next]_vars => NoLostWakeup'
<1> SUFFICES ASSUME TypeOK, NoLostWakeup, [Next]_vars PROVE NoLostWakeup'
  OBVIOUS
<1>0. entry \in Entry /\ wait \in [Waiters -> {"idle", "observed", "enabled", "parked"}]
  BY DEF TypeOK
<1>1. ASSUME Notify, wait' = wait PROVE NoLostWakeup'
  BY <1>1 DEF Notify, NoLostWakeup
<1>2. ASSUME wait' = wait, notified' = notified,
             entry.state \in Pending => entry'.state \in Pending
      PROVE  NoLostWakeup'
  BY <1>2 DEF NoLostWakeup
<1>3. ASSUME NEW c \in Clients, ClientStep(c) PROVE NoLostWakeup'
  <2>1. CASE \E t \in Tiers : Acquire(c, t) \/ AssumePopulation(c, t)
    BY <2>1, <1>0, <1>2, ClaimedFields DEF Acquire, AssumePopulation, Claimable, Pending
  <2>2. CASE \/ \E t \in Tiers, ttl \in BOOLEAN : Publish(c, t, ttl)
             \/ \E err \in Errors : Fail(c, err)
             \/ \E ttl \in BOOLEAN : Commit(c, ttl)
             \/ MarkStale(c)
    BY <2>2, <1>1 DEF Publish, Fail, Commit, MarkStale
  <2>3. CASE \E t \in Tiers, k \in IntentKind : Prepare(c, t, k)
    <3>1. \A t, k : PreparedFor(entry, t, k).state \in Pending
      BY <1>0, PreparedFields, SMT DEF Pending
    <3> QED BY <2>3, <3>1, <1>2 DEF Prepare
  <2>4. CASE \E err \in Errors : Abort(c, err) \/ AbortProvenClean(c, err)
    <3>1. CASE entry.state = "Prepared"
      BY <2>4, <3>1, <1>1 DEF Abort, AbortProvenClean
    <3>2. CASE entry.state # "Prepared"
      <4>1. \A err : Aborted(entry, err) = entry /\ AbortedClean(entry, err) = entry
        BY <3>2, <1>0, AbortedFields, AbortedCleanFields
      <4> QED BY <2>4, <3>2, <4>1, <1>2 DEF Abort, AbortProvenClean
    <3> QED BY <3>1, <3>2
  <2>5. CASE ReadReady(c) \/ ListStaleIntent(c)
    BY <2>5, <1>2 DEF ReadReady, ListStaleIntent
  <2>6. CASE ResolveStaleIntent(c)
    BY <2>6, <1>1, <1>2 DEF ResolveStaleIntent
  <2> QED BY <1>3, <2>1, <2>2, <2>3, <2>4, <2>5, <2>6 DEF ClientStep
<1>4. ASSUME NEW w \in Waiters, WaiterStep(w) PROVE NoLostWakeup'
  BY <1>4, <1>0 DEF WaiterStep, ObservePending, EnableNotified, Recheck, WakeUp, WaitTimeout,
                    WaitStep, NoLostWakeup
<1>5. CASE Invalidate
  BY <1>5, <1>0, <1>1, <1>2, InvalidatedFields DEF Invalidate
<1>6. CASE ReserveEviction \/ SweepExpired
  BY <1>6, <1>1 DEF ReserveEviction, SweepExpired
<1>7. CASE ElapseTtl \/ AgeIntent
  BY <1>7, <1>0, <1>2 DEF ElapseTtl, AgeIntent, Entry
<1>8. CASE UNCHANGED vars
  BY <1>8, <1>2 DEF vars
<1> QED BY <1>3, <1>4, <1>5, <1>6, <1>7, <1>8 DEF Next

-----------------------------------------------------------------------------
(* A step on behalf of one caller changes what that caller holds only.     *)
LEMMA DropFields ==
  ASSUME TypeOK, NEW c \in Clients, Drop(c)
  PROVE  held'[c] = Nothing /\ \A d \in Clients \ {c} : held'[d] = held[d]
BY DEF TypeOK, Drop

(* The same for a step that takes something.                               *)
LEMMA TakeFields ==
  ASSUME TypeOK, NEW c \in Clients, NEW r, NEW g, NEW t, NEW k, Take(c, r, g, t, k)
  PROVE  /\ held'[c].role = r /\ held'[c].generation = g
         /\ \A d \in Clients \ {c} : held'[d] = held[d]
BY DEF TypeOK, Take

(* Every fence advances the generation past what it fences, and a holding  *)
(* is taken at the generation of its moment.                               *)
LEMMA GenerationsStep == TypeOK /\ Generations /\ [Next]_vars => Generations'
<1> SUFFICES ASSUME TypeOK, Generations, [Next]_vars PROVE Generations'
  OBVIOUS
<1> DEFINE Settles(c) == held[c].role \in {"population", "assumed", "intent"}
<1>0. /\ entry \in Entry /\ entry.generation \in Nat /\ fenced \subseteq Clients
      /\ entry' \in Entry /\ entry'.generation \in Nat
      /\ \A c \in Clients : held[c].generation \in Nat
  BY TypeStep DEF TypeOK, Entry, Holding
<1>1. /\ \A c \in Clients : Settles(c) => held[c].generation <= entry.generation
      /\ \A c \in fenced : Settles(c) /\ held[c].generation < entry.generation
      /\ \A c, d \in Clients :
           /\ held[c].role = "population" /\ held[d].role = "population" /\ c # d
           => held[c].generation # held[d].generation
  BY DEF Generations, HoldingsAreBehind, FencedAreBehind, PopulationsDiffer, Holds,
         CanSettle, Publishers
(* A caller lets go, or takes something that settles nothing.              *)
<1>2. ASSUME NEW c \in Clients,
             held'[c].role \notin {"population", "assumed", "intent"},
             \A d \in Clients \ {c} : held'[d] = held[d],
             \/ entry'.generation = entry.generation /\ fenced' \subseteq fenced \ {c}
             \/ entry'.generation > entry.generation /\ Fence({c})
      PROVE  Generations'
  BY <1>0, <1>1, <1>2, SMT DEF Generations, HoldingsAreBehind, FencedAreBehind, PopulationsDiffer,
                          Holds, CanSettle, Publishers, Fence
(* Nobody's holding changes.                                               *)
<1>3. ASSUME held' = held,
             \/ entry'.generation = entry.generation /\ fenced' \subseteq fenced
             \/ entry'.generation > entry.generation /\ Fence({})
      PROVE  Generations'
  BY <1>0, <1>1, <1>3, SMT DEF Generations, HoldingsAreBehind, FencedAreBehind, PopulationsDiffer,
                          Holds, CanSettle, Publishers, Fence
<1>4. ASSUME NEW c \in Clients, ClientStep(c) PROVE Generations'
  <2>1. CASE \E t \in Tiers : Acquire(c, t)
    <3>1. PICK t \in Tiers : Acquire(c, t)
      BY <2>1
    <3>2. /\ held'[c].role = "population" /\ held'[c].generation = entry'.generation
          /\ \A d \in Clients \ {c} : held'[d] = held[d]
          /\ entry'.generation > entry.generation
      BY <3>1, <1>0, ClaimedFields, NextGenerationIsNext, TakeFields, SMT DEF Acquire
    <3>3. Fence({c})
      BY <3>1 DEF Acquire
    <3> QED
      BY <1>0, <1>1, <3>2, <3>3, SMT DEF Generations, HoldingsAreBehind, FencedAreBehind,
                                    PopulationsDiffer, Holds, CanSettle, Publishers, Fence
  <2>2. CASE \/ \E t \in Tiers : AssumePopulation(c, t)
             \/ \E t \in Tiers, k \in IntentKind : Prepare(c, t, k)
    <3>1. /\ held'[c].role \in {"assumed", "intent"} /\ held'[c].generation = entry.generation
          /\ \A d \in Clients \ {c} : held'[d] = held[d]
          /\ entry'.generation = entry.generation
          /\ fenced' = fenced \ {c}
      <4>1. \A t, k : PreparedFor(entry, t, k).generation = entry.generation
        BY <1>0, PreparedFields
      <4> QED BY <2>2, <4>1, TakeFields, SMT DEF AssumePopulation, Prepare, Issue
    <3> QED
      BY <1>0, <1>1, <3>1, SMT DEF Generations, HoldingsAreBehind, FencedAreBehind,
                              PopulationsDiffer, Holds, CanSettle, Publishers
  <2>3. ASSUME Drop(c), \/ entry'.generation = entry.generation /\ fenced' \subseteq fenced \ {c}
                        \/ entry'.generation > entry.generation /\ Fence({c})
        PROVE  Generations'
    <3>1. Nothing.role \notin {"population", "assumed", "intent"}
      BY DEF Nothing
    <3> QED BY <2>3, <3>1, <1>2, DropFields
  <2>4. CASE \/ \E t \in Tiers, ttl \in BOOLEAN : Publish(c, t, ttl)
             \/ \E err \in Errors : Fail(c, err)
             \/ \E ttl \in BOOLEAN : Commit(c, ttl)
    <3>1. entry'.generation = entry.generation
      BY <2>4, <1>0, PublishedFields, FailedFields, CommittedFields, SMT DEF Publish, Fail, Commit
    <3> QED BY <2>4, <3>1, <2>3 DEF Publish, Fail, Commit, Issue
  <2>5. CASE \E err \in Errors : Abort(c, err)
    <3>1. CASE entry.state = "Prepared"
      <4>1. entry'.generation > entry.generation
        BY <2>5, <3>1, <1>0, AbortedFields, NextGenerationIsNext, SMT DEF Abort
      <4> QED BY <2>5, <3>1, <4>1, <2>3 DEF Abort, FenceIf
    <3>2. CASE entry.state # "Prepared"
      <4>1. entry' = entry
        BY <2>5, <3>2, <1>0, AbortedFields DEF Abort
      <4> QED BY <2>5, <3>2, <4>1, <2>3 DEF Abort, FenceIf
    <3> QED BY <3>1, <3>2
  <2>6. CASE \E err \in Errors : AbortProvenClean(c, err)
    <3>1. entry'.generation = entry.generation
      BY <2>6, <1>0, AbortedCleanFields, ZenonT(40) DEF AbortProvenClean
    <3> QED BY <2>6, <3>1, <2>3 DEF AbortProvenClean, Issue
  <2>7. CASE ReadReady(c) \/ ListStaleIntent(c)
    <3>1. c \notin fenced
      BY <2>7, <1>1 DEF ReadReady, ListStaleIntent, Holds
    <3>2. held'[c].role \in {"marker", "sweep"} /\ \A d \in Clients \ {c} : held'[d] = held[d]
      BY <2>7, TakeFields DEF ReadReady, ListStaleIntent
    <3> QED BY <2>7, <3>1, <3>2, <1>2 DEF ReadReady, ListStaleIntent
  <2>8. CASE MarkStale(c)
    <3>1. c \notin fenced /\ entry'.generation = entry.generation
      BY <2>8, <1>0, <1>1, MarkedStaleFields DEF MarkStale, Holds
    <3> QED BY <2>8, <3>1, <2>3 DEF MarkStale
  <2>9. CASE ResolveStaleIntent(c)
    <3>1. c \notin fenced /\ held[c].role = "sweep"
      BY <2>9, <1>1 DEF ResolveStaleIntent, Holds
    <3>2. entry' = entry \/ entry'.generation > entry.generation
      BY <2>9, <1>0, SweptFields, NextGenerationIsNext DEF ResolveStaleIntent
    <3>3. CASE entry' = entry
      BY <2>9, <3>1, <3>3, <2>3 DEF ResolveStaleIntent, FenceIf
    <3>4. CASE entry'.generation > entry.generation
      <4>1. Fence({})
        BY <2>9, <3>4, <1>0, SMT DEF ResolveStaleIntent, FenceIf
      <4>2. Fence({c})
        BY <4>1, <3>1 DEF Fence, Holds, CanSettle, Publishers
      <4> QED BY <2>9, <3>4, <4>2, <2>3 DEF ResolveStaleIntent
    <3> QED BY <3>2, <3>3, <3>4
  <2> QED BY <1>4, <2>1, <2>2, <2>4, <2>5, <2>6, <2>7, <2>8, <2>9 DEF ClientStep
<1>5. ASSUME NEW w \in Waiters, WaiterStep(w) PROVE Generations'
  BY <1>5, <1>3 DEF WaiterStep, ObservePending, EnableNotified, Recheck, WakeUp, WaitTimeout,
                    WaitStep
<1>6. CASE Invalidate
  <2>1. CASE entry.created
    BY <1>6, <2>1, <1>0, <1>3, InvalidatedFields, NextGenerationIsNext DEF Invalidate, FenceIf
  <2>2. CASE ~entry.created
    BY <1>6, <2>2, <1>0, <1>3, InvalidatedFields DEF Invalidate, FenceIf
  <2> QED BY <2>1, <2>2
<1>7. CASE ReserveEviction \/ SweepExpired
  BY <1>7, <1>0, <1>3, EvictedFields, MarkedStaleFields, NextGenerationIsNext DEF ReserveEviction, SweepExpired
<1>8. CASE ElapseTtl \/ AgeIntent
  BY <1>8, <1>0, <1>3 DEF ElapseTtl, AgeIntent, Entry
<1>9. CASE UNCHANGED vars
  BY <1>9, <1>3 DEF vars
<1> QED BY <1>4, <1>5, <1>6, <1>7, <1>8, <1>9 DEF Next

-----------------------------------------------------------------------------
(* Nobody gets hold of anything without creating the slot.                 *)
LEMMA KnownKeyStep == TypeOK /\ KnownKey /\ [Next]_vars => KnownKey'
<1> SUFFICES ASSUME TypeOK, KnownKey, [Next]_vars PROVE KnownKey'
  OBVIOUS
<1>0. entry \in Entry
  BY DEF TypeOK
<1>1. CASE entry.created
  <2>1. ASSUME NEW c \in Clients, ClientStep(c) PROVE entry'.created
    BY <1>0, <1>1, <2>1, CreatedStays
       DEF ClientStep, Acquire, AssumePopulation, Publish, Fail, Prepare, Commit, Abort,
           AbortProvenClean, ReadReady, MarkStale, ListStaleIntent, ResolveStaleIntent
  <2>2. ASSUME NEW w \in Waiters, WaiterStep(w) PROVE entry'.created
    BY <1>1, <2>2 DEF WaiterStep, ObservePending, EnableNotified, Recheck, WakeUp, WaitTimeout,
                      WaitStep
  <2>3. CASE Invalidate \/ ReserveEviction \/ SweepExpired
    BY <1>0, <1>1, <2>3, CreatedStays DEF Invalidate, ReserveEviction, SweepExpired, KnownKey
  <2>4. CASE ElapseTtl \/ AgeIntent
    BY <1>0, <1>1, <2>4 DEF ElapseTtl, AgeIntent, Entry, KnownKey
  <2>5. CASE UNCHANGED vars
    BY <1>1, <2>5 DEF vars, KnownKey
  <2> QED BY <2>1, <2>2, <2>3, <2>4, <2>5 DEF Next, KnownKey
<1>2. CASE ~entry.created
  <2>0. entry = NewEntry /\ \A c \in Clients : held[c].role = "none"
    BY <1>2 DEF KnownKey
  <2>1. entry.state = "Absent" /\ ~HasIntent(entry) /\ ~entry.ttl
    BY <2>0 DEF NewEntry, HasIntent, NoIntent
  <2>2. ASSUME NEW c \in Clients, ClientStep(c) PROVE entry'.created
    BY <1>0, <2>0, <2>1, <2>2, CreatedStays
       DEF ClientStep, Acquire, AssumePopulation, Publish, Fail, Prepare, Commit, Abort,
           AbortProvenClean, ReadReady, MarkStale, ListStaleIntent, ResolveStaleIntent, Holds,
           Publishers
  <2>3. ASSUME NEW w \in Waiters, WaiterStep(w) PROVE KnownKey'
    BY <2>0, <2>3 DEF WaiterStep, ObservePending, EnableNotified, Recheck, WakeUp, WaitTimeout,
                      WaitStep, KnownKey
  <2>4. CASE Invalidate
    BY <1>2, <2>0, <2>4 DEF Invalidate, Invalidated, KnownKey
  <2>5. CASE ReserveEviction \/ SweepExpired \/ ElapseTtl \/ AgeIntent
    BY <2>1, <2>5 DEF ReserveEviction, SweepExpired, ElapseTtl, AgeIntent, Evictable, Demotable
  <2>6. CASE UNCHANGED vars
    BY <2>0, <2>6 DEF vars, KnownKey
  <2> QED BY <2>2, <2>3, <2>4, <2>5, <2>6 DEF Next, KnownKey
<1> QED BY <1>1, <1>2

-----------------------------------------------------------------------------
(* Whoever lets go of a claim or a token settles the entry in the same     *)
(* step, unless somebody else holds one of the same generation.            *)
LEMMA OwnersStep == TypeOK /\ KnownKey /\ Owners /\ [Next]_vars => Owners'
<1> SUFFICES ASSUME TypeOK, KnownKey, Owners, [Next]_vars PROVE Owners'
  OBVIOUS
<1>0. entry \in Entry /\ entry' \in Entry
  BY TypeStep DEF TypeOK
<1>1. ASSUME entry'.state \notin Pending PROVE Owners'
  BY <1>1 DEF Owners, OwnersAreLive, InterruptedIsLive, Pending
(* The entry keeps its place and no claim or token is let go of.           *)
<1>2. ASSUME entry'.state = entry.state, entry'.prev = entry.prev, entry'.owner = entry.owner,
             entry'.generation = entry.generation,
             \A d \in Clients : Holds(d, {"population", "intent"}) => held'[d] = held[d]
      PROVE  Owners'
  BY <1>2 DEF Owners, OwnersAreLive, InterruptedIsLive, LiveHolder, Holds
(* A token is let go of over an entry that is not Prepared.                *)
<1>3. ASSUME NEW c \in Clients, Holds(c, {"intent"}), entry' = entry, entry.state # "Prepared",
             \A d \in Clients \ {c} : held'[d] = held[d]
      PROVE  Owners'
  BY <1>3 DEF Owners, OwnersAreLive, InterruptedIsLive, LiveHolder, Holds
<1>4. ASSUME NEW c \in Clients, ClientStep(c) PROVE Owners'
  <2>1. CASE \E t \in Tiers : Acquire(c, t)
    <3>1. /\ entry'.state = "InFlight"
          /\ held'[c].role = "population" /\ held'[c].generation = entry'.generation
      BY <2>1, <1>0, ClaimedFields, TakeFields, SMT DEF Acquire
    <3> QED BY <3>1 DEF Owners, OwnersAreLive, InterruptedIsLive, LiveHolder, Holds
  <2>2. CASE \E t \in Tiers : AssumePopulation(c, t)
    BY <2>2, <1>2, TakeFields DEF AssumePopulation, Holds
  <2>3. CASE \/ \E t \in Tiers, ttl \in BOOLEAN : Publish(c, t, ttl)
             \/ \E ttl \in BOOLEAN : Commit(c, ttl)
             \/ MarkStale(c)
    BY <2>3, <1>0, <1>1, PublishedFields, CommittedFields, MarkedStaleFields, SMT
       DEF Publish, Commit, MarkStale, Pending
  <2>4. CASE \E err \in Errors : Fail(c, err)
    <3>1. entry.created
      BY <2>4 DEF Fail, Holds, Publishers, KnownKey
    <3> QED BY <2>4, <3>1, <1>0, <1>1, FailedFields DEF Fail, Pending
  <2>5. CASE \E t \in Tiers, k \in IntentKind : Prepare(c, t, k)
    <3>1. /\ entry'.state = "Prepared" /\ entry'.prev = entry.state
          /\ entry'.generation = entry.generation
          /\ held'[c].role = "intent" /\ held'[c].generation = entry'.generation
          /\ held[c].role = "none"
          /\ \A d \in Clients \ {c} : held'[d] = held[d]
      BY <2>5, <1>0, PreparedFields, TakeFields, SMT DEF Prepare, Holds
    <3> QED BY <3>1 DEF Owners, OwnersAreLive, InterruptedIsLive, LiveHolder, Holds
  <2>6. CASE \E err \in Errors : Abort(c, err)
    <3>1. CASE entry.state = "Prepared"
      BY <2>6, <3>1, <1>0, <1>1, AbortedFields DEF Abort, Pending
    <3>2. CASE entry.state # "Prepared"
      BY <2>6, <3>2, <1>0, <1>3, AbortedFields, DropFields DEF Abort
    <3> QED BY <3>1, <3>2
  <2>7. CASE \E err \in Errors : AbortProvenClean(c, err)
    <3>1. CASE entry.state = "Prepared"
      <4>1. /\ entry'.state = entry.prev /\ entry'.prev = entry.prev
            /\ entry'.owner = FALSE /\ entry'.generation = entry.generation
        <5>1. PICK err \in Errors : entry' = AbortedClean(entry, err)
          BY <2>7 DEF AbortProvenClean
        <5> QED BY <5>1, <3>1, <1>0, AbortedCleanFields
      <4>2. held[c].role = "intent" /\ \A d \in Clients \ {c} : held'[d] = held[d]
        BY <2>7, DropFields DEF AbortProvenClean, Holds
      <4> QED BY <3>1, <4>1, <4>2 DEF Owners, OwnersAreLive, InterruptedIsLive, LiveHolder, Holds
    <3>2. CASE entry.state # "Prepared"
      BY <2>7, <3>2, <1>0, <1>3, AbortedCleanFields, DropFields DEF AbortProvenClean
    <3> QED BY <3>1, <3>2
  <2>8. CASE ReadReady(c) \/ ListStaleIntent(c)
    BY <2>8, <1>2, TakeFields DEF ReadReady, ListStaleIntent, Holds
  <2>9. CASE ResolveStaleIntent(c)
    <3>1. entry' = entry \/ entry'.state = "Failed"
      BY <2>9, <1>0, SweptFields DEF ResolveStaleIntent
    <3>2. \A d \in Clients : Holds(d, {"population", "intent"}) => held'[d] = held[d]
      BY <2>9, DropFields DEF ResolveStaleIntent, Holds
    <3> QED BY <3>1, <3>2, <1>1, <1>2 DEF Pending
  <2> QED BY <1>4, <2>1, <2>2, <2>3, <2>4, <2>5, <2>6, <2>7, <2>8, <2>9 DEF ClientStep
<1>5. ASSUME NEW w \in Waiters, WaiterStep(w) PROVE Owners'
  BY <1>5, <1>2 DEF WaiterStep, ObservePending, EnableNotified, Recheck, WakeUp, WaitTimeout,
                    WaitStep
<1>6. CASE Invalidate
  BY <1>6, <1>0, <1>1, <1>2, InvalidatedFields DEF Invalidate, Pending
<1>7. CASE ReserveEviction \/ SweepExpired
  BY <1>7, <1>0, <1>1, EvictedFields, MarkedStaleFields DEF ReserveEviction, SweepExpired, Pending
<1>8. CASE ElapseTtl \/ AgeIntent
  BY <1>8, <1>0, <1>2 DEF ElapseTtl, AgeIntent, Entry
<1>9. CASE UNCHANGED vars
  BY <1>9, <1>2 DEF vars
<1> QED BY <1>4, <1>5, <1>6, <1>7, <1>8, <1>9 DEF Next

-----------------------------------------------------------------------------
(* The invariant holds of a key nobody has touched.                        *)
LEMMA InitInv == Init => Inv
<1> SUFFICES ASSUME Init PROVE Inv
  OBVIOUS
<1>1. NewEntry \in Entry /\ Nothing \in Holding
  BY SMT DEF NewEntry, Entry, State, ErrorCode, NoIntent, Intent, IntentKind, Nothing, Holding, Role,
         Rung
<1>2. TypeOK
  BY <1>1 DEF Init, TypeOK
<1>3. \A c \in Clients : held[c].role = "none"
  BY DEF Init, Nothing
<1>4. entry.state = "Absent"
  BY DEF Init, NewEntry
<1>5. KnownKey /\ NoLostWakeup
  BY <1>3 DEF Init, KnownKey, NoLostWakeup
<1>6. Generations
  BY <1>3 DEF Init, Generations, HoldingsAreBehind, FencedAreBehind, PopulationsDiffer, Holds,
              CanSettle, Publishers
<1>7. Owners
  BY <1>4 DEF Owners, OwnersAreLive, InterruptedIsLive
<1> QED BY <1>2, <1>5, <1>6, <1>7 DEF Inv

(* The inductive invariant holds in every state of every instance.         *)
THEOREM Invariance == Spec => []Inv
<1>1. Inv /\ [Next]_vars => Inv'
  BY TypeStep, KnownKeyStep, GenerationsStep, OwnersStep, WakeupStep DEF Inv
<1> QED BY InitInv, <1>1, PTL DEF Spec

(* Type correctness of the control plane.                                  *)
THEOREM TypeCorrect == Spec => []TypeOK
<1>1. Inv => TypeOK
  BY DEF Inv
<1> QED BY Invariance, <1>1, PTL

(* No caller ever waits for an owner that is gone: what PopulationGuard    *)
(* and IntentGuard promise, for any number of callers.                     *)
THEOREM OwnersLive == Spec => []OwnersAreLive
<1>1. Inv => OwnersAreLive
  BY DEF Inv, Owners
<1> QED BY Invariance, <1>1, PTL

(* Single flight: at most one of the populations acquire has granted can   *)
(* still publish.                                                          *)
THEOREM SingleFlight == Spec => []OneLivePopulation
<1>1. Inv => OneLivePopulation
  BY DEF Inv, Generations, PopulationsDiffer, OneLivePopulation
<1> QED BY Invariance, <1>1, PTL

(* No waiter of wait_for_population sleeps through the end of what it      *)
(* waits for.                                                              *)
THEOREM WakeupsAreNotLost == Spec => []NoLostWakeup
<1>1. Inv => NoLostWakeup
  BY DEF Inv
<1> QED BY Invariance, <1>1, PTL

(* A claim or token that predates an invalidation, an eviction, a newer    *)
(* population, a conservative abort or a recovery never makes the entry    *)
(* Ready: publish and commit refuse it.                                    *)
THEOREM StaleClaimsAreDead == Spec => NoResurrection
<1>1. Inv => \A c \in fenced, ttl \in BOOLEAN :
               /\ \A t \in Tiers : ~Publish(c, t, ttl)
               /\ ~Commit(c, ttl)
  <2> SUFFICES ASSUME Inv, NEW c \in fenced
               PROVE  held[c].generation # entry.generation
    BY DEF Publish, Commit, CommitAdmits
  <2>1. held[c].generation \in Nat /\ entry.generation \in Nat
    BY DEF Inv, TypeOK, Holding, Entry
  <2> QED BY <2>1, SMT DEF Inv, Generations, FencedAreBehind
<1> QED BY Invariance, <1>1, PTL DEF NoResurrection

-----------------------------------------------------------------------------
(* The faulty tier.                                                        *)

(* What a task may be doing.  Only a fault with a window is ever held.     *)
Result ==
  {"ok", "Timeout", "CapacityExhausted", "Corrupted", "Cancelled", "WriteIndeterminate",
   "TierUnavailable"}

(* A task between two calls, with the result of the last one.              *)
RestingState == [at : {"rest"}, result : Result, stored : BOOLEAN]

(* A task that has taken a fault with a window and not yet settled it.     *)
TakingState == [at : {"took"}, op : OpKind, fault : Fault]

(* A task in its call, with the class of the fault it met, if any.         *)
CallingState == [at : {"calls"}, op : OpKind, class : FaultClass \cup {"none"}]

(* The types of the faulty tier.                                           *)
FaultTyped ==
  /\ plan \in Seq(Fault) /\ ledger \in Seq(Fault)
  /\ issued \in Seq(Fault) /\ discarded \in Seq(Fault)
  /\ remainingOk \in Nat /\ windowArmed \in BOOLEAN /\ passed \in Nat /\ arms \in Nat
  /\ task \in [Tasks -> RestingState \cup TakingState \cup CallingState]
  /\ \A t \in Tasks : task[t].at = "took" => Windowed(task[t].fault)

-----------------------------------------------------------------------------
(* How often a fault is in a sequence.                                     *)
LEMMA OccurrencesIsNat ==
  ASSUME NEW f, NEW s \in Seq(Fault)
  PROVE  /\ IsFiniteSet({i \in DOMAIN s : s[i] = f})
         /\ Occurrences(f, s) \in Nat
<1>1. IsFiniteSet(1..Len(s))
  BY FS_Interval, SMT
<1>2. {i \in DOMAIN s : s[i] = f} \in SUBSET (1..Len(s))
  BY SMT
<1>3. IsFiniteSet({i \in DOMAIN s : s[i] = f})
  BY <1>1, <1>2, FS_Subset
<1> QED BY <1>3, FS_CardinalityType DEF Occurrences

(* The occurrences in two sequences add up in their concatenation.         *)
LEMMA OccurrencesInConcat ==
  ASSUME NEW f, NEW s \in Seq(Fault), NEW t \in Seq(Fault)
  PROVE  Occurrences(f, s \o t) = Occurrences(f, s) + Occurrences(f, t)
<1> DEFINE A == {i \in DOMAIN s : s[i] = f}
           B == {i \in DOMAIN t : t[i] = f}
           C == {i \in DOMAIN (s \o t) : (s \o t)[i] = f}
           D == {i \in C : i > Len(s)}
           shift == [i \in B |-> i + Len(s)]
<1>1. /\ s \o t \in Seq(Fault) /\ Len(s \o t) = Len(s) + Len(t)
      /\ \A i \in 1..Len(s) + Len(t) : (s \o t)[i] = IF i <= Len(s) THEN s[i] ELSE t[i - Len(s)]
  BY SMT
<1>2. DOMAIN s = 1..Len(s) /\ DOMAIN t = 1..Len(t) /\ DOMAIN (s \o t) = 1..Len(s) + Len(t)
      /\ Len(s) \in Nat /\ Len(t) \in Nat
  BY <1>1, SMT
<1>3. IsFiniteSet(A) /\ IsFiniteSet(B) /\ IsFiniteSet(C)
  BY <1>1, OccurrencesIsNat
<1>4. C = A \cup D /\ A \cap D = {}
  BY <1>1, <1>2, SMT
<1>5. shift \in Bijection(B, D)
  <2>1. shift \in [B -> D]
    BY <1>1, <1>2, SMT
  <2>2. \A i, j \in B : shift[i] = shift[j] => i = j
    BY <1>2, SMT
  <2>3. \A d \in D : d - Len(s) \in B /\ shift[d - Len(s)] = d
    BY <1>1, <1>2, SMT
  <2> HIDE DEF shift, D, B
  <2>4. \A d \in D : \E b \in B : shift[b] = d
    BY <2>3
  <2> QED BY <2>1, <2>2, <2>4 DEF Bijection, Injection, Surjection, IsInjective
<1> HIDE DEF A, B, C, D, shift
<1>6. IsFiniteSet(D) /\ Cardinality(D) = Cardinality(B)
  BY <1>3, <1>5, FS_Bijection DEF ExistsBijection
<1>7. Cardinality(C) = Cardinality(A) + Cardinality(D) - Cardinality({})
  BY <1>3, <1>4, <1>6, FS_Union, SMT
<1>8. Cardinality(A) \in Nat /\ Cardinality(B) \in Nat
  BY <1>3, FS_CardinalityType
<1>9. /\ Occurrences(f, s) = Cardinality(A) /\ Occurrences(f, t) = Cardinality(B)
      /\ Occurrences(f, s \o t) = Cardinality(C)
  BY DEF Occurrences, A, B, C
<1>10. Cardinality({}) = 0
  BY FS_EmptySet
<1> QED BY <1>6, <1>7, <1>8, <1>9, <1>10, SMT

(* The occurrences in a sequence of one.                                   *)
LEMMA OccurrencesInOne ==
  ASSUME NEW f, NEW e \in Fault
  PROVE  Occurrences(f, <<e>>) = IF e = f THEN 1 ELSE 0
<1>1. DOMAIN <<e>> = {1} /\ <<e>>[1] = e
  BY SMT
<1>2. {i \in DOMAIN <<e>> : <<e>>[i] = f} = IF e = f THEN {1} ELSE {}
  BY <1>1
<1> QED BY <1>2, FS_Singleton, FS_EmptySet DEF Occurrences

(* One more fault is one more occurrence of it.                            *)
LEMMA OccurrencesInAppend ==
  ASSUME NEW f, NEW s \in Seq(Fault), NEW e \in Fault
  PROVE  Occurrences(f, Append(s, e)) = Occurrences(f, s) + IF e = f THEN 1 ELSE 0
<1>1. <<e>> \in Seq(Fault) /\ Append(s, e) = s \o <<e>>
  BY SMT
<1>2. Occurrences(f, s \o <<e>>) = Occurrences(f, s) + Occurrences(f, <<e>>)
  BY <1>1, OccurrencesInConcat, Zenon
<1> QED BY <1>1, <1>2, OccurrencesInOne

(* A queue without one of its elements.                                    *)
LEMMA WithoutIs ==
  ASSUME NEW S, NEW s \in Seq(S), NEW i \in DOMAIN s
  PROVE  /\ Without(s, i) \in Seq(S)
         /\ Len(Without(s, i)) = Len(s) - 1
         /\ \A j \in 1..Len(s) - 1 : Without(s, i)[j] = IF j < i THEN s[j] ELSE s[j + 1]
<1> DEFINE front == SubSeq(s, 1, i - 1)
           back == SubSeq(s, i + 1, Len(s))
<1>1. i \in 1..Len(s) /\ Len(s) \in Nat /\ \A j \in 1..Len(s) : s[j] \in S
  BY SMT
<1>2. front \in Seq(S) /\ Len(front) = i - 1 /\ \A j \in 1..i - 1 : front[j] = s[j]
  <2>1. Len(front) = i - 1
    BY <1>1, SMT
  <2>2. \A j \in 1..i - 1 : front[j] = s[j]
    BY <1>1, SMT
  <2>3. front \in Seq(S)
    BY <1>1, SMT
  <2> QED BY <2>1, <2>2, <2>3
<1>3. back \in Seq(S) /\ Len(back) = Len(s) - i /\ \A j \in 1..Len(s) - i : back[j] = s[i + j]
  <2>1. Len(back) = Len(s) - i
    BY <1>1, SMT
  <2>2. \A j \in 1..Len(s) - i : back[j] = s[i + j]
    BY <1>1, SMT
  <2>3. back \in Seq(S)
    BY <1>1, SMT
  <2> QED BY <2>1, <2>2, <2>3
<1> HIDE DEF front, back
<1>4. /\ front \o back \in Seq(S) /\ Len(front \o back) = Len(front) + Len(back)
      /\ \A j \in 1..Len(front) + Len(back) :
           (front \o back)[j] = IF j <= Len(front) THEN front[j] ELSE back[j - Len(front)]
  <2>1. front \in Seq(S) /\ back \in Seq(S)
    BY <1>2, <1>3
  <2>2. front \o back \in Seq(S)
    BY <2>1, SMT
  <2>3. Len(front \o back) = Len(front) + Len(back)
    BY <2>1, SMT
  <2>4. \A j \in 1..Len(front) + Len(back) :
          (front \o back)[j] = IF j <= Len(front) THEN front[j] ELSE back[j - Len(front)]
    BY <2>1, SMT
  <2> QED BY <2>2, <2>3, <2>4
<1>5. Len(front) + Len(back) = Len(s) - 1
  BY <1>1, <1>2, <1>3, SMT
<1>6. ASSUME NEW j \in 1..Len(s) - 1
      PROVE  (front \o back)[j] = IF j < i THEN s[j] ELSE s[j + 1]
  <2>1. CASE j < i
    <3>1. j \in 1..i - 1 /\ j <= Len(front)
      BY <1>1, <1>2, <2>1, SMT
    <3> QED BY <1>2, <1>4, <1>5, <2>1, <3>1
  <2>2. CASE ~(j < i)
    <3>1. /\ ~(j <= Len(front)) /\ j - Len(front) \in 1..Len(s) - i
          /\ i + (j - Len(front)) = j + 1
      BY <1>1, <1>2, <2>2, SMT
    <3> QED BY <1>3, <1>4, <1>5, <2>2, <3>1
  <2> QED BY <2>1, <2>2
<1> HIDE DEF front, back
<1> QED BY <1>4, <1>5, <1>6 DEF Without, front, back

(* A fault taken from the middle of the plan.                              *)
LEMMA OccurrencesInWithout ==
  ASSUME NEW f, NEW s \in Seq(Fault), NEW i \in DOMAIN s
  PROVE  Occurrences(f, s) = Occurrences(f, Without(s, i)) + IF s[i] = f THEN 1 ELSE 0
<1> DEFINE w == Without(s, i)
           A == {j \in DOMAIN w : w[j] = f}
           B == {j \in DOMAIN s : s[j] = f}
           C == B \ {i}
           skip == [j \in A |-> IF j < i THEN j ELSE j + 1]
<1>1. /\ w \in Seq(Fault) /\ DOMAIN w = 1..Len(s) - 1 /\ DOMAIN s = 1..Len(s)
      /\ Len(s) \in Nat /\ i \in 1..Len(s)
      /\ \A j \in 1..Len(s) - 1 : w[j] = IF j < i THEN s[j] ELSE s[j + 1]
  BY WithoutIs, SMT
<1> HIDE DEF w
<1>2. IsFiniteSet(A) /\ IsFiniteSet(B)
  BY <1>1, OccurrencesIsNat
<1>3. skip \in Bijection(A, C)
  <2>1. skip \in [A -> C]
    <3>1. ASSUME NEW j \in A PROVE (IF j < i THEN j ELSE j + 1) \in C
      <4>1. CASE j < i
        BY <1>1, <4>1, SMT
      <4>2. CASE ~(j < i)
        BY <1>1, <4>2, SMT
      <4> QED BY <4>1, <4>2
    <3> HIDE DEF A, C
    <3> QED BY <3>1
  <2>2. \A j, k \in A : skip[j] = skip[k] => j = k
    BY <1>1, SMT
  <2>3. ASSUME NEW c \in C PROVE \E j \in A : skip[j] = c
    <3>1. CASE c < i
      <4>1. c \in A /\ skip[c] = c
        BY <1>1, <3>1, SMT
      <4> QED BY <4>1
    <3>2. CASE ~(c < i)
      <4>1. c - 1 \in A /\ ~(c - 1 < i) /\ (c - 1) + 1 = c
        BY <1>1, <3>2, SMT
      <4>2. skip[c - 1] = c
        BY <4>1
      <4> QED BY <4>1, <4>2
    <3> QED BY <3>1, <3>2
  <2> HIDE DEF skip, A, C
  <2> QED BY <2>1, <2>2, <2>3 DEF Bijection, Injection, Surjection, IsInjective
<1>4. i \in B <=> s[i] = f
  OBVIOUS
<1>5. Occurrences(f, s) = Cardinality(B) /\ Occurrences(f, w) = Cardinality(A)
  BY DEF Occurrences
<1> HIDE DEF skip, A, B
<1>6. Cardinality(A) = Cardinality(C)
  BY <1>2, <1>3, FS_Bijection DEF ExistsBijection
<1>7. Cardinality(C) = IF i \in B THEN Cardinality(B) - 1 ELSE Cardinality(B)
  BY <1>2, FS_RemoveElement
<1>8. Cardinality(B) \in Nat
  BY <1>2, FS_CardinalityType
<1> HIDE DEF C
<1> QED BY <1>4, <1>5, <1>6, <1>7, <1>8, SMT DEF w

-----------------------------------------------------------------------------
(* take_for finds the first fault of the operation when the plan has one.  *)
LEMMA FirstIsThere ==
  ASSUME NEW mine \in SUBSET Nat, mine # {}
  PROVE  (CHOOSE j \in mine : \A k \in mine : j <= k) \in mine
<1> DEFINE R == {ss \in Nat \X Nat : ss[1] < ss[2]}
<1>1. IsWellFoundedOn(R, Nat)
  BY NatLessThanWellFounded DEF OpToRel
<1>2. \A a, b \in Nat : a < b => <<a, b>> \in R
  OBVIOUS
<1> HIDE DEF R
<1>3. PICK x \in mine : \A y \in mine : ~(<<y, x>> \in R)
  BY <1>1, WFMin
<1>4. \A y \in mine : x \in Nat /\ y \in Nat /\ ~(y < x)
  BY <1>2, <1>3
<1>5. \A y \in mine : x <= y
  BY <1>4, SMT
<1> QED BY <1>5

(* The states of a task are typed.                                         *)
LEMMA StatesAre ==
  ASSUME NEW op \in OpKind
  PROVE  /\ Resting \in RestingState
         /\ \A f \in Fault : /\ Taking(op, f) \in TakingState
                             /\ Taking(op, f).at = "took" /\ Taking(op, f).fault = f
         /\ \A c \in FaultClass \cup {"none"} : /\ Calling(op, c) \in CallingState
                                                /\ Calling(op, c).at = "calls"
<1>1. Resting \in RestingState
  BY DEF Resting, RestingState, Result
<1>2. \A f \in Fault : /\ Taking(op, f) \in TakingState
                      /\ Taking(op, f).at = "took" /\ Taking(op, f).fault = f
  BY DEF Taking, TakingState
<1>3. \A c \in FaultClass \cup {"none"} : /\ Calling(op, c) \in CallingState
                                         /\ Calling(op, c).at = "calls"
  BY DEF Calling, CallingState
<1> QED BY <1>1, <1>2, <1>3

(* What a task has taken is a fault.                                       *)
LEMMA TaskIs ==
  ASSUME FaultTyped, NEW t \in Tasks
  PROVE  /\ task[t].at = "took" => task[t].fault \in Fault
         /\ task[t].at = "calls" => task[t].op \in OpKind /\ task[t].class \in FaultClass \cup {"none"}
BY DEF FaultTyped, RestingState, TakingState, CallingState

(* What taking a fault changes.                                            *)
LEMMA TakingIs ==
  ASSUME FaultTyped, NEW t \in Tasks, NEW op \in OpKind, TakeFor(t, op)
  PROVE  /\ task[t].at = "rest"
         /\ UNCHANGED <<remainingOk, windowArmed, corruptor, arming, issued, discarded, arms, passed>>
         /\ \/ Does(t, Calling(op, "none")) /\ UNCHANGED <<plan, ledger>>
            \/ \E i \in DOMAIN plan :
                 /\ plan' = Without(plan, i)
                 /\ \/ Windowed(plan[i]) /\ Does(t, Taking(op, plan[i])) /\ UNCHANGED ledger
                    \/ /\ ~Windowed(plan[i])
                       /\ Does(t, Calling(op, plan[i].class)) /\ ledger' = Append(ledger, plan[i])
<1> DEFINE mine == {i \in DOMAIN plan : plan[i].op = op}
           i == CHOOSE j \in mine : \A k \in mine : j <= k
<1>1. /\ task[t].at = "rest"
      /\ UNCHANGED <<remainingOk, windowArmed, corruptor, arming, issued, discarded, arms, passed>>
  BY DEF TakeFor, Kept
<1>2. CASE mine = {}
  BY <1>1, <1>2 DEF TakeFor
<1>3. CASE mine # {}
  <2>1. mine \in SUBSET Nat
    BY SMT DEF FaultTyped
  <2>2. i \in mine
    BY <1>3, <2>1, FirstIsThere
  <2>3. /\ plan' = Without(plan, i)
        /\ IF Windowed(plan[i]) THEN Does(t, Taking(op, plan[i])) /\ UNCHANGED ledger
           ELSE Does(t, Calling(op, plan[i].class)) /\ ledger' = Append(ledger, plan[i])
    BY <1>3 DEF TakeFor
  <2>4. i \in DOMAIN plan
    BY <2>2
  <2> HIDE DEF i
  <2> QED BY <1>1, <2>3, <2>4
<1> QED BY <1>2, <1>3

-----------------------------------------------------------------------------
(* A task that goes to a typed state leaves the tasks typed.               *)
LEMMA DoingKeeps ==
  ASSUME FaultTyped, NEW t \in Tasks,
         NEW s \in RestingState \cup TakingState \cup CallingState, Does(t, s),
         s.at = "took" => Windowed(s.fault)
  PROVE  /\ task' \in [Tasks -> RestingState \cup TakingState \cup CallingState]
         /\ \A u \in Tasks : task'[u].at = "took" => Windowed(task'[u].fault)
         /\ task'[t] = s /\ \A u \in Tasks \ {t} : task'[u] = task[u]
<1>1. /\ task' \in [Tasks -> RestingState \cup TakingState \cup CallingState]
      /\ task'[t] = s /\ \A u \in Tasks \ {t} : task'[u] = task[u]
  BY DEF FaultTyped, Does
<1>2. ASSUME NEW u \in Tasks, task'[u].at = "took" PROVE Windowed(task'[u].fault)
  BY <1>1, <1>2 DEF FaultTyped
<1> QED BY <1>1, <1>2

(* The types hold at first.                                                *)
LEMMA InitialFaultTyped == FaultInit => FaultTyped
<1> SUFFICES ASSUME FaultInit PROVE FaultTyped
  OBVIOUS
<1>1. \A t \in Tasks : task[t] = Resting /\ Resting.at = "rest"
  BY DEF FaultInit, Resting
<1>2. task \in [Tasks -> RestingState \cup TakingState \cup CallingState]
  BY DEF FaultInit, Resting, RestingState, Result
<1>3. plan \in Seq(Fault) /\ issued \in Seq(Fault)
  BY PlansAreOfFaults DEF FaultInit
<1>4. ledger \in Seq(Fault) /\ discarded \in Seq(Fault)
  BY SMT DEF FaultInit
<1>5. \A t \in Tasks : task[t].at = "took" => Windowed(task[t].fault)
  BY <1>1
<1> QED BY <1>2, <1>3, <1>4, <1>5 DEF FaultInit, FaultTyped

(* take_for keeps the types.                                               *)
LEMMA TakeKeepsTyped ==
  ASSUME FaultTyped, NEW t \in Tasks, NEW op \in OpKind, TakeFor(t, op)
  PROVE  FaultTyped'
<1> DEFINE AnyState == RestingState \cup TakingState \cup CallingState
<1>1. UNCHANGED <<remainingOk, windowArmed, issued, discarded, arms, passed>>
  BY TakingIs
<1>2. CASE Does(t, Calling(op, "none")) /\ UNCHANGED <<plan, ledger>>
  <2>1. /\ task' \in [Tasks -> AnyState]
        /\ \A u \in Tasks : task'[u].at = "took" => Windowed(task'[u].fault)
    BY <1>2, DoingKeeps, StatesAre
  <2> QED BY <1>1, <1>2, <2>1 DEF FaultTyped
<1>3. ASSUME NEW i \in DOMAIN plan, plan' = Without(plan, i),
             \/ Windowed(plan[i]) /\ Does(t, Taking(op, plan[i])) /\ UNCHANGED ledger
             \/ Does(t, Calling(op, plan[i].class)) /\ ledger' = Append(ledger, plan[i])
      PROVE  FaultTyped'
  <2>1. plan[i] \in Fault /\ plan[i].class \in FaultClass
    <3>1. plan[i] \in Fault
      BY SMT DEF FaultTyped
    <3> QED BY <3>1 DEF Fault
  <2>2. plan' \in Seq(Fault)
    <3>1. \A s \in Seq(Fault) : \A j \in DOMAIN s : Without(s, j) \in Seq(Fault)
      BY WithoutIs
    <3> QED BY <1>3, <3>1 DEF FaultTyped
  <2>3. CASE Windowed(plan[i]) /\ Does(t, Taking(op, plan[i])) /\ UNCHANGED ledger
    <3>1. /\ task' \in [Tasks -> AnyState]
          /\ \A u \in Tasks : task'[u].at = "took" => Windowed(task'[u].fault)
      BY <2>1, <2>3, DoingKeeps, StatesAre
    <3> QED BY <1>1, <2>2, <2>3, <3>1 DEF FaultTyped
  <2>4. CASE Does(t, Calling(op, plan[i].class)) /\ ledger' = Append(ledger, plan[i])
    <3>1. /\ task' \in [Tasks -> AnyState]
          /\ \A u \in Tasks : task'[u].at = "took" => Windowed(task'[u].fault)
      BY <2>1, <2>4, DoingKeeps, StatesAre
    <3>2. ledger' \in Seq(Fault)
      BY <2>1, <2>4, SMT DEF FaultTyped
    <3> QED BY <1>1, <2>2, <3>1, <3>2 DEF FaultTyped
  <2> QED BY <1>3, <2>3, <2>4
<1> QED BY <1>2, <1>3, TakingIs

(* The window keeps the types.                                             *)
LEMMA WindowKeepsTyped ==
  ASSUME FaultTyped, NEW t \in Tasks, Window(t)
  PROVE  FaultTyped'
<1> DEFINE AnyState == RestingState \cup TakingState \cup CallingState
           fault == task[t].fault
<1>1. UNCHANGED <<issued, discarded, arms>>
  BY DEF Window, Kept
<1>2. /\ fault \in Fault /\ Windowed(fault)
  BY TaskIs DEF Window, FaultTyped
<1>3. fault.op \in OpKind /\ fault.class \in FaultClass /\ fault.amount \in Nat
  BY <1>2 DEF Fault
<1>4. fault.amount - 1 \in Nat
  BY <1>2, <1>3, SMT DEF Windowed
<1>5. CASE ~windowArmed \/ remainingOk > 0
  <2>1. /\ windowArmed' = TRUE
        /\ remainingOk' = IF windowArmed THEN remainingOk - 1 ELSE fault.amount - 1
        /\ plan' = <<fault>> \o plan
        /\ passed' = passed + 1
        /\ Does(t, Calling(fault.op, "none")) /\ UNCHANGED ledger
    BY <1>5 DEF Window
  <2>2. /\ task' \in [Tasks -> AnyState]
        /\ \A u \in Tasks : task'[u].at = "took" => Windowed(task'[u].fault)
    BY <1>3, <2>1, DoingKeeps, StatesAre
  <2>3. remainingOk' \in Nat
    BY <1>4, <1>5, <2>1, SMT DEF FaultTyped
  <2>4. plan' \in Seq(Fault)
    BY <1>2, <2>1, SMT DEF FaultTyped
  <2> QED BY <1>1, <2>1, <2>2, <2>3, <2>4, SMT DEF FaultTyped
<1>6. CASE ~(~windowArmed \/ remainingOk > 0)
  <2>1. /\ ledger' = Append(ledger, fault)
        /\ Does(t, Calling(fault.op, fault.class))
        /\ UNCHANGED <<plan, remainingOk, windowArmed, passed>>
    BY <1>6 DEF Window
  <2>2. /\ task' \in [Tasks -> AnyState]
        /\ \A u \in Tasks : task'[u].at = "took" => Windowed(task'[u].fault)
    BY <1>3, <2>1, DoingKeeps, StatesAre
  <2>3. ledger' \in Seq(Fault)
    BY <1>2, <2>1, SMT DEF FaultTyped
  <2> QED BY <1>1, <2>1, <2>2, <2>3 DEF FaultTyped
<1> QED BY <1>5, <1>6

(* What a call ends in.                                                    *)
LEMMA EndingIs ==
  ASSUME FaultTyped, NEW t \in Tasks, Ends(t)
  PROVE  \E s \in RestingState :
           /\ Does(t, s)
           /\ s.stored => s.result \in {"ok", "WriteIndeterminate"}
<1> DEFINE op == task[t].op
           class == task[t].class
           reaches == Reaches(op, class)
           result == IF reaches /\ class # "PartialWrite" THEN "ok" ELSE ErrorFor(class)
           stored == reaches /\ op = "set"
           s == [at |-> "rest", result |-> result, stored |-> stored]
<1>1. Does(t, s)
  BY DEF Ends
<1>2. result \in Result
  BY DEF Result, ErrorFor
<1>3. stored \in BOOLEAN
  BY DEF Reaches
<1>4. stored => result \in {"ok", "WriteIndeterminate"}
  BY DEF Reaches, ErrorFor
<1> HIDE DEF stored, result
<1>5. s \in RestingState /\ s.stored = stored /\ s.result = result
  BY <1>2, <1>3 DEF RestingState
<1> HIDE DEF s
<1> QED BY <1>1, <1>4, <1>5

(* What the corruptor records is a fault.                                  *)
LEMMA DamageIsAFault == Damage \in Fault
BY DEF Damage, Armed, Fault, OpKind, FaultClass

(* The end of a call keeps the types.                                      *)
LEMMA EndsKeepsTyped ==
  ASSUME FaultTyped, NEW t \in Tasks, Ends(t)
  PROVE  FaultTyped'
<1>1. UNCHANGED <<plan, remainingOk, windowArmed, passed, issued, discarded, arms>>
  BY DEF Ends, Kept
<1>2. PICK s \in RestingState : Does(t, s)
  BY EndingIs
<1>3. s.at # "took"
  BY DEF RestingState
<1>4. /\ task' \in [Tasks -> RestingState \cup TakingState \cup CallingState]
      /\ \A u \in Tasks : task'[u].at = "took" => Windowed(task'[u].fault)
  BY <1>2, <1>3, DoingKeeps
<1>5. ledger' = Append(ledger, Damage) \/ ledger' = ledger
  BY DEF Ends
<1>6. ledger' \in Seq(Fault)
  <2>1. ledger \in Seq(Fault)
    BY DEF FaultTyped
  <2>2. Append(ledger, Damage) \in Seq(Fault)
    BY <2>1, DamageIsAFault, SMT
  <2> QED BY <1>5, <2>1, <2>2
<1> QED BY <1>1, <1>4, <1>6 DEF FaultTyped

(* A cancelled call keeps the types.                                       *)
LEMMA CancelKeepsTyped ==
  ASSUME FaultTyped, NEW t \in Tasks, CancelHung(t)
  PROVE  FaultTyped'
<1>1. UNCHANGED <<plan, ledger, remainingOk, windowArmed, passed, issued, discarded, arms>>
  BY DEF CancelHung, Kept
<1>2. Resting \in RestingState /\ Resting.at = "rest" /\ Does(t, Resting)
  BY DEF CancelHung, Resting, RestingState, Result
<1>3. /\ task' \in [Tasks -> RestingState \cup TakingState \cup CallingState]
      /\ \A u \in Tasks : task'[u].at = "took" => Windowed(task'[u].fault)
  BY <1>2, DoingKeeps
<1> QED BY <1>1, <1>3 DEF FaultTyped

(* Every step of the faulty tier keeps the types.                          *)
LEMMA FaultTypedStep ==
  ASSUME FaultTyped, [FaultNext]_faultVars
  PROVE  FaultTyped'
<1>1. CASE UNCHANGED faultVars
  BY <1>1 DEF faultVars, FaultTyped
<1>2. ASSUME NEW new \in Plans, Arm(new)
      PROVE  FaultTyped'
  <2>1. new \in Seq(Fault)
    BY PlansAreOfFaults
  <2>2. plan' = new /\ issued' = issued \o new /\ discarded' = discarded \o plan
    BY <1>2 DEF Arm
  <2>3. plan' \in Seq(Fault) /\ issued' \in Seq(Fault) /\ discarded' \in Seq(Fault)
    BY <2>1, <2>2, SMT DEF FaultTyped
  <2> QED BY <1>2, <2>3, SMT DEF Arm, FaultTyped
<1>3. CASE ArmResets
  <2>1. UNCHANGED <<plan, ledger, task, issued, discarded, passed, arms>>
    BY <1>3 DEF ArmResets
  <2>2. \/ remainingOk' = 0 /\ windowArmed' = windowArmed
        \/ windowArmed' = FALSE /\ remainingOk' = remainingOk
    BY <1>3 DEF ArmResets
  <2>3. remainingOk' \in Nat
    BY <2>2, SMT DEF FaultTyped
  <2>4. windowArmed' \in BOOLEAN
    BY <2>2, Zenon DEF FaultTyped
  <2> QED BY <2>1, <2>3, <2>4 DEF FaultTyped
<1>4. CASE CorruptNextWrite
  BY <1>4 DEF CorruptNextWrite, Kept, FaultTyped
<1> QED BY <1>1, <1>2, <1>3, <1>4, TakeKeepsTyped, WindowKeepsTyped, EndsKeepsTyped, CancelKeepsTyped
        DEF FaultNext

-----------------------------------------------------------------------------
(* A set that ends in an error other than WriteIndeterminate stored nothing.*)
LEMMA CleanStep ==
  ASSUME FaultTyped, CleanErrorsAreClean, [FaultNext]_faultVars
  PROVE  CleanErrorsAreClean'
<1>1. ASSUME NEW t \in Tasks, NEW s, Does(t, s),
             s.at = "rest" /\ s.stored => s.result \in {"ok", "WriteIndeterminate"}
      PROVE  CleanErrorsAreClean'
  <2>1. task'[t] = s /\ \A u \in Tasks \ {t} : task'[u] = task[u]
    BY <1>1 DEF Does, FaultTyped
  <2> QED BY <1>1, <2>1 DEF CleanErrorsAreClean
<1>2. CASE UNCHANGED task
  BY <1>2 DEF CleanErrorsAreClean
<1>3. \A op, c : Calling(op, c).at = "calls"
  BY DEF Calling
<1>4. \A op, f : Taking(op, f).at = "took"
  BY DEF Taking
<1>5. ASSUME NEW t \in Tasks, NEW op \in OpKind, TakeFor(t, op)
      PROVE  CleanErrorsAreClean'
  <2>1. \E s : Does(t, s) /\ s.at # "rest"
    BY <1>3, <1>4, <1>5, TakingIs
  <2> QED BY <1>1, <2>1
<1>6. ASSUME NEW t \in Tasks, Window(t)
      PROVE  CleanErrorsAreClean'
  <2>1. \E s : Does(t, s) /\ s.at # "rest"
    BY <1>3, <1>6 DEF Window
  <2> QED BY <1>1, <2>1
<1>7. ASSUME NEW t \in Tasks, Ends(t)
      PROVE  CleanErrorsAreClean'
  BY <1>1, <1>7, EndingIs
<1>8. ASSUME NEW t \in Tasks, CancelHung(t)
      PROVE  CleanErrorsAreClean'
  <2>1. Does(t, Resting) /\ ~Resting.stored
    BY <1>8 DEF CancelHung, Resting
  <2> QED BY <1>1, <2>1
<1>9. (UNCHANGED faultVars \/ ArmResets \/ CorruptNextWrite \/ \E new \in Plans : Arm(new)) => UNCHANGED task
  BY DEF faultVars, ArmResets, CorruptNextWrite, Arm
<1> QED BY <1>2, <1>5, <1>6, <1>7, <1>8, <1>9 DEF FaultNext

(* A set of the faulty tier that ends in an error other than               *)
(* WriteIndeterminate stored nothing, for every plan, any number of tasks  *)
(* and whatever is armed meanwhile.                                        *)
THEOREM CleanErrorsStayClean == FaultSpec => []CleanErrorsAreClean
<1>1. FaultInit => CleanErrorsAreClean
  BY SMT DEF FaultInit, CleanErrorsAreClean, Resting
<1> QED BY <1>1, InitialFaultTyped, FaultTypedStep, CleanStep, PTL DEF FaultSpec

-----------------------------------------------------------------------------
(* The faults of a sequence.                                               *)
Faults(s) == {s[i] : i \in DOMAIN s}

(* The faults of a plan that have a window let equally many calls pass.    *)
OneWindow(p) ==
  \A f, g \in Faults(p) : Windowed(f) /\ Windowed(g) => f.amount = g.amount

(* Until a plan is armed at runtime the faults about are those of the      *)
(* first plan, and what the open window lets pass and has let pass is      *)
(* what the fault that opened it asks for.                                 *)
WindowOK ==
  arms = 0 =>
    /\ arming = "done"
    /\ issued \in Plans
    /\ plan \in Seq(Faults(issued))
    /\ \A t \in Tasks : task[t].at = "took" => task[t].fault \in Faults(issued)
    /\ windowArmed => \E f \in Faults(issued) : Windowed(f) /\ passed + remainingOk >= f.amount

(* No window is open at first.                                             *)
LEMMA InitialWindowOK == FaultInit => WindowOK /\ WindowsAreHonoured
<1> SUFFICES ASSUME FaultInit PROVE WindowOK /\ WindowsAreHonoured
  OBVIOUS
<1>1. plan \in Seq(Fault) /\ issued = plan /\ plan \in Plans
  BY PlansAreOfFaults DEF FaultInit
<1>2. plan \in Seq(Faults(issued))
  BY <1>1, SMT DEF Faults
<1>3. \A t \in Tasks : task[t].at # "took"
  BY DEF FaultInit, Resting
<1> QED BY <1>1, <1>2, <1>3, SMT DEF FaultInit, WindowOK, WindowsAreHonoured

(* A step that leaves what the window is about alone.                      *)
LEMMA WindowUndisturbed ==
  ASSUME WindowOK, UNCHANGED <<arms, arming, issued, remainingOk, windowArmed, passed>>,
         arms = 0 => plan' \in Seq(Faults(issued)),
         arms = 0 => \A t \in Tasks : task'[t].at = "took" => task'[t].fault \in Faults(issued)
  PROVE  WindowOK'
BY DEF WindowOK, Faults, Windowed

(* A fault that fires after its window keeps the windows honoured.         *)
LEMMA HonouredWhenAppended ==
  ASSUME FaultTyped, WindowsAreHonoured, arms' = arms, passed' = passed, NEW f \in Fault,
         ledger' = Append(ledger, f), arms = 0 => (Windowed(f) => passed >= f.amount)
  PROVE  WindowsAreHonoured'
<1>1. ledger \in Seq(Fault)
  BY DEF FaultTyped
<1>2. /\ DOMAIN ledger' = 1..Len(ledger) + 1
      /\ \A i \in 1..Len(ledger) : ledger'[i] = ledger[i] /\ i \in DOMAIN ledger
      /\ ledger'[Len(ledger) + 1] = f /\ Len(ledger) \in Nat
  BY <1>1, SMT
<1>3. \A i \in DOMAIN ledger' : i \in 1..Len(ledger) \/ i = Len(ledger) + 1
  BY <1>2, SMT
<1> QED BY <1>2, <1>3 DEF WindowsAreHonoured, Windowed

(* take_for opens no window and lets no call pass.                         *)
LEMMA TakeKeepsWindow ==
  ASSUME FaultTyped, WindowOK, WindowsAreHonoured, NEW t \in Tasks, NEW op \in OpKind, TakeFor(t, op)
  PROVE  WindowOK' /\ WindowsAreHonoured'
<1>1. UNCHANGED <<arms, arming, issued, remainingOk, windowArmed, passed>>
  BY TakingIs
<1>2. ASSUME NEW s, Does(t, s), arms = 0 => plan' \in Seq(Faults(issued)),
             arms = 0 /\ s.at = "took" => s.fault \in Faults(issued)
      PROVE  WindowOK'
  <2>1. task'[t] = s /\ \A u \in Tasks \ {t} : task'[u] = task[u]
    BY <1>2 DEF Does, FaultTyped
  <2>2. arms = 0 => \A u \in Tasks : task'[u].at = "took" => task'[u].fault \in Faults(issued)
    BY <1>2, <2>1 DEF WindowOK
  <2> QED BY <1>1, <1>2, <2>2, WindowUndisturbed
<1>3. \A c : Calling(op, c).at = "calls"
  BY DEF Calling
<1>4. \A f : Taking(op, f).fault = f
  BY DEF Taking
<1>5. CASE Does(t, Calling(op, "none")) /\ UNCHANGED <<plan, ledger>>
  <2>1. WindowOK'
    BY <1>2, <1>3, <1>5 DEF WindowOK
  <2> QED BY <1>1, <1>5, <2>1 DEF WindowsAreHonoured
<1>6. ASSUME NEW i \in DOMAIN plan, plan' = Without(plan, i),
             \/ Windowed(plan[i]) /\ Does(t, Taking(op, plan[i])) /\ UNCHANGED ledger
             \/ /\ ~Windowed(plan[i])
                /\ Does(t, Calling(op, plan[i].class)) /\ ledger' = Append(ledger, plan[i])
      PROVE  WindowOK' /\ WindowsAreHonoured'
  <2>1. plan[i] \in Fault
    BY SMT DEF FaultTyped
  <2>2. arms = 0 => plan' \in Seq(Faults(issued)) /\ plan[i] \in Faults(issued)
    BY <1>6, WithoutIs, SMT DEF WindowOK
  <2>3. CASE Windowed(plan[i]) /\ Does(t, Taking(op, plan[i])) /\ UNCHANGED ledger
    <3>1. WindowOK'
      BY <1>2, <1>4, <2>2, <2>3
    <3> QED BY <1>1, <2>3, <3>1 DEF WindowsAreHonoured
  <2>4. CASE /\ ~Windowed(plan[i])
             /\ Does(t, Calling(op, plan[i].class)) /\ ledger' = Append(ledger, plan[i])
    <3>1. WindowOK'
      BY <1>2, <1>3, <2>2, <2>4
    <3>2. WindowsAreHonoured'
      BY <1>1, <2>1, <2>4, HonouredWhenAppended
    <3> QED BY <3>1, <3>2
  <2> QED BY <1>6, <2>3, <2>4
<1> QED BY <1>5, <1>6, TakingIs

(* The window fires its fault only when it has let enough calls pass.      *)
LEMMA WindowKeepsWindow ==
  ASSUME \A p \in Plans : OneWindow(p),
         FaultTyped, WindowOK, WindowsAreHonoured, NEW t \in Tasks, Window(t)
  PROVE  WindowOK' /\ WindowsAreHonoured'
<1> DEFINE fault == task[t].fault
<1>1. UNCHANGED <<issued, arming, arms>>
  BY DEF Window, Kept
<1>2. /\ fault \in Fault /\ Windowed(fault) /\ task[t].at = "took"
  BY TaskIs DEF Window, FaultTyped
<1>3. fault.amount \in Nat
  BY <1>2 DEF Fault
<1>4. \A c : /\ Calling(fault.op, c).at = "calls"
             /\ Does(t, Calling(fault.op, c)) =>
                  \A u \in Tasks : task'[u].at = "took" => task[u].at = "took" /\ task'[u].fault = task[u].fault
  BY SMT DEF Calling, Does, FaultTyped
<1>5. CASE ~windowArmed \/ remainingOk > 0
  <2>1. /\ windowArmed' = TRUE
        /\ remainingOk' = IF windowArmed THEN remainingOk - 1 ELSE fault.amount - 1
        /\ plan' = <<fault>> \o plan
        /\ passed' = passed + 1
        /\ Does(t, Calling(fault.op, "none")) /\ UNCHANGED ledger
    BY <1>5 DEF Window
  <2>2. WindowsAreHonoured'
    <3> SUFFICES ASSUME arms = 0, NEW i \in DOMAIN ledger, Windowed(ledger[i])
                 PROVE  passed' >= ledger[i].amount
      BY <1>1, <2>1 DEF WindowsAreHonoured, Windowed
    <3>1. passed >= ledger[i].amount
      BY DEF WindowsAreHonoured
    <3>2. ledger[i] \in Fault
      BY SMT DEF FaultTyped
    <3>3. ledger[i].amount \in Nat
      BY <3>2 DEF Fault
    <3> QED BY <2>1, <3>1, <3>3, SMT DEF FaultTyped
  <2>3. WindowOK'
    <3> SUFFICES ASSUME arms = 0
                 PROVE  /\ plan' \in Seq(Faults(issued))
                        /\ \A u \in Tasks : task'[u].at = "took" => task'[u].fault \in Faults(issued)
                        /\ \E f \in Faults(issued) : Windowed(f) /\ passed' + remainingOk' >= f.amount
      BY <1>1, <2>1 DEF WindowOK, Windowed, Faults
    <3>1. fault \in Faults(issued) /\ plan \in Seq(Faults(issued))
      BY <1>2 DEF WindowOK
    <3>2. plan' \in Seq(Faults(issued))
      BY <2>1, <3>1, SMT
    <3>3. \A u \in Tasks : task'[u].at = "took" => task'[u].fault \in Faults(issued)
      BY <1>4, <2>1 DEF WindowOK
    <3>4. CASE ~windowArmed
      <4>1. passed' + remainingOk' >= fault.amount
        BY <1>3, <2>1, <3>4, SMT DEF FaultTyped
      <4> QED BY <1>2, <3>1, <3>2, <3>3, <4>1
    <3>5. CASE windowArmed
      <4>1. passed' + remainingOk' = passed + remainingOk
        BY <1>5, <2>1, <3>5, SMT DEF FaultTyped
      <4>2. \E f \in Faults(issued) : Windowed(f) /\ passed + remainingOk >= f.amount
        BY <3>5 DEF WindowOK
      <4> QED BY <3>2, <3>3, <4>1, <4>2
    <3> QED BY <3>4, <3>5
  <2> QED BY <2>2, <2>3
<1>6. CASE ~(~windowArmed \/ remainingOk > 0)
  <2>1. /\ ledger' = Append(ledger, fault)
        /\ Does(t, Calling(fault.op, fault.class))
        /\ UNCHANGED <<plan, remainingOk, windowArmed, passed>>
    BY <1>6 DEF Window
  <2>2. WindowOK'
    BY <1>1, <1>4, <2>1, WindowUndisturbed DEF WindowOK
  <2>3. ASSUME arms = 0 PROVE passed >= fault.amount
    <3>1. PICK f \in Faults(issued) : Windowed(f) /\ passed + remainingOk >= f.amount
      BY <1>6, <2>3 DEF WindowOK
    <3>2. f.amount = fault.amount
      BY <1>2, <2>3, <3>1 DEF WindowOK, OneWindow
    <3>3. remainingOk = 0
      BY <1>6, SMT DEF FaultTyped
    <3> QED BY <1>3, <3>1, <3>2, <3>3, SMT DEF FaultTyped
  <2>4. WindowsAreHonoured'
    BY <1>1, <1>2, <2>1, <2>3, HonouredWhenAppended
  <2> QED BY <2>2, <2>4
<1> QED BY <1>5, <1>6

(* Every step keeps the windows honoured.                                  *)
LEMMA WindowStep ==
  ASSUME \A p \in Plans : OneWindow(p),
         FaultTyped, WindowOK, WindowsAreHonoured, [FaultNext]_faultVars
  PROVE  WindowOK' /\ WindowsAreHonoured'
<1>1. CASE UNCHANGED faultVars
  BY <1>1 DEF faultVars, WindowOK, WindowsAreHonoured, Windowed, Faults
<1>2. ASSUME NEW t \in Tasks, Ends(t) \/ CancelHung(t)
      PROVE  WindowOK' /\ WindowsAreHonoured'
  <2>1. UNCHANGED <<plan, remainingOk, windowArmed, passed, arming, issued, arms>>
    BY <1>2 DEF Ends, CancelHung, Kept
  <2>2. Resting \in RestingState
    BY DEF Resting, RestingState, Result
  <2>3. PICK s \in RestingState : Does(t, s)
    BY <1>2, <2>2, EndingIs DEF CancelHung
  <2>4. s.at # "took"
    BY DEF RestingState
  <2>5. \A u \in Tasks : task'[u].at = "took" => task[u].at = "took" /\ task'[u].fault = task[u].fault
    BY <2>3, <2>4 DEF Does, FaultTyped
  <2>6. WindowOK'
    BY <2>1, <2>5, WindowUndisturbed DEF WindowOK
  <2>7. ledger' = Append(ledger, Damage) \/ ledger' = ledger
    BY <1>2 DEF Ends, CancelHung
  <2>8. ~Windowed(Damage)
    BY SMT DEF Damage, Armed, Windowed
  <2>9. CASE ledger' = ledger
    BY <2>1, <2>6, <2>9 DEF WindowsAreHonoured
  <2>10. CASE ledger' = Append(ledger, Damage)
    <3>1. WindowsAreHonoured'
      BY <2>1, <2>8, <2>10, DamageIsAFault, HonouredWhenAppended
    <3> QED BY <2>6, <3>1
  <2> QED BY <2>7, <2>9, <2>10
<1>3. ASSUME NEW new \in Plans, Arm(new)
      PROVE  WindowOK' /\ WindowsAreHonoured'
  <2>1. arms' # 0
    BY <1>3, SMT DEF Arm, FaultTyped
  <2> QED BY <2>1 DEF WindowOK, WindowsAreHonoured
<1>4. CASE ArmResets
  <2>1. arms # 0 /\ arms' = arms
    BY <1>4 DEF ArmResets, WindowOK
  <2> QED BY <2>1 DEF WindowOK, WindowsAreHonoured
<1>5. CASE CorruptNextWrite
  <2>1. UNCHANGED <<plan, ledger, task, remainingOk, windowArmed, passed, arming, issued, arms>>
    BY <1>5 DEF CorruptNextWrite, Kept
  <2> QED BY <2>1 DEF WindowOK, WindowsAreHonoured, Windowed, Faults
<1> QED BY <1>1, <1>2, <1>3, <1>4, <1>5, TakeKeepsWindow, WindowKeepsWindow DEF FaultNext

(* A fault with a window fires only after as many calls as it asks for     *)
(* have passed, until a plan is armed at runtime, for every plan whose     *)
(* windows are equally long: with windows of two lengths the one that      *)
(* opens first serves both.                                                *)
THEOREM WindowsStayHonoured ==
  ASSUME \A p \in Plans : OneWindow(p)
  PROVE  FaultSpec => []WindowsAreHonoured
<1>1. FaultTyped /\ WindowOK /\ WindowsAreHonoured /\ [FaultNext]_faultVars
        => WindowOK' /\ WindowsAreHonoured'
  BY WindowStep
<1> QED BY <1>1, InitialFaultTyped, FaultTypedStep, InitialWindowOK, PTL DEF FaultSpec

-----------------------------------------------------------------------------
(* The tasks that hold fault f.                                            *)
HeldBy(f) == {t \in Tasks : task[t].at = "took" /\ task[t].fault = f}

(* Every fault issued is in the plan, fired, discarded or held by a task.  *)
Conserved ==
  \A f \in Fault \ {Damage} :
    Occurrences(f, issued) =
      Occurrences(f, plan) + Occurrences(f, ledger) + Occurrences(f, discarded) + Cardinality(HeldBy(f))

(* Every count is a number.                                                *)
LEMMA CountsAreNat ==
  ASSUME FaultTyped, NEW f
  PROVE  /\ Occurrences(f, issued) \in Nat /\ Occurrences(f, plan) \in Nat
         /\ Occurrences(f, ledger) \in Nat /\ Occurrences(f, discarded) \in Nat
         /\ IsFiniteSet(HeldBy(f)) /\ Cardinality(HeldBy(f)) \in Nat
<1>1. HeldBy(f) \in SUBSET Tasks
  BY DEF HeldBy
<1>2. IsFiniteSet(HeldBy(f))
  BY <1>1, TasksAreFinite, FS_Subset
<1>3. Cardinality(HeldBy(f)) \in Nat
  BY <1>2, FS_CardinalityType
<1> QED BY <1>2, <1>3, OccurrencesIsNat DEF FaultTyped

(* A task takes a fault in its hands, lets go of it, or holds none before  *)
(* and after.                                                              *)
LEMMA HoldsOne ==
  ASSUME FaultTyped, NEW t \in Tasks, NEW s, Does(t, s), s.at = "took", task[t].at # "took", NEW f
  PROVE  Cardinality(HeldBy(f)') = Cardinality(HeldBy(f)) + IF s.fault = f THEN 1 ELSE 0
<1>1. task'[t] = s /\ \A u \in Tasks \ {t} : task'[u] = task[u]
  BY DEF Does, FaultTyped
<1>2. IsFiniteSet(HeldBy(f)) /\ Cardinality(HeldBy(f)) \in Nat
  BY CountsAreNat
<1>3. t \notin HeldBy(f)
  BY DEF HeldBy
<1>4. HeldBy(f)' = IF s.fault = f THEN HeldBy(f) \cup {t} ELSE HeldBy(f)
  BY <1>1 DEF HeldBy
<1>5. Cardinality(HeldBy(f) \cup {t}) = Cardinality(HeldBy(f)) + 1
  BY <1>2, <1>3, FS_AddElement
<1> QED BY <1>2, <1>4, <1>5, SMT

(* A task that settles a fault holds it no more.                           *)
LEMMA LetsGo ==
  ASSUME FaultTyped, NEW t \in Tasks, NEW s, Does(t, s), s.at # "took", task[t].at = "took", NEW f
  PROVE  Cardinality(HeldBy(f)) = Cardinality(HeldBy(f)') + IF task[t].fault = f THEN 1 ELSE 0
<1>1. task'[t] = s /\ \A u \in Tasks \ {t} : task'[u] = task[u]
  BY DEF Does, FaultTyped
<1>2. IsFiniteSet(HeldBy(f)) /\ Cardinality(HeldBy(f)) \in Nat
  BY CountsAreNat
<1>3. t \in HeldBy(f) <=> task[t].fault = f
  BY DEF HeldBy
<1>4. HeldBy(f)' = HeldBy(f) \ {t}
  BY <1>1 DEF HeldBy
<1>5. Cardinality(HeldBy(f) \ {t}) = IF t \in HeldBy(f) THEN Cardinality(HeldBy(f)) - 1
                                     ELSE Cardinality(HeldBy(f))
  BY <1>2, FS_RemoveElement
<1> QED BY <1>2, <1>3, <1>4, <1>5, SMT

(* A task that neither takes nor settles a fault holds what it held.       *)
LEMMA HoldsAsBefore ==
  ASSUME FaultTyped, NEW t \in Tasks, NEW s, Does(t, s), s.at # "took", task[t].at # "took", NEW f
  PROVE  HeldBy(f)' = HeldBy(f)
<1>1. task'[t] = s /\ \A u \in Tasks \ {t} : task'[u] = task[u]
  BY DEF Does, FaultTyped
<1> QED BY <1>1 DEF HeldBy

(* take_for loses and duplicates no fault.                                 *)
LEMMA TakeConserves ==
  ASSUME FaultTyped, Conserved, NEW t \in Tasks, NEW op \in OpKind, TakeFor(t, op)
  PROVE  Conserved'
<1> SUFFICES ASSUME NEW f \in Fault \ {Damage}
             PROVE  Occurrences(f, issued') =
                      Occurrences(f, plan') + Occurrences(f, ledger') + Occurrences(f, discarded')
                        + Cardinality(HeldBy(f)')
  BY DEF Conserved, Occurrences, Damage
<1>1. issued' = issued /\ discarded' = discarded /\ task[t].at = "rest"
  BY TakingIs
<1>2. Occurrences(f, issued) = Occurrences(f, plan) + Occurrences(f, ledger)
                                 + Occurrences(f, discarded) + Cardinality(HeldBy(f))
  BY DEF Conserved
<1>3. /\ Occurrences(f, plan) \in Nat /\ Occurrences(f, ledger) \in Nat
      /\ Occurrences(f, discarded) \in Nat /\ Cardinality(HeldBy(f)) \in Nat
  BY CountsAreNat
<1>4. \A c : Calling(op, c).at = "calls"
  BY DEF Calling
<1>5. CASE Does(t, Calling(op, "none")) /\ UNCHANGED <<plan, ledger>>
  <2>1. HeldBy(f)' = HeldBy(f)
    BY <1>1, <1>4, <1>5, HoldsAsBefore
  <2> QED BY <1>1, <1>2, <1>5, <2>1
<1>6. ASSUME NEW i \in DOMAIN plan, plan' = Without(plan, i),
             \/ Does(t, Taking(op, plan[i])) /\ UNCHANGED ledger
             \/ Does(t, Calling(op, plan[i].class)) /\ ledger' = Append(ledger, plan[i])
      PROVE  Occurrences(f, issued') =
               Occurrences(f, plan') + Occurrences(f, ledger') + Occurrences(f, discarded')
                 + Cardinality(HeldBy(f)')
  <2>1. plan \in Seq(Fault) /\ ledger \in Seq(Fault) /\ plan[i] \in Fault
    BY SMT DEF FaultTyped
  <2>2. Occurrences(f, plan) = Occurrences(f, plan') + IF plan[i] = f THEN 1 ELSE 0
    BY <1>6, <2>1, OccurrencesInWithout
  <2>3. Occurrences(f, plan') \in Nat
    BY <1>6, <2>1, WithoutIs, OccurrencesIsNat
  <2>4. CASE Does(t, Taking(op, plan[i])) /\ UNCHANGED ledger
    <3>1. Taking(op, plan[i]).at = "took" /\ Taking(op, plan[i]).fault = plan[i]
      BY DEF Taking
    <3>2. Cardinality(HeldBy(f)') = Cardinality(HeldBy(f)) + IF plan[i] = f THEN 1 ELSE 0
      BY <1>1, <2>4, <3>1, HoldsOne
    <3>3. /\ Occurrences(f, issued') = Occurrences(f, issued)
          /\ Occurrences(f, ledger') = Occurrences(f, ledger)
          /\ Occurrences(f, discarded') = Occurrences(f, discarded)
      BY <1>1, <2>4
    <3>4. CASE plan[i] = f
      BY <1>2, <1>3, <2>2, <2>3, <3>2, <3>3, <3>4, SMT
    <3>5. CASE plan[i] # f
      BY <1>2, <1>3, <2>2, <2>3, <3>2, <3>3, <3>5, SMT
    <3> QED BY <3>4, <3>5
  <2>5. CASE Does(t, Calling(op, plan[i].class)) /\ ledger' = Append(ledger, plan[i])
    <3>1. HeldBy(f)' = HeldBy(f)
      BY <1>1, <1>4, <2>5, HoldsAsBefore
    <3>2. Occurrences(f, ledger') = Occurrences(f, ledger) + IF plan[i] = f THEN 1 ELSE 0
      BY <2>1, <2>5, OccurrencesInAppend
    <3> QED BY <1>1, <1>2, <1>3, <2>2, <2>3, <3>1, <3>2, SMT
  <2> QED BY <1>6, <2>4, <2>5
<1> QED BY <1>5, <1>6, TakingIs

(* Neither does the window.                                                *)
LEMMA WindowConserves ==
  ASSUME FaultTyped, Conserved, NEW t \in Tasks, Window(t)
  PROVE  Conserved'
<1> DEFINE fault == task[t].fault
<1> SUFFICES ASSUME NEW f \in Fault \ {Damage}
             PROVE  Occurrences(f, issued') =
                      Occurrences(f, plan') + Occurrences(f, ledger') + Occurrences(f, discarded')
                        + Cardinality(HeldBy(f)')
  BY DEF Conserved, Occurrences, Damage
<1>1. issued' = issued /\ discarded' = discarded /\ task[t].at = "took"
  BY DEF Window, Kept
<1>2. Occurrences(f, issued) = Occurrences(f, plan) + Occurrences(f, ledger)
                                 + Occurrences(f, discarded) + Cardinality(HeldBy(f))
  BY DEF Conserved
<1>3. /\ Occurrences(f, plan) \in Nat /\ Occurrences(f, ledger) \in Nat
      /\ Occurrences(f, discarded) \in Nat /\ Cardinality(HeldBy(f)) \in Nat
  BY CountsAreNat
<1>4. Cardinality(HeldBy(f)') \in Nat
  <2>1. HeldBy(f)' \in SUBSET Tasks
    BY DEF HeldBy
  <2> QED BY <2>1, TasksAreFinite, FS_Subset, FS_CardinalityType
<1>5. fault \in Fault /\ plan \in Seq(Fault) /\ ledger \in Seq(Fault)
  BY <1>1, TaskIs DEF FaultTyped
<1>6. /\ \E c : Does(t, Calling(fault.op, c))
      /\ \/ ledger' = Append(ledger, fault) /\ plan' = plan
         \/ plan' = <<fault>> \o plan /\ ledger' = ledger
  BY DEF Window
<1>7. \A c : Calling(fault.op, c).at = "calls"
  BY DEF Calling
<1>8. Cardinality(HeldBy(f)) = Cardinality(HeldBy(f)') + IF fault = f THEN 1 ELSE 0
  BY <1>1, <1>6, <1>7, LetsGo
<1>9. CASE ledger' = Append(ledger, fault) /\ plan' = plan
  <2>1. Occurrences(f, ledger') = Occurrences(f, ledger) + IF fault = f THEN 1 ELSE 0
    BY <1>5, <1>9, OccurrencesInAppend
  <2>2. /\ Occurrences(f, issued') = Occurrences(f, issued)
        /\ Occurrences(f, plan') = Occurrences(f, plan)
        /\ Occurrences(f, discarded') = Occurrences(f, discarded)
    BY <1>1, <1>9
  <2> HIDE DEF fault
  <2>3. CASE fault = f
    BY <1>2, <1>3, <1>4, <1>8, <2>1, <2>2, <2>3, SMT
  <2>4. CASE fault # f
    BY <1>2, <1>3, <1>4, <1>8, <2>1, <2>2, <2>4, SMT
  <2> QED BY <2>3, <2>4
<1>10. CASE plan' = <<fault>> \o plan /\ ledger' = ledger
  <2>1. <<fault>> \in Seq(Fault)
    BY <1>5, SMT
  <2>2. Occurrences(f, <<fault>> \o plan) = Occurrences(f, <<fault>>) + Occurrences(f, plan)
    BY <1>5, <2>1, OccurrencesInConcat, Zenon
  <2>3. Occurrences(f, <<fault>>) = IF fault = f THEN 1 ELSE 0
    BY <1>5, OccurrencesInOne
  <2>4. /\ Occurrences(f, issued') = Occurrences(f, issued)
        /\ Occurrences(f, ledger') = Occurrences(f, ledger)
        /\ Occurrences(f, discarded') = Occurrences(f, discarded)
        /\ Occurrences(f, plan') = Occurrences(f, <<fault>>) + Occurrences(f, plan)
    BY <1>1, <1>10, <2>2
  <2> HIDE DEF fault
  <2>5. CASE fault = f
    BY <1>2, <1>3, <1>4, <1>8, <2>3, <2>4, <2>5, SMT
  <2>6. CASE fault # f
    BY <1>2, <1>3, <1>4, <1>8, <2>3, <2>4, <2>6, SMT
  <2> QED BY <2>5, <2>6
<1> QED BY <1>6, <1>9, <1>10

(* Neither does the end of a call, cancelled or not.                       *)
LEMMA EndingConserves ==
  ASSUME FaultTyped, Conserved, NEW t \in Tasks, Ends(t) \/ CancelHung(t)
  PROVE  Conserved'
<1> SUFFICES ASSUME NEW f \in Fault \ {Damage}
             PROVE  Occurrences(f, issued') =
                      Occurrences(f, plan') + Occurrences(f, ledger') + Occurrences(f, discarded')
                        + Cardinality(HeldBy(f)')
  BY DEF Conserved, Occurrences, Damage
<1>1. UNCHANGED <<plan, issued, discarded>> /\ task[t].at = "calls"
  BY DEF Ends, CancelHung, Kept
<1>2. Resting \in RestingState
  BY DEF Resting, RestingState, Result
<1>3. PICK s \in RestingState : Does(t, s)
  BY <1>2, EndingIs DEF CancelHung
<1>4. s.at # "took"
  BY DEF RestingState
<1>5. HeldBy(f)' = HeldBy(f)
  BY <1>1, <1>3, <1>4, HoldsAsBefore
<1>6. ledger' = Append(ledger, Damage) \/ ledger' = ledger
  BY DEF Ends, CancelHung
<1>7. ledger \in Seq(Fault) /\ Occurrences(f, ledger) \in Nat
  BY CountsAreNat DEF FaultTyped
<1>8. Occurrences(f, ledger') = Occurrences(f, ledger)
  <2>1. Occurrences(f, Append(ledger, Damage)) = Occurrences(f, ledger) + IF Damage = f THEN 1 ELSE 0
    BY <1>7, DamageIsAFault, OccurrencesInAppend
  <2>2. Occurrences(f, Append(ledger, Damage)) = Occurrences(f, ledger)
    BY <1>7, <2>1, SMT
  <2> QED BY <1>6, <2>2
<1> QED BY <1>1, <1>5, <1>8 DEF Conserved

(* Neither does arming another plan, which discards what is left.          *)
LEMMA ArmConserves ==
  ASSUME FaultTyped, Conserved, NEW new \in Plans, Arm(new)
  PROVE  Conserved'
<1> SUFFICES ASSUME NEW f \in Fault \ {Damage}
             PROVE  Occurrences(f, issued') =
                      Occurrences(f, plan') + Occurrences(f, ledger') + Occurrences(f, discarded')
                        + Cardinality(HeldBy(f)')
  BY DEF Conserved, Occurrences, Damage
<1>1. /\ plan' = new /\ issued' = issued \o new /\ discarded' = discarded \o plan
      /\ ledger' = ledger /\ task' = task
  BY DEF Arm
<1>2. new \in Seq(Fault) /\ plan \in Seq(Fault) /\ issued \in Seq(Fault) /\ discarded \in Seq(Fault)
  BY PlansAreOfFaults DEF FaultTyped
<1>3. /\ Occurrences(f, issued') = Occurrences(f, issued) + Occurrences(f, new)
      /\ Occurrences(f, discarded') = Occurrences(f, discarded) + Occurrences(f, plan)
  <2>1. \A a, b \in Seq(Fault) : Occurrences(f, a \o b) = Occurrences(f, a) + Occurrences(f, b)
    BY OccurrencesInConcat
  <2> QED BY <1>1, <1>2, <2>1, Zenon
<1>4. HeldBy(f)' = HeldBy(f)
  BY <1>1 DEF HeldBy
<1>5. /\ Occurrences(f, plan) \in Nat /\ Occurrences(f, ledger) \in Nat /\ Occurrences(f, new) \in Nat
      /\ Occurrences(f, discarded) \in Nat /\ Cardinality(HeldBy(f)) \in Nat
  BY <1>2, CountsAreNat, OccurrencesIsNat
<1>6. Occurrences(f, issued) = Occurrences(f, plan) + Occurrences(f, ledger)
                                 + Occurrences(f, discarded) + Cardinality(HeldBy(f))
  BY DEF Conserved
<1> QED BY <1>1, <1>3, <1>4, <1>5, <1>6, SMT

(* No step loses or duplicates a fault.                                    *)
LEMMA ConservedStep ==
  ASSUME FaultTyped, Conserved, [FaultNext]_faultVars
  PROVE  Conserved'
<1>1. CASE UNCHANGED faultVars \/ ArmResets \/ CorruptNextWrite
  <2>1. UNCHANGED <<plan, ledger, issued, discarded, task>>
    BY <1>1 DEF faultVars, ArmResets, CorruptNextWrite, Kept
  <2> QED BY <2>1 DEF Conserved, HeldBy, Occurrences, Damage
<1> QED BY <1>1, TakeConserves, WindowConserves, EndingConserves, ArmConserves DEF FaultNext

(* The faults of the first plan are all in it.                             *)
LEMMA InitialConserved == FaultInit => Conserved
<1> SUFFICES ASSUME FaultInit, NEW f
             PROVE  Occurrences(f, issued) =
                      Occurrences(f, plan) + Occurrences(f, ledger) + Occurrences(f, discarded)
                        + Cardinality(HeldBy(f))
  BY DEF Conserved
<1>1. issued = plan /\ ledger = <<>> /\ discarded = <<>>
  BY DEF FaultInit
<1>2. HeldBy(f) = {}
  BY DEF FaultInit, HeldBy, Resting
<1>3. {i \in DOMAIN <<>> : <<>>[i] = f} = {}
  BY SMT
<1>4. Occurrences(f, <<>>) = 0
  BY <1>3, FS_EmptySet DEF Occurrences
<1>5. Occurrences(f, plan) \in Nat
  BY InitialFaultTyped, CountsAreNat
<1> QED BY <1>1, <1>2, <1>4, <1>5, FS_EmptySet, SMT

(* No fault of a plan is lost or fires twice, for every plan, any finite   *)
(* number of tasks, whatever is armed meanwhile and whichever calls are    *)
(* cancelled.                                                              *)
THEOREM FaultsStayConserved == FaultSpec => []FaultsAreConserved
<1>1. FaultTyped /\ Conserved => FaultsAreConserved
  <2> SUFFICES ASSUME FaultTyped, Conserved PROVE FaultsAreConserved
    OBVIOUS
  <2> DEFINE all == issued \o plan \o ledger \o discarded
  <2>1. all \in Seq(Fault)
    BY SMT DEF FaultTyped
  <2>2. {all[i] : i \in DOMAIN all} \subseteq Fault
    BY <2>1, SMT
  <2> HIDE DEF all
  <2>3. \A f \in {all[i] : i \in DOMAIN all} \ {Damage} : f \in Fault \ {Damage}
    BY <2>2
  <2>4. \A f \in {all[i] : i \in DOMAIN all} \ {Damage} :
          Occurrences(f, issued) =
            Occurrences(f, plan) + Occurrences(f, ledger) + Occurrences(f, discarded)
              + Cardinality({t \in Tasks : task[t].at = "took" /\ task[t].fault = f})
    BY <2>3 DEF Conserved, HeldBy
  <2> QED BY <2>4, Zenon DEF FaultsAreConserved, all
<1> QED BY <1>1, InitialFaultTyped, FaultTypedStep, InitialConserved, ConservedStep, PTL DEF FaultSpec

=============================================================================
