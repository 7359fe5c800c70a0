------------------------------ MODULE Cachelito ------------------------------
(***************************************************************************)
(* The control plane (src/src/control/cachelito.rs) for one key, used the  *)
(* way the crate uses it: by concurrent callers that each take a claim, a  *)
(* token or a reading in one call and act on it in a later one.  Between   *)
(* the two calls lies an .await (or another thread), so any other caller's *)
(* step may come in between.                                               *)
(*                                                                         *)
(* held[c] is what caller c has taken and not yet resolved:                *)
(*   "population"  ownership granted by acquire (a PopulationGuard)        *)
(*   "assumed"     a Ready snapshot of acquire whose rung had nothing: the *)
(*                 caller populates at the generation it read, unowned     *)
(*   "intent"      a CommitToken (an IntentGuard)                          *)
(*   "marker"      a Ready reading it will answer with set_state(Stale)    *)
(*   "sweep"       an item of stale_intents not yet resolved               *)
(* A cancelled caller runs its guard's Drop, which is Fail resp. Abort.    *)
(*                                                                         *)
(* Waiters run wait_for_population: they see a pending entry, register     *)
(* with its Notify, look again, and only then sleep.                       *)
(*                                                                         *)
(* AcquireInPlace, RecheckSkipped and WakeUpWhenReady are mutants of the   *)
(* action each precedes (a claim that keeps the generation, a sleep        *)
(* without the second look, a waiter that sleeps on after a failure);      *)
(* nothing uses them.                                                      *)
(***************************************************************************)
EXTENDS ControlEntry

CONSTANTS
  Clients,        \* callers of the control plane
  Waiters,        \* callers that wait for somebody else's work
  Tiers,          \* the rungs callers name
  Errors,         \* the errors callers record
  MaxGeneration   \* no new work is started from this generation on

ASSUME TiersAreRungs == Tiers \subseteq Rung

ASSUME MaxGenerationIsNat == MaxGeneration \in Nat

VARIABLES
  entry,     \* the record of the key
  held,      \* what each client has taken
  fenced,    \* history: clients whose holding predates the last fence
  wait,      \* where each waiter is in wait_for_population
  notified   \* waiters whose registered Notified future has fired

vars == <<entry, held, fenced, wait, notified>>

Role == {"none", "population", "assumed", "intent", "marker", "sweep"}

Holding == [role : Role, generation : Nat, tier : Rung, kind : IntentKind \cup {"none"}]

Nothing == [role |-> "none", generation |-> 0, tier |-> 0, kind |-> "none"]

Holds(c, roles) == held[c].role \in roles

Publishers == {"population", "assumed"}

(* Only holdings that could still make the entry Ready can be fenced.      *)
CanSettle == Publishers \cup {"intent"}

-----------------------------------------------------------------------------
Init ==
  /\ entry = NewEntry
  /\ held = [c \in Clients |-> Nothing]
  /\ fenced = {}
  /\ wait = [w \in Waiters |-> "idle"]
  /\ notified = {}

(* ControlEntry::notify is notify_waiters: it reaches the futures that are *)
(* registered now and stores nothing for later ones.                       *)
Notify == notified' = notified \cup {w \in Waiters : wait[w] \in {"enabled", "parked"}}

Take(c, role, g, t, k) ==
  held' = [held EXCEPT ![c] = [role |-> role, generation |-> g, tier |-> t, kind |-> k]]

Drop(c) == held' = [held EXCEPT ![c] = Nothing]

(* History.  A fence separates what was taken before it from what is taken *)
(* after it: an eviction, an invalidation, a conservative abort or a new   *)
(* population.  Issue(c) is a fresh holding, Fence(S) fences all but S.    *)
Issue(c) == fenced' = fenced \ {c}

Fence(S) == fenced' = {d \in Clients \ S : Holds(d, CanSettle)}

FenceIf(p, S) == IF p THEN Fence(S) ELSE fenced' = fenced \ S

-----------------------------------------------------------------------------
(* Population: acquire, then publish or fail_with_error.                   *)

AcquireInPlace(c, t) ==
  /\ Holds(c, {"none"}) /\ entry.generation < MaxGeneration
  /\ entry.state \in Claimable
  /\ entry' = [Claimed(entry, t) EXCEPT !.generation = entry.generation]
  /\ Take(c, "population", entry.generation, t, "none")
  /\ Issue(c)
  /\ UNCHANGED <<wait, notified>>

Acquire(c, t) ==
  /\ Holds(c, {"none"}) /\ entry.generation < MaxGeneration
  /\ entry.state \in Claimable
  /\ entry' = Claimed(entry, t)
  /\ Take(c, "population", NextGeneration(entry), t, "none")
  /\ Fence({c})
  /\ UNCHANGED <<wait, notified>>

(* get_or_fetch on a Ready entry whose rung has nothing falls through to   *)
(* become_population_owner with the generation of its snapshot.            *)
AssumePopulation(c, t) ==
  /\ Holds(c, {"none"}) /\ entry.generation < MaxGeneration
  /\ entry.state = "Ready"
  /\ Take(c, "assumed", entry.generation, t, "none")
  /\ Issue(c)
  /\ UNCHANGED <<entry, wait, notified>>

Publish(c, t, ttl) ==
  /\ Holds(c, Publishers)
  /\ held[c].generation = entry.generation
  /\ entry' = Published(entry, t, ttl)
  /\ Drop(c)
  /\ Issue(c)
  /\ Notify
  /\ UNCHANGED wait

(* The end of every population that did not publish: a terminal error, a   *)
(* publish refused as stale, or the drop of an armed PopulationGuard.      *)
Fail(c, err) ==
  /\ Holds(c, Publishers)
  /\ entry' = FailedWith(entry, err)
  /\ Drop(c)
  /\ Issue(c)
  /\ Notify
  /\ UNCHANGED wait

-----------------------------------------------------------------------------
(* Two-phase commit: prepare, then commit, abort or abort_proven_clean.    *)

Prepare(c, t, k) ==
  /\ Holds(c, {"none"}) /\ entry.generation < MaxGeneration
  /\ entry' = PreparedFor(entry, t, k)
  /\ Take(c, "intent", entry.generation, t, k)
  /\ Issue(c)
  /\ UNCHANGED <<wait, notified>>

Commit(c, ttl) ==
  /\ Holds(c, {"intent"})
  /\ CommitAdmits(entry, held[c])
  /\ entry' = Committed(entry, held[c], ttl)
  /\ Drop(c)
  /\ Issue(c)
  /\ Notify
  /\ UNCHANGED wait

(* A refused commit changes nothing and ends here too, through the guard.  *)
Abort(c, err) ==
  /\ Holds(c, {"intent"})
  /\ entry' = Aborted(entry, err)
  /\ Drop(c)
  /\ FenceIf(entry.state = "Prepared", {c})
  /\ IF entry.state = "Prepared" THEN Notify ELSE UNCHANGED notified
  /\ UNCHANGED wait

(* Only set aborts clean; move_entry always aborts conservatively.         *)
AbortProvenClean(c, err) ==
  /\ Holds(c, {"intent"}) /\ held[c].kind = "Write"
  /\ entry' = AbortedClean(entry, err)
  /\ Drop(c)
  /\ Issue(c)
  /\ IF entry.state = "Prepared" THEN Notify ELSE UNCHANGED notified
  /\ UNCHANGED wait

-----------------------------------------------------------------------------
(* Operations that need no claim.                                          *)

(* invalidate, and release at the end of remove.                           *)
Invalidate ==
  /\ entry.generation < MaxGeneration
  /\ entry' = Invalidated(entry)
  /\ FenceIf(entry.created, {})
  /\ IF entry.created THEN Notify ELSE UNCHANGED notified
  /\ UNCHANGED <<held, wait>>

ReserveEviction ==
  /\ entry.generation < MaxGeneration
  /\ Evictable(entry)
  /\ entry' = Evicted(entry)
  /\ Fence({})
  /\ Notify
  /\ UNCHANGED <<held, wait>>

SweepExpired ==
  /\ Demotable(entry)
  /\ entry' = MarkedStale(entry)
  /\ Notify
  /\ UNCHANGED <<held, fenced, wait>>

(* get, get_or_fetch and refresh read Ready first and mark Stale later.    *)
ReadReady(c) ==
  /\ Holds(c, {"none"})
  /\ entry.state = "Ready"
  /\ Take(c, "marker", 0, 0, "none")
  /\ UNCHANGED <<entry, fenced, wait, notified>>

MarkStale(c) ==
  /\ Holds(c, {"marker"})
  /\ entry' = MarkedStale(entry)
  /\ Drop(c)
  /\ Notify
  /\ UNCHANGED <<fenced, wait>>

(* recover_older_than: stale_intents collects, then each item is resolved. *)
ListStaleIntent(c) ==
  /\ Holds(c, {"none"})
  /\ HasIntent(entry) /\ entry.intent.old
  /\ Take(c, "sweep", 0, 0, entry.intent.kind)
  /\ UNCHANGED <<entry, fenced, wait, notified>>

ResolveStaleIntent(c) ==
  /\ Holds(c, {"sweep"})
  /\ entry' = IF held[c].kind = "Write" THEN IntentAborted(entry, "UncommittedIntent")
                                        ELSE ClaimReleased(entry)
  /\ Drop(c)
  /\ FenceIf(entry' # entry, {})
  /\ IF entry' # entry THEN Notify ELSE UNCHANGED notified
  /\ UNCHANGED wait

(* Time.                                                                   *)
ElapseTtl ==
  /\ entry.ttl /\ entry.stamp = "fresh"
  /\ entry' = [entry EXCEPT !.stamp = "old"]
  /\ UNCHANGED <<held, fenced, wait, notified>>

AgeIntent ==
  /\ HasIntent(entry) /\ ~entry.intent.old
  /\ entry' = [entry EXCEPT !.intent.old = TRUE]
  /\ UNCHANGED <<held, fenced, wait, notified>>

-----------------------------------------------------------------------------
(* wait_for_population.                                                    *)

WaitStep(w, from, to) ==
  /\ wait[w] = from
  /\ wait' = [wait EXCEPT ![w] = to]
  /\ UNCHANGED <<entry, held, fenced>>

ObservePending(w) ==
  /\ entry.state \in Pending
  /\ WaitStep(w, "idle", "observed")
  /\ UNCHANGED notified

EnableNotified(w) ==
  /\ WaitStep(w, "observed", "enabled")
  /\ UNCHANGED notified

RecheckSkipped(w) ==
  /\ WaitStep(w, "enabled", "parked")
  /\ UNCHANGED notified

Recheck(w) ==
  \/ /\ entry.state \in Pending
     /\ WaitStep(w, "enabled", "parked")
     /\ UNCHANGED notified
  \/ /\ entry.state \notin Pending
     /\ WaitStep(w, "enabled", "idle")
     /\ notified' = notified \ {w}

WakeUpWhenReady(w) ==
  /\ w \in notified /\ entry.state = "Ready"
  /\ WaitStep(w, "parked", "idle")
  /\ notified' = notified \ {w}

WakeUp(w) ==
  /\ w \in notified
  /\ WaitStep(w, "parked", "idle")
  /\ notified' = notified \ {w}

WaitTimeout(w) ==
  /\ WaitStep(w, "parked", "idle")
  /\ notified' = notified \ {w}

-----------------------------------------------------------------------------
ClientStep(c) ==
  \/ \E t \in Tiers : Acquire(c, t) \/ AssumePopulation(c, t)
  \/ \E t \in Tiers, ttl \in BOOLEAN : Publish(c, t, ttl)
  \/ \E err \in Errors : Fail(c, err)
  \/ \E t \in Tiers, k \in IntentKind : Prepare(c, t, k)
  \/ \E ttl \in BOOLEAN : Commit(c, ttl)
  \/ \E err \in Errors : Abort(c, err) \/ AbortProvenClean(c, err)
  \/ ReadReady(c) \/ MarkStale(c)
  \/ ListStaleIntent(c) \/ ResolveStaleIntent(c)

WaiterStep(w) ==
  ObservePending(w) \/ EnableNotified(w) \/ Recheck(w) \/ WakeUp(w) \/ WaitTimeout(w)

Next ==
  \/ \E c \in Clients : ClientStep(c)
  \/ \E w \in Waiters : WaiterStep(w)
  \/ Invalidate \/ ReserveEviction \/ SweepExpired
  \/ ElapseTtl \/ AgeIntent

Spec == Init /\ [][Next]_vars

(* The fairness the crate's scheduling gives.  A population ends: its      *)
(* fetch and its tier write are bounded by a timeout, its retries by a     *)
(* count, and a dropped future runs its guard.  A task whose Notified      *)
(* future has fired is polled again.  Nothing else is assumed; the         *)
(* waiters' own timeout in particular need never fire.                     *)
PopulationEnds(c) ==
  \/ \E t \in Tiers, ttl \in BOOLEAN : Publish(c, t, ttl)
  \/ \E err \in Errors : Fail(c, err)

Fairness ==
  /\ \A c \in Clients : WF_vars(PopulationEnds(c))
  /\ \A w \in Waiters : WF_vars(WakeUp(w))

FairSpec == Spec /\ Fairness

-----------------------------------------------------------------------------
(* Type invariant of the control plane and of what its callers hold.       *)
TypeOK ==
  /\ entry \in Entry
  /\ held \in [Clients -> Holding]
  /\ fenced \subseteq Clients
  /\ wait \in [Waiters -> {"idle", "observed", "enabled", "parked"}]
  /\ notified \subseteq Waiters

(* Stale claims are dead: once an invalidation, an eviction, a new         *)
(* population, a conservative abort or a recovery sweep has advanced the   *)
(* generation, no claim or token taken before it can make the entry Ready, *)
(* whatever the callers do in between.  This is what publish and commit    *)
(* compare generations for.                                                *)
NoResurrection ==
  [][\A c \in fenced, ttl \in BOOLEAN :
       /\ \A t \in Tiers : ~Publish(c, t, ttl)
       /\ ~Commit(c, ttl)]_vars

(* Nobody waits for a caller that is gone: an InFlight entry always has a  *)
(* live population of its generation, and a Prepared entry whose owner     *)
(* flag is set always has a live token of its generation.  This is what    *)
(* PopulationGuard and IntentGuard are for.                                *)
OwnersAreLive ==
  /\ entry.state = "InFlight" =>
       \E c \in Clients : Holds(c, {"population"}) /\ held[c].generation = entry.generation
  /\ entry.state = "Prepared" /\ entry.owner =>
       \E c \in Clients : Holds(c, {"intent"}) /\ held[c].generation = entry.generation

(* Single flight: of all the populations acquire ever granted, at most one *)
(* can still publish.                                                      *)
OneLivePopulation ==
  \A c, d \in Clients :
    /\ Holds(c, {"population"}) /\ held[c].generation = entry.generation
    /\ Holds(d, {"population"}) /\ held[d].generation = entry.generation
    => c = d

(* No lost wake-up: a waiter that is asleep and has not been notified is   *)
(* waiting for an entry that is still pending, so that the step that       *)
(* settles the entry is still to come and will notify it.                  *)
NoLostWakeup ==
  \A w \in Waiters : wait[w] = "parked" /\ w \notin notified => entry.state \in Pending

(* A caller asleep on a population in flight is woken by the end of that   *)
(* population (or by what supersedes it), without the help of its own      *)
(* timeout: the drop guards leave no population without an end, and every  *)
(* end notifies.                                                           *)
WaitersAreWoken ==
  \A w \in Waiters :
    wait[w] = "parked" /\ entry.state = "InFlight" ~> wait[w] = "idle"

(* cachelito.rs:664 says that "A prepared write owns the entry until it    *)
(* commits or aborts": when every writer has done one or the other, and no *)
(* intent is left for the recovery sweep, the entry is not Prepared.       *)
PreparedHasAWriter ==
  entry.state = "Prepared" => HasIntent(entry) \/ \E c \in Clients : Holds(c, {"intent"})

=============================================================================
