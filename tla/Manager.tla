------------------------------- MODULE Manager -------------------------------
(***************************************************************************)
(* CacheManager (src/src/manager.rs) for one key: concurrent callers, the  *)
(* control-plane record and the rungs.  proc[c] is the operation caller c  *)
(* is in.  One step is a call of the control plane, a call of a rung or a  *)
(* call of the fetch; any other caller's step may come between two.        *)
(*                                                                         *)
(*   pc     what the caller does next                                      *)
(*   op     the public method                                              *)
(*   val    the value it writes, moves or has read                         *)
(*   gen    the generation of its claim or token                           *)
(*   rung   the rung it works at                                           *)
(*   want   the rung the policy named (of a move: the source)              *)
(*   err    the error in hand                                              *)
(*   tries  lost races, or attempts at the fetch                           *)
(*   passes eviction passes                                                *)
(*                                                                         *)
(* A policy may name any rung of Wants.  A cancelled caller runs the Drop  *)
(* of the guard it holds (Cancel).  The operators whose names end in       *)
(* Mutant are mutants of the one each precedes; nothing uses them.         *)
(***************************************************************************)
EXTENDS Ladder

CONSTANTS
  Callers,
  Ops,                  \* Ops[c]: the operations caller c performs
  Wants,                \* the rungs the policy names
  Ttls,                 \* whether a context has a TTL
  FetchErrors,          \* the errors a fetch may end in
  Cancels,              \* whether callers may be cancelled
  MaxGeneration,        \* no operation that changes the entry begins from here on
  MaxRetryGeneration,   \* no write is prepared from here on
  MaxCommitAttempts,    \* 64 in the code
  MaxEvictionPasses,    \* 16 in the code
  MaxPopulateAttempts   \* 3 in the code

ASSUME WantsAreRungs == Wants \subseteq Rung

ASSUME BoundsAreNat ==
  {MaxGeneration, MaxRetryGeneration, MaxCommitAttempts, MaxEvictionPasses,
   MaxPopulateAttempts} \subseteq Nat

(* Errors that send set to the rung below.                                 *)
RungError == {"CapacityExhausted", "TierUnavailable", "Timeout", "Corrupted",
              "SerializationFailed", "WriteIndeterminate"}

(* The errors that reach an operation.                                     *)
CacheError == RungError \cup {"PopulationFailed", "Cancelled", "Miss", "StaleGeneration",
                              "ConfigurationError"}

ASSUME InputsAreTyped ==
  Ttls \subseteq BOOLEAN /\ WriteErrors \cup ReadErrors \cup FetchErrors \subseteq CacheError

VARIABLES
  entry,       \* the record of the key
  proc,        \* the callers
  used,        \* number of values written or fetched so far
  committed    \* history: the values a commit or a publish made visible

vars == <<data, failures, entry, proc, used, committed>>

Idle == [pc |-> "idle", op |-> "none", val |-> NoValue, gen |-> 0, rung |-> 0, want |-> 0,
         err |-> "none", tries |-> 0, passes |-> 0]

At(c, pc, ops) == proc[c].pc = pc /\ proc[c].op \in ops

Become(c, p) == proc' = [proc EXCEPT ![c] = p]

Goto(c, pc) == proc' = [proc EXCEPT ![c].pc = pc]

End(c) == Become(c, Idle)

Start(c, op) == At(c, "idle", {"none"}) /\ op \in Ops[c]

Populating == {"fetch", "refresh"}

Room == entry.generation < MaxGeneration

Init ==
  /\ LadderInit
  /\ entry = NewEntry
  /\ proc = [c \in Callers |-> Idle]
  /\ used = 0
  /\ committed = {}

-----------------------------------------------------------------------------
(* set: prepare, write, commit at one rung; on a refusal the rung below;   *)
(* when the ladder is full, evict and walk again.                          *)

(* set refuses to write the authority.                                     *)
WriteAdmits(want) == want # AuthorityRung

SetBegin(c) ==
  /\ Start(c, "set") /\ Room /\ used < MaxValues
  /\ \E want \in Wants :
       /\ WriteAdmits(want)
       /\ Become(c, [Idle EXCEPT !.pc = "prepare", !.op = "set", !.val = used + 1,
                                 !.want = want, !.rung = NearestBound(want)])
  /\ used' = used + 1
  /\ UNCHANGED <<ladderVars, entry, committed>>

Prepare(c) ==
  /\ At(c, "prepare", {"set", "move"}) /\ entry.generation < MaxRetryGeneration
  /\ entry' = PreparedFor(entry, proc[c].rung, IF proc[c].op = "set" THEN "Write" ELSE "Move")
  /\ Become(c, [proc[c] EXCEPT !.pc = IF proc[c].op = "set" THEN "write" ELSE "load",
                               !.gen = entry.generation])
  /\ UNCHANGED <<ladderVars, used, committed>>

(* tier.set, of a set, of a move and of a population.                      *)
AfterWrite(op) == CASE op = "set" -> "commit" [] op = "move" -> "unload" [] OTHER -> "publish"

Write(c) ==
  LET p == proc[c]
  IN  /\ At(c, "write", {"set", "move"} \cup Populating)
      /\ \/ TierSet(p.rung, p.val) /\ Goto(c, AfterWrite(p.op))
         \/ \E err \in WriteErrors :
              /\ TierSetFails(p.rung, p.val, err)
              /\ Become(c, [p EXCEPT !.err = err,
                   !.pc = IF p.op = "set" /\ err = "WriteIndeterminate"
                          THEN "compensate" ELSE "refused"])
      /\ UNCHANGED <<entry, used, committed>>

(* set removes what an indeterminate write may have left.                  *)
Compensate(c) ==
  /\ At(c, "compensate", {"set"})
  /\ TierRemove(proc[c].rung)
  /\ Goto(c, "refused")
  /\ UNCHANGED <<entry, used, committed>>

SetRefusedMutant(c) ==
  LET p == proc[c]
  IN  /\ At(c, "refused", {"set"})
      /\ entry' = AbortedClean(entry, p.err)
      /\ \/ /\ p.err \in RungError /\ p.rung > 0
            /\ Become(c, [p EXCEPT !.pc = "prepare", !.rung = p.rung - 1, !.tries = 0])
         \/ /\ p.err = "CapacityExhausted" /\ p.rung = 0
            /\ Goto(c, "reclaim")
         \/ /\ p.err \notin RungError \/ (p.rung = 0 /\ p.err # "CapacityExhausted")
            /\ End(c)
      /\ UNCHANGED <<ladderVars, used, committed>>

(* Only an error that proves nothing was stored restores the entry.        *)
SetRefused(c) ==
  LET p == proc[c]
  IN  /\ At(c, "refused", {"set"})
      /\ entry' = IF p.err \in ProvablyClean THEN AbortedClean(entry, p.err)
                                             ELSE Aborted(entry, p.err)
      /\ \/ /\ p.err \in RungError /\ p.rung > 0
            /\ Become(c, [p EXCEPT !.pc = "prepare", !.rung = p.rung - 1, !.tries = 0])
         \/ /\ p.err = "CapacityExhausted" /\ p.rung = 0
            /\ Goto(c, "reclaim")
         \/ /\ p.err \notin RungError \/ (p.rung = 0 /\ p.err # "CapacityExhausted")
            /\ End(c)
      /\ UNCHANGED <<ladderVars, used, committed>>

NextPassMutant(c) ==
  LET p == proc[c]
  IN  IF p.passes > MaxEvictionPasses THEN End(c)
      ELSE Become(c, [p EXCEPT !.pc = "prepare", !.rung = NearestBound(p.want),
                               !.tries = 0, !.passes = p.passes + 1])

NextPassUncountedMutant(c) ==
  Become(c, [proc[c] EXCEPT !.pc = "prepare", !.rung = NearestBound(proc[c].want), !.tries = 0])

(* The walk begins again, unless this was the last pass.                   *)
NextPass(c) ==
  LET p == proc[c]
  IN  IF p.passes = MaxEvictionPasses THEN End(c)
      ELSE Become(c, [p EXCEPT !.pc = "prepare", !.rung = NearestBound(p.want),
                               !.tries = 0, !.passes = p.passes + 1])

(* try_free_somewhere_in_the_ladder: nothing can be evicted, or a slot of  *)
(* another key is, or this very key is nominated and reserved.             *)
Reclaim(c) ==
  /\ At(c, "reclaim", {"set"})
  /\ \/ End(c) /\ UNCHANGED entry
     \/ NextPass(c) /\ UNCHANGED entry
     \/ \E r \in BoundRung \cap CacheRung :
          /\ data[r] # NoValue /\ Evictable(entry)
          /\ entry' = Evicted(entry)
          /\ Become(c, [proc[c] EXCEPT !.pc = "dropslot", !.rung = r])
  /\ UNCHANGED <<ladderVars, used, committed>>

(* remove_if_address, after the reservation.  A slot already empty frees   *)
(* nothing, and the search goes on.                                        *)
DropSlot(c) ==
  /\ At(c, "dropslot", {"set"})
  /\ data' = [data EXCEPT ![proc[c].rung] = NoValue]
  /\ IF data[proc[c].rung] # NoValue THEN NextPass(c) ELSE Goto(c, "reclaim")
  /\ UNCHANGED <<failures, entry, used, committed>>

CommitEndsMutant(c, ttl) ==
  LET p == proc[c]
  IN  /\ At(c, "commit", {"set"})
      /\ IF CommitAdmits(entry, [generation |-> p.gen])
         THEN /\ entry' = Committed(entry, [tier |-> p.rung], ttl)
              /\ committed' = committed \cup {p.val}
         ELSE UNCHANGED <<entry, committed>>
      /\ End(c)
      /\ UNCHANGED <<ladderVars, used>>

(* A lost race is tried again at the same rung, so often.  Giving up drops *)
(* the guard, which aborts.                                                *)
Commit(c, ttl) ==
  LET p == proc[c]
  IN  /\ At(c, "commit", {"set"})
      /\ IF CommitAdmits(entry, [generation |-> p.gen])
         THEN /\ entry' = Committed(entry, [tier |-> p.rung], ttl)
              /\ committed' = committed \cup {p.val}
              /\ End(c)
         ELSE /\ UNCHANGED committed
              /\ IF p.tries + 1 < MaxCommitAttempts
                 THEN Become(c, [p EXCEPT !.pc = "yield", !.tries = p.tries + 1]) /\ UNCHANGED entry
                 ELSE End(c) /\ entry' = Aborted(entry, "Cancelled")
      /\ UNCHANGED <<ladderVars, used>>

(* After yield_now the loop goes round, and the old guard is dropped.      *)
Yield(c) ==
  /\ At(c, "yield", {"set"})
  /\ entry' = Aborted(entry, "Cancelled")
  /\ Goto(c, "prepare")
  /\ UNCHANGED <<ladderVars, used, committed>>

-----------------------------------------------------------------------------
(* promote and demote: move_entry between neighbouring rungs.              *)

DestinationsMutant(t) == {u \in Rung : t \in CacheRung /\ (u + 1 = t \/ u = t + 1)}

(* A rung up unless at L0, a rung down unless at the last cache rung.      *)
Destinations(t) == {u \in CacheRung : t \in CacheRung /\ (u + 1 = t \/ u = t + 1)}

MoveBegin(c) ==
  /\ Start(c, "move") /\ Room
  /\ entry.state = "Ready"
  /\ \E r \in Destinations(entry.tier) :
       Become(c, [Idle EXCEPT !.pc = "prepare", !.op = "move", !.rung = r, !.want = entry.tier])
  /\ UNCHANGED <<ladderVars, entry, used, committed>>

(* An unbound end, a source that has nothing or cannot be read: abort.     *)
Load(c) ==
  LET p == proc[c]
      bound == {p.want, p.rung} \subseteq BoundRung
      Refuse(err) == Become(c, [p EXCEPT !.pc = "refused", !.err = err])
  IN  /\ At(c, "load", {"move"})
      /\ \/ ~bound /\ Refuse("Cancelled")
         \/ /\ bound /\ data[p.want] # NoValue
            /\ Become(c, [p EXCEPT !.pc = "write", !.val = data[p.want]])
         \/ bound /\ data[p.want] = NoValue /\ Refuse("Miss")
         \/ bound /\ \E err \in ReadErrors : Refuse(err)
      /\ UNCHANGED <<ladderVars, entry, used, committed>>

(* The source goes before the commit; a failed removal is only recorded.   *)
Unload(c) ==
  LET src == proc[c].want
  IN  /\ At(c, "unload", {"move"})
      /\ \/ data' = [data EXCEPT ![src] = NoValue] /\ RecordOk(src)
         \/ \E err \in ReadErrors : data' = data /\ RecordErr(src, err)
      /\ Goto(c, "settle")
      /\ UNCHANGED <<entry, used, committed>>

Settle(c, ttl) ==
  LET p == proc[c]
  IN  /\ At(c, "settle", {"move"})
      /\ IF CommitAdmits(entry, [generation |-> p.gen])
         THEN /\ entry' = Committed(entry, [tier |-> p.rung], ttl)
              /\ End(c)
         ELSE /\ Become(c, [p EXCEPT !.pc = "undo", !.err = "StaleGeneration"])
              /\ UNCHANGED entry
      /\ UNCHANGED <<ladderVars, used, committed>>

(* A refused commit removes the destination copy, then aborts.             *)
Undo(c) ==
  /\ At(c, "undo", {"move"})
  /\ TierRemove(proc[c].rung)
  /\ Goto(c, "refused")
  /\ UNCHANGED <<entry, used, committed>>

MoveRefused(c) ==
  /\ At(c, "refused", {"move"})
  /\ entry' = Aborted(entry, proc[c].err)
  /\ End(c)
  /\ UNCHANGED <<ladderVars, used, committed>>

-----------------------------------------------------------------------------
(* get_or_fetch and refresh: claim, fetch, write, publish.                 *)

(* acquire, by a caller p: what it does next depends on what it finds.     *)
Acquired(c, p) ==
  \/ /\ entry.state \in Claimable
     /\ entry' = Claimed(entry, p.want)
     /\ Become(c, [p EXCEPT !.pc = "fetch", !.gen = NextGeneration(entry)])
  \/ /\ entry.state \in Pending
     /\ UNCHANGED entry
     /\ IF p.op = "refresh" THEN End(c) ELSE Become(c, [p EXCEPT !.pc = "wait"])
  \/ /\ entry.state = "Ready"
     /\ UNCHANGED entry
     /\ \/ p.op = "refresh" /\ End(c)
        \/ /\ p.op = "fetch" /\ ~Expired(entry)
           /\ Become(c, [p EXCEPT !.pc = "lookup", !.gen = entry.generation, !.rung = entry.tier])
        \/ /\ p.op = "fetch" /\ Expired(entry)
           /\ Become(c, [p EXCEPT !.pc = IF p.pc = "acquire" THEN "stale" ELSE "fetch",
                                  !.gen = entry.generation])

FetchBegin(c) ==
  /\ Start(c, "fetch") /\ Room
  /\ \E want \in Wants : Acquired(c, [Idle EXCEPT !.pc = "acquire", !.op = "fetch", !.want = want])
  /\ UNCHANGED <<ladderVars, used, committed>>

(* refresh peeks; a readable value is read and kept as a fallback.         *)
RefreshBegin(c) ==
  /\ Start(c, "refresh") /\ Room
  /\ \E want \in Wants :
       LET p == [Idle EXCEPT !.op = "refresh", !.want = want, !.rung = entry.tier]
       IN  Become(c, [p EXCEPT !.pc =
             CASE entry.state \in Readable -> IF entry.state = "Ready" /\ ~Expired(entry)
                                              THEN "keepmark" ELSE "keep"
               [] OTHER -> "reacquire"])
  /\ UNCHANGED <<ladderVars, entry, used, committed>>

(* The reading itself: whatever it brings, refresh goes on.                *)
Keep(c) ==
  /\ \/ At(c, "keep", {"refresh"}) /\ Goto(c, "reacquire")
     \/ At(c, "keepmark", {"refresh"}) /\ Goto(c, "stale")
  /\ UNCHANGED <<ladderVars, entry, used, committed>>

(* set_state(Stale), on what an earlier look found Ready.                  *)
MarkStale(c) ==
  /\ At(c, "stale", {"get"} \cup Populating)
  /\ entry' = MarkedStale(entry)
  /\ IF proc[c].op = "get" THEN End(c) ELSE Goto(c, "reacquire")
  /\ UNCHANGED <<ladderVars, used, committed>>

Reacquire(c) ==
  /\ At(c, "reacquire", Populating)
  /\ Acquired(c, proc[c])
  /\ UNCHANGED <<ladderVars, used, committed>>

(* The fetch; a policy that names no cache rung leaves nowhere to write.   *)
Fetch(c) ==
  LET p == proc[c]
  IN  /\ At(c, "fetch", Populating)
      /\ \/ /\ used < MaxValues
            /\ used' = used + 1
            /\ Become(c, IF p.want \in CacheRung
                         THEN [p EXCEPT !.pc = "write", !.val = used + 1, !.rung = NearestBound(p.want)]
                         ELSE [p EXCEPT !.pc = "refused", !.err = "TierUnavailable"])
         \/ /\ UNCHANGED used
            /\ \E err \in FetchErrors : Become(c, [p EXCEPT !.pc = "refused", !.err = err])
      /\ UNCHANGED <<ladderVars, entry, committed>>

Publish(c, ttl) ==
  LET p == proc[c]
  IN  /\ At(c, "publish", Populating)
      /\ IF entry.generation = p.gen
         THEN /\ entry' = Published(entry, p.rung, ttl)
              /\ committed' = committed \cup {p.val}
              /\ End(c)
         ELSE /\ Become(c, [p EXCEPT !.pc = "refused", !.err = "StaleGeneration"])
              /\ UNCHANGED <<entry, committed>>
      /\ UNCHANGED <<ladderVars, used>>

Retryable == {"TierUnavailable", "Timeout", "PopulationFailed"}

(* Retried in place, or failed for good; a fail-open policy then looks for *)
(* any copy on the ladder.                                                 *)
PopulationRefused(c) ==
  LET p == proc[c]
  IN  /\ At(c, "refused", Populating)
      /\ \/ /\ p.err \in Retryable /\ p.tries + 1 < MaxPopulateAttempts
            /\ Become(c, [p EXCEPT !.pc = "fetch", !.tries = p.tries + 1])
            /\ UNCHANGED entry
         \/ /\ p.err \in Retryable => p.tries + 1 >= MaxPopulateAttempts
            /\ entry' = FailedWith(entry, p.err)
            /\ \/ End(c)
               \/ /\ p.op = "fetch" /\ p.err # "StaleGeneration"
                  /\ Become(c, [p EXCEPT !.pc = "scan", !.rung = 0])
      /\ UNCHANGED <<ladderVars, used, committed>>

(* try_fallback_tier, a rung at a time.                                    *)
Scan(c) ==
  LET r == proc[c].rung
  IN  /\ At(c, "scan", {"fetch"})
      /\ \/ r \notin BoundRung \cap CacheRung /\ End(c)
         \/ /\ r \in BoundRung \cap CacheRung /\ ~IsCircuitOpen(r) /\ data[r] # NoValue
            /\ End(c)
         \/ /\ r \in BoundRung \cap CacheRung
            /\ IsCircuitOpen(r) \/ data[r] = NoValue \/ ReadErrors # {}
            /\ Become(c, [proc[c] EXCEPT !.rung = r + 1])
      /\ UNCHANGED <<ladderVars, entry, used, committed>>

-----------------------------------------------------------------------------
(* get, and the reads of get_or_fetch.                                     *)

GetBegin(c) ==
  /\ Start(c, "get")
  /\ LET next == CASE entry.state = "Ready" -> IF Expired(entry) THEN "stale" ELSE "lookup"
                   [] entry.state \in Pending /\ ~entry.owner -> "wait"
                   [] OTHER -> "idle"
     IN  /\ next # "idle"
         /\ Become(c, [Idle EXCEPT !.pc = next, !.op = "get", !.rung = entry.tier])
  /\ UNCHANGED <<ladderVars, entry, used, committed>>

(* The rung of a Ready entry is read; it is bound, as publish and commit   *)
(* only name bound ones.  get_or_fetch answers with what it finds and      *)
(* populates if it finds nothing; get looks at the entry again.            *)
Lookup(c) ==
  LET p == proc[c]
  IN  /\ At(c, "lookup", {"get", "fetch"})
      /\ \/ /\ p.op = "get"
            /\ Become(c, [p EXCEPT !.pc = "recheck", !.val = data[p.rung]])
            /\ RecordOk(p.rung)
         \/ /\ p.op = "fetch"
            /\ IF data[p.rung] = NoValue THEN Goto(c, "fetch") ELSE End(c)
            /\ UNCHANGED failures
         \/ /\ \E err \in ReadErrors : IF p.op = "get" THEN RecordErr(p.rung, err)
                                                       ELSE UNCHANGED failures
            /\ End(c)
      /\ UNCHANGED <<data, entry, used, committed>>

(* get answers with what it read if the entry is Ready now.                *)
Recheck(c) ==
  /\ At(c, "recheck", {"get"})
  /\ End(c)
  /\ UNCHANGED <<ladderVars, entry, used, committed>>

(* The end of a wait, by a notification or by the timeout; a settled entry *)
(* without an error is read once more.                                     *)
WaitOver(c) ==
  LET p == proc[c]
  IN  /\ At(c, "wait", {"get", "fetch"})
      /\ \/ End(c)
         \/ /\ entry.state \in IF p.op = "get" THEN {"Ready"} ELSE Readable
            /\ entry.error = "none" /\ entry.tier \in BoundRung
            /\ Become(c, [p EXCEPT !.pc = "serve", !.rung = entry.tier])
      /\ UNCHANGED <<ladderVars, entry, used, committed>>

Serve(c) ==
  LET p == proc[c]
  IN  /\ At(c, "serve", {"get", "fetch"})
      /\ IF p.op = "fetch" THEN UNCHANGED failures
         ELSE RecordOk(p.rung) \/ \E err \in ReadErrors : RecordErr(p.rung, err)
      /\ End(c)
      /\ UNCHANGED <<data, entry, used, committed>>

-----------------------------------------------------------------------------
(* invalidate; remove, which clears the rungs and then releases.           *)

Invalidate(c) ==
  /\ Start(c, "invalidate") /\ Room
  /\ entry' = Invalidated(entry)
  /\ UNCHANGED <<ladderVars, proc, used, committed>>

RemoveBegin(c) ==
  /\ Start(c, "remove") /\ Room
  /\ Become(c, [Idle EXCEPT !.pc = "clear", !.op = "remove"])
  /\ UNCHANGED <<ladderVars, entry, used, committed>>

Clearable == BoundRung \cap CacheRung

Clear(c) ==
  LET r == proc[c].rung
  IN  /\ At(c, "clear", {"remove"})
      /\ \/ /\ r \in Clearable
            /\ TierRemove(r)
            /\ Become(c, [proc[c] EXCEPT !.rung = r + 1])
            /\ UNCHANGED entry
         \/ /\ r \notin Clearable
            /\ entry' = Invalidated(entry)
            /\ End(c)
            /\ UNCHANGED ladderVars
      /\ UNCHANGED <<used, committed>>

-----------------------------------------------------------------------------
(* The caller's future is dropped where it awaits something.  The guard it *)
(* holds runs: IntentGuard of a set or a move, PopulationGuard of a        *)
(* population.                                                             *)

Awaits(c) ==
  proc[c].pc \notin {"idle", "prepare", "reclaim", "dropslot", "stale", "reacquire"}

HoldsClaim(c) == \E pc \in {"fetch", "write", "publish", "refused"} : At(c, pc, Populating)

CancelMutant(c) ==
  /\ Cancels /\ Awaits(c)
  /\ entry' = IF proc[c].op \in {"set", "move"} THEN Aborted(entry, "Cancelled") ELSE entry
  /\ End(c)
  /\ UNCHANGED <<ladderVars, used, committed>>

Cancel(c) ==
  /\ Cancels /\ Awaits(c)
  /\ entry' = CASE proc[c].op \in {"set", "move"} -> Aborted(entry, "Cancelled")
                [] HoldsClaim(c)                  -> FailedWith(entry, "Cancelled")
                [] OTHER                          -> entry
  /\ End(c)
  /\ UNCHANGED <<ladderVars, used, committed>>

ElapseTtl ==
  /\ entry.ttl /\ entry.stamp = "fresh"
  /\ entry' = [entry EXCEPT !.stamp = "old"]
  /\ UNCHANGED <<ladderVars, proc, used, committed>>

RungLoses(r) == Lose(r) /\ UNCHANGED <<entry, proc, used, committed>>

-----------------------------------------------------------------------------
(* What a caller does of its own accord once it has begun.                 *)
Proceed(c) ==
  \/ Prepare(c) \/ Write(c) \/ Compensate(c) \/ SetRefused(c) \/ Reclaim(c) \/ DropSlot(c)
  \/ \E ttl \in Ttls : Commit(c, ttl) \/ Settle(c, ttl) \/ Publish(c, ttl)
  \/ Yield(c)
  \/ Load(c) \/ Unload(c) \/ Undo(c) \/ MoveRefused(c)
  \/ Keep(c) \/ MarkStale(c) \/ Reacquire(c) \/ Fetch(c) \/ PopulationRefused(c) \/ Scan(c)
  \/ Lookup(c) \/ Recheck(c) \/ WaitOver(c) \/ Serve(c)
  \/ Clear(c)

Begin(c) ==
  \/ SetBegin(c) \/ MoveBegin(c) \/ FetchBegin(c) \/ RefreshBegin(c) \/ GetBegin(c)
  \/ RemoveBegin(c) \/ Invalidate(c)

Next ==
  \/ \E c \in Callers : Begin(c) \/ Proceed(c) \/ Cancel(c)
  \/ ElapseTtl
  \/ \E r \in BoundRung : RungLoses(r)

Spec == Init /\ [][Next]_vars

(* A task that can run is run: the executor polls it, rungs and fetches    *)
(* answer or time out.                                                     *)
FairSpec == Spec /\ \A c \in Callers : WF_vars(Proceed(c))

-----------------------------------------------------------------------------
Place ==
  {"idle", "prepare", "write", "compensate", "refused", "reclaim", "dropslot", "commit",
   "yield", "load", "unload", "settle", "undo", "keep", "keepmark", "stale", "acquire",
   "reacquire", "fetch", "publish", "scan", "lookup", "recheck", "wait", "serve", "clear"}

Proc ==
  [pc : Place,
   op : {"none", "set", "move", "fetch", "refresh", "get", "remove"},
   val : Value \cup {NoValue, Truth}, gen : Nat, rung : Rung, want : Rung, err : CacheError \cup {"none"},
   tries : Nat, passes : 0..MaxEvictionPasses]

(* The types of the variables.                                             *)
TypeOK ==
  /\ LadderTypeOK
  /\ entry \in Entry
  /\ proc \in [Callers -> Proc]
  /\ used \in 0..MaxValues
  /\ committed \subseteq Value

Quiet == \A c \in Callers : proc[c].pc = "idle"

Visible == entry.state = "Ready" /\ entry.tier \in BoundRung

(* With one writer at a time, whatever fails or is cancelled: a Ready      *)
(* entry names a rung that holds a value some commit or publish made       *)
(* visible, or nothing; never what a refused, retried or abandoned write   *)
(* left there.                                                             *)
ReadyIsCommitted == Visible => data[entry.tier] \in committed \cup {NoValue}

(* When every operation on the key has returned, a Ready entry names a     *)
(* rung that holds a committed value or nothing, whichever way the writers *)
(* raced.                                                                  *)
QuietIsCommitted == Quiet => ReadyIsCommitted

(* When every operation on the key has returned or been dropped, nobody is *)
(* left waited for: the entry is neither InFlight nor Prepared.            *)
QuietIsSettled == Quiet => entry.state \notin Pending

(* No operation of the manager, and no failure of one, changes or removes  *)
(* the record of truth on L6.                                              *)
AuthorityUntouched ==
  [][(AuthorityRung \in BoundRung => data'[AuthorityRung] = data[AuthorityRung])]_vars

(* Every operation returns: the retries of set, its eviction passes, the   *)
(* retries of a fetch and the walks along the ladder all come to an end.   *)
OperationsEnd == \A c \in Callers : proc[c].pc # "idle" ~> proc[c].pc = "idle"

(* At one generation only one get_or_fetch calls its fetch.                *)
SingleFlightFetch ==
  \A c, d \in Callers :
    At(c, "fetch", {"fetch"}) /\ At(d, "fetch", {"fetch"}) /\ proc[c].gen = proc[d].gen
      => c = d

(* A move makes visible only what was Ready when it prepared: it does not  *)
(* bring back what was invalidated in the meantime.                        *)
MovesFindReady ==
  [][\A c \in Callers :
       At(c, "settle", {"move"}) /\ entry'.state = "Ready" => entry.prev = "Ready"]_vars

=============================================================================
