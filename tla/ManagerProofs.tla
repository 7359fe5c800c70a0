---------------------------- MODULE ManagerProofs ----------------------------
(***************************************************************************)
(* Proofs about the manager's operations, for every number of callers,     *)
(* bound rungs and values, every policy and every set of errors.           *)
(***************************************************************************)
EXTENDS Manager, ControlEntryProofs, TLAPS

(* A leaf goes to Zenon unless it names another prover: most are first-    *)
(* order, and those with arithmetic or several updates of a record say SMT.*)
USE Zenon

(* Where a caller writes, it is at a bound cache rung; where it reads, at  *)
(* a bound rung.                                                           *)
InPlace(p) ==
  /\ p.op = "set" => p.rung \in BoundRung \cap CacheRung /\ p.want \in CacheRung /\ p.val \in Value
  /\ p.op = "move" => p.rung \in CacheRung /\ p.want \in CacheRung
  /\ p.op = "move" /\ p.pc \in {"write", "unload", "settle", "undo"}
       => p.rung \in BoundRung /\ p.want \in BoundRung
  /\ p.op \in Populating /\ p.pc \in {"write", "publish"}
       => p.rung \in BoundRung \cap CacheRung /\ p.val \in Value
  /\ p.pc \in {"lookup", "serve"} => p.rung \in BoundRung

Good == {p \in Proc : InPlace(p)}

ProcsOK == proc \in [Callers -> Good]

(* A Ready entry, or one a clean abort makes Ready again, names a bound    *)
(* rung.                                                                   *)
ReadyIsBound(e) ==
  e.state = "Ready" \/ (e.state = "Prepared" /\ e.prev = "Ready") => e.tier \in BoundRung

EntryOK == entry \in Entry /\ ReadyIsBound(entry)

RestOK == LadderTypeOK /\ used \in 0..MaxValues /\ committed \subseteq Value

TInv == ProcsOK /\ EntryOK /\ RestOK

-----------------------------------------------------------------------------
(* The nearest bound rung of a cache rung is a bound cache rung.           *)
LEMMA NearestIsBound ==
  ASSUME NEW want \in CacheRung
  PROVE  NearestBound(want) \in BoundRung \cap CacheRung
BY BoundIsRungs, SMT DEF NearestBound, BoundRung, CacheRung, LastCacheRung

(* The kinds of rungs.                                                     *)
LEMMA Rungs ==
  /\ BoundRung \subseteq Rung /\ CacheRung \subseteq Rung /\ 0 \in BoundRung \cap CacheRung
  /\ AuthorityRung \notin CacheRung
  /\ \A r \in CacheRung : r + 1 \in Rung
  /\ \A r \in Rung : r # AuthorityRung => r \in CacheRung
  /\ \A r \in BoundRung \cap CacheRung : r > 0 => r - 1 \in BoundRung \cap CacheRung
BY BoundIsRungs, SMT DEF BoundRung, CacheRung, LastCacheRung, Rung, AuthorityRung

(* An idle caller is in place.                                             *)
LEMMA IdleIsGood == Idle \in Good
<1>1. Idle \in Proc
  <2>1. 0 \in 0..MaxEvictionPasses
    BY BoundsAreNat, SMT
  <2>2. 0 \in Rung
    BY Rungs
  <2> QED BY <2>1, <2>2 DEF Idle, Proc, Place
<1>2. InPlace(Idle)
  BY DEF Idle, InPlace, Populating
<1> QED BY <1>1, <1>2 DEF Good

(* Where a caller need not be in a certain place.                          *)
Anywhere == Place \ {"write", "publish", "unload", "settle", "undo", "lookup", "serve"}

(* A caller that returns, or goes anywhere, stays in place.                *)
LEMMA Going ==
  ASSUME ProcsOK, NEW c \in Callers
  PROVE  /\ \A q \in Good : Become(c, q) => ProcsOK'
         /\ End(c) => ProcsOK'
         /\ \A pc \in Anywhere : Goto(c, pc) => ProcsOK'
<1>0. proc[c] \in Good /\ proc[c] \in Proc /\ InPlace(proc[c])
  BY DEF ProcsOK, Good
<1>1. \A q \in Good : Become(c, q) => ProcsOK'
  BY DEF Become, ProcsOK
<1>2. End(c) => ProcsOK'
  BY <1>1, IdleIsGood DEF End
<1>3. ASSUME NEW pc \in Anywhere PROVE [proc[c] EXCEPT !.pc = pc] \in Good
  <2>1. [proc[c] EXCEPT !.pc = pc] \in Proc
    BY <1>0 DEF Proc, Anywhere
  <2>2. InPlace([proc[c] EXCEPT !.pc = pc])
    BY <1>0 DEF InPlace, Proc, Anywhere
  <2> QED BY <2>1, <2>2 DEF Good
<1>4. \A pc \in Anywhere : Goto(c, pc) => ProcsOK'
  <2>1. \A pc : Goto(c, pc) => proc' = [proc EXCEPT ![c] = [proc[c] EXCEPT !.pc = pc]]
    BY DEF Goto
  <2> QED BY <2>1, <1>3, SMT DEF ProcsOK
<1> QED BY <1>1, <1>2, <1>4

(* Every caller stays in place.                                            *)
LEMMA ProcsOfSet ==
  ASSUME TInv, NEW c \in Callers
  PROVE  /\ SetBegin(c) \/ Prepare(c) \/ Write(c) \/ Compensate(c) \/ SetRefused(c) => ProcsOK'
         /\ Reclaim(c) \/ DropSlot(c) \/ Yield(c) => ProcsOK'
         /\ \A ttl : Commit(c, ttl) => ProcsOK'
<1> DEFINE p == proc[c]
<1>0. p \in Proc /\ InPlace(p) /\ ProcsOK
  BY DEF TInv, ProcsOK, Good
<1>1. /\ \A q \in Proc : InPlace(q) /\ Become(c, q) => ProcsOK'
      /\ End(c) => ProcsOK'
      /\ \A pc \in Anywhere : Goto(c, pc) => ProcsOK'
  BY <1>0, Going DEF Good
<1>2. p.err \in CacheError \cup {"none"} /\ p.tries \in Nat /\ p.rung \in Rung
  BY <1>0 DEF Proc
<1>3. ASSUME SetBegin(c) PROVE ProcsOK'
  <2>1. PICK want \in Wants :
          /\ WriteAdmits(want)
          /\ Become(c, [Idle EXCEPT !.pc = "prepare", !.op = "set", !.val = used + 1,
                                    !.want = want, !.rung = NearestBound(want)])
    BY <1>3 DEF SetBegin
  <2>2. want \in CacheRung /\ NearestBound(want) \in BoundRung \cap CacheRung
    BY <2>1, WantsAreRungs, Rungs, NearestIsBound DEF WriteAdmits
  <2>3. used + 1 \in Value
    BY <1>3, MaxValuesIsNat, SMT DEF SetBegin, TInv, RestOK, Value
  <2> DEFINE q == [Idle EXCEPT !.pc = "prepare", !.op = "set", !.val = used + 1,
                               !.want = want, !.rung = NearestBound(want)]
  <2>4. Idle \in Proc
    BY IdleIsGood DEF Good
  <2>5. q \in Proc
    BY <2>2, <2>3, <2>4, Rungs DEF Proc, Place
  <2>6. q.op = "set" /\ q.pc = "prepare" /\ q.rung = NearestBound(want) /\ q.want = want
        /\ q.val = used + 1
    BY <2>4 DEF Proc
  <2>7. InPlace(q)
    BY <2>2, <2>3, <2>6 DEF InPlace, Populating
  <2> QED BY <1>1, <2>1, <2>5, <2>7
<1>4. ASSUME Prepare(c) PROVE ProcsOK'
  <2>1. entry.generation \in Nat
    BY DEF TInv, EntryOK, Entry
  <2> DEFINE q == [p EXCEPT !.pc = IF p.op = "set" THEN "write" ELSE "load",
                            !.gen = entry.generation]
  <2>2. q \in Proc
    BY <1>0, <2>1, ZenonT(40) DEF Proc, Place
  <2>3. p.op \in {"set", "move"}
    BY <1>4 DEF Prepare, At
  <2>4. InPlace(q)
    BY <1>0, <2>3 DEF InPlace, Proc, Populating
  <2> QED BY <1>1, <1>4, <2>2, <2>4 DEF Prepare
<1>5. ASSUME Write(c) PROVE ProcsOK'
  <2>0. p.pc = "write" /\ p.op \in {"set", "move", "fetch", "refresh"}
    BY <1>5 DEF Write, At, Populating
  <2>1. CASE Goto(c, AfterWrite(p.op))
    <3> DEFINE q == [p EXCEPT !.pc = AfterWrite(p.op)]
    <3>1. q \in Proc
      BY <1>0, <2>0 DEF Proc, Place, AfterWrite
    <3>2. InPlace(q)
      BY <1>0, <2>0 DEF InPlace, Proc, Populating, AfterWrite
    <3>3. Become(c, q)
      BY <2>1 DEF Goto, Become
    <3> QED BY <1>1, <3>1, <3>2, <3>3
  <2>2. ASSUME NEW err \in WriteErrors,
               Become(c, [p EXCEPT !.err = err,
                   !.pc = IF p.op = "set" /\ err = "WriteIndeterminate"
                          THEN "compensate" ELSE "refused"])
        PROVE  ProcsOK'
    <3> DEFINE q == [p EXCEPT !.err = err,
                   !.pc = IF p.op = "set" /\ err = "WriteIndeterminate"
                          THEN "compensate" ELSE "refused"]
    <3>1. err \in CacheError
      BY InputsAreTyped
    <3>2. q \in Proc
      BY <1>0, <3>1, ZenonT(60) DEF Proc, Place
    <3>3. InPlace(q)
      BY <1>0 DEF InPlace, Proc
    <3> QED BY <1>1, <2>2, <3>2, <3>3
  <2> QED BY <1>5, <2>1, <2>2 DEF Write
<1>6. ASSUME Compensate(c) \/ Yield(c) PROVE ProcsOK'
  BY <1>6, <1>1 DEF Compensate, Yield, Anywhere, Place
<1>7. ASSUME SetRefused(c) PROVE ProcsOK'
  <2>1. CASE Goto(c, "reclaim") \/ End(c)
    BY <2>1, <1>1 DEF Anywhere, Place
  <2>2. CASE p.rung > 0 /\ Become(c, [p EXCEPT !.pc = "prepare", !.rung = p.rung - 1, !.tries = 0])
    <3> DEFINE q == [p EXCEPT !.pc = "prepare", !.rung = p.rung - 1, !.tries = 0]
    <3>0. p.op = "set"
      BY <1>7 DEF SetRefused, At
    <3>1. p.rung - 1 \in BoundRung \cap CacheRung
      BY <1>0, <2>2, <3>0, Rungs DEF InPlace
    <3>2. q \in Proc
      BY <1>0, <3>1, Rungs DEF Proc, Place
    <3>3. InPlace(q)
      BY <1>0, <3>0, <3>1 DEF InPlace, Proc, Populating
    <3> QED BY <1>1, <2>2, <3>2, <3>3
  <2> QED BY <1>7, <2>1, <2>2 DEF SetRefused
<1>8. ASSUME NextPass(c), p.op = "set" PROVE ProcsOK'
  <2> DEFINE q == [p EXCEPT !.pc = "prepare", !.rung = NearestBound(p.want),
                            !.tries = 0, !.passes = p.passes + 1]
  <2>1. CASE p.passes = MaxEvictionPasses
    BY <1>1, <1>8, <2>1 DEF NextPass
  <2>2. CASE p.passes # MaxEvictionPasses
    <3>0. MaxEvictionPasses \in Nat /\ p.passes \in 0..MaxEvictionPasses
      BY <1>0, BoundsAreNat DEF Proc
    <3>1. p.passes + 1 \in 0..MaxEvictionPasses
      BY <3>0, <2>2, SMT
    <3>2. NearestBound(p.want) \in BoundRung \cap CacheRung
      BY <1>0, <1>8, NearestIsBound DEF InPlace
    <3>3. q \in Proc
      BY <1>0, <3>1, <3>2, Rungs DEF Proc, Place
    <3>4. InPlace(q)
      BY <1>0, <1>8, <3>2 DEF InPlace, Proc, Populating
    <3> QED BY <1>1, <1>8, <2>2, <3>3, <3>4 DEF NextPass
  <2> QED BY <2>1, <2>2
<1>9. ASSUME Reclaim(c) PROVE ProcsOK'
  <2>0. p.op = "set"
    BY <1>9 DEF Reclaim, At
  <2>1. ASSUME NEW r \in BoundRung \cap CacheRung,
               Become(c, [p EXCEPT !.pc = "dropslot", !.rung = r])
        PROVE  ProcsOK'
    <3>1. [p EXCEPT !.pc = "dropslot", !.rung = r] \in Proc
      BY <1>0, Rungs DEF Proc, Place
    <3>2. InPlace([p EXCEPT !.pc = "dropslot", !.rung = r])
      BY <1>0, <2>0 DEF InPlace, Proc, Populating
    <3> QED BY <1>1, <2>1, <3>1, <3>2
  <2> QED BY <1>9, <1>1, <1>8, <2>0, <2>1 DEF Reclaim
<1>10. ASSUME DropSlot(c) PROVE ProcsOK'
  <2>0. p.op = "set" /\ "reclaim" \in Anywhere
    BY <1>10 DEF DropSlot, At, Anywhere, Place
  <2> QED BY <1>10, <1>1, <1>8, <2>0 DEF DropSlot
<1>11. ASSUME NEW ttl, Commit(c, ttl) PROVE ProcsOK'
  <2>1. CASE Become(c, [p EXCEPT !.pc = "yield", !.tries = p.tries + 1])
    <3>0. p.tries + 1 \in Nat
      BY <1>2, SMT
    <3>1. [p EXCEPT !.pc = "yield", !.tries = p.tries + 1] \in Proc
      BY <1>0, <3>0 DEF Proc, Place
    <3>2. InPlace([p EXCEPT !.pc = "yield", !.tries = p.tries + 1])
      BY <1>0 DEF InPlace, Proc
    <3> QED BY <1>1, <2>1, <3>1, <3>2
  <2> QED BY <1>11, <1>1, <2>1 DEF Commit
<1> QED BY <1>3, <1>4, <1>5, <1>6, <1>7, <1>9, <1>10, <1>11

(* The same for the moves and the removals.                                *)
LEMMA ProcsOfMove ==
  ASSUME TInv, NEW c \in Callers
  PROVE  /\ MoveBegin(c) \/ Load(c) \/ Unload(c) \/ Undo(c) \/ MoveRefused(c) => ProcsOK'
         /\ RemoveBegin(c) \/ Clear(c) \/ Invalidate(c) \/ Cancel(c) => ProcsOK'
         /\ \A ttl : Settle(c, ttl) => ProcsOK'
<1> DEFINE p == proc[c]
<1>0. p \in Proc /\ InPlace(p) /\ ProcsOK
  BY DEF TInv, ProcsOK, Good
<1>1. /\ \A q \in Proc : InPlace(q) /\ Become(c, q) => ProcsOK'
      /\ End(c) => ProcsOK'
      /\ \A pc \in Anywhere : Goto(c, pc) => ProcsOK'
  BY <1>0, Going DEF Good
<1>2. Idle \in Proc
  BY IdleIsGood DEF Good
<1>3. ASSUME MoveBegin(c) PROVE ProcsOK'
  <2>1. PICK r \in Destinations(entry.tier) :
          Become(c, [Idle EXCEPT !.pc = "prepare", !.op = "move", !.rung = r, !.want = entry.tier])
    BY <1>3 DEF MoveBegin
  <2> DEFINE q == [Idle EXCEPT !.pc = "prepare", !.op = "move", !.rung = r, !.want = entry.tier]
  <2>2. r \in CacheRung /\ entry.tier \in CacheRung
    BY <2>1 DEF Destinations
  <2>3. q \in Proc
    BY <1>2, <2>2, Rungs DEF Proc, Place
  <2>4. q.op = "move" /\ q.pc = "prepare" /\ q.rung = r /\ q.want = entry.tier
    BY <1>2 DEF Proc
  <2>5. InPlace(q)
    BY <2>2, <2>4 DEF InPlace, Populating
  <2> QED BY <1>1, <2>1, <2>3, <2>5
<1>4. ASSUME Load(c) PROVE ProcsOK'
  <2>0. p.op = "move"
    BY <1>4 DEF Load, At
  <2>1. ASSUME NEW err \in CacheError, Become(c, [p EXCEPT !.pc = "refused", !.err = err])
        PROVE  ProcsOK'
    <3>1. [p EXCEPT !.pc = "refused", !.err = err] \in Proc
      BY <1>0 DEF Proc, Place
    <3>2. InPlace([p EXCEPT !.pc = "refused", !.err = err])
      BY <1>0, <2>0 DEF InPlace, Proc, Populating
    <3> QED BY <1>1, <2>1, <3>1, <3>2
  <2>2. ASSUME {p.want, p.rung} \subseteq BoundRung,
               Become(c, [p EXCEPT !.pc = "write", !.val = data[p.want]])
        PROVE  ProcsOK'
    <3>1. data[p.want] \in Value \cup {NoValue, Truth}
      BY <2>2 DEF TInv, RestOK, LadderTypeOK
    <3>2. [p EXCEPT !.pc = "write", !.val = data[p.want]] \in Proc
      BY <1>0, <3>1 DEF Proc, Place
    <3>3. InPlace([p EXCEPT !.pc = "write", !.val = data[p.want]])
      BY <1>0, <2>0, <2>2 DEF InPlace, Proc, Populating
    <3> QED BY <1>1, <2>2, <3>2, <3>3
  <2>3. "Cancelled" \in CacheError /\ "Miss" \in CacheError /\ ReadErrors \subseteq CacheError
    BY InputsAreTyped DEF CacheError
  <2> QED BY <1>4, <2>1, <2>2, <2>3 DEF Load
<1>5. ASSUME Unload(c) PROVE ProcsOK'
  <2>1. p.op = "move" /\ p.pc = "unload" /\ Goto(c, "settle")
    BY <1>5 DEF Unload, At
  <2>2. [p EXCEPT !.pc = "settle"] \in Proc
    BY <1>0 DEF Proc, Place
  <2>3. InPlace([p EXCEPT !.pc = "settle"])
    BY <1>0, <2>1 DEF InPlace, Proc, Populating
  <2>4. Become(c, [p EXCEPT !.pc = "settle"])
    BY <2>1 DEF Goto, Become
  <2> QED BY <1>1, <2>2, <2>3, <2>4
<1>6. ASSUME NEW ttl, Settle(c, ttl) PROVE ProcsOK'
  <2>0. p.op = "move" /\ p.pc = "settle"
    BY <1>6 DEF Settle, At
  <2> DEFINE q == [p EXCEPT !.pc = "undo", !.err = "StaleGeneration"]
  <2>1. q \in Proc
    BY <1>0, ZenonT(60) DEF Proc, Place, CacheError
  <2>2. InPlace(q)
    BY <1>0, <2>0 DEF InPlace, Proc, Populating
  <2> QED BY <1>6, <1>1, <2>1, <2>2 DEF Settle
<1>7. ASSUME Undo(c) \/ MoveRefused(c) \/ Cancel(c) \/ Invalidate(c) PROVE ProcsOK'
  <2>1. "refused" \in Anywhere
    BY DEF Anywhere, Place
  <2>2. proc' = proc => ProcsOK'
    BY <1>0 DEF ProcsOK
  <2> QED BY <1>7, <1>1, <2>1, <2>2 DEF Undo, MoveRefused, Cancel, Invalidate
<1>8. ASSUME RemoveBegin(c) PROVE ProcsOK'
  <2> DEFINE q == [Idle EXCEPT !.pc = "clear", !.op = "remove"]
  <2>1. q \in Proc
    BY <1>2 DEF Proc, Place
  <2>2. q.op = "remove" /\ q.pc = "clear"
    BY <1>2 DEF Proc
  <2>3. InPlace(q)
    BY <2>2 DEF InPlace, Populating
  <2> QED BY <1>8, <1>1, <2>1, <2>3 DEF RemoveBegin
<1>9. ASSUME Clear(c) PROVE ProcsOK'
  <2>0. p.op = "remove" /\ p.pc = "clear"
    BY <1>9 DEF Clear, At
  <2>1. ASSUME p.rung \in Clearable, Become(c, [p EXCEPT !.rung = p.rung + 1]) PROVE ProcsOK'
    <3>1. p.rung + 1 \in Rung
      BY <2>1, Rungs DEF Clearable
    <3>2. [p EXCEPT !.rung = p.rung + 1] \in Proc
      BY <1>0, <3>1 DEF Proc
    <3>3. InPlace([p EXCEPT !.rung = p.rung + 1])
      BY <1>0, <2>0 DEF InPlace, Proc, Populating
    <3> QED BY <1>1, <2>1, <3>2, <3>3
  <2> QED BY <1>9, <1>1, <2>1 DEF Clear
<1> QED BY <1>3, <1>4, <1>5, <1>6, <1>7, <1>8, <1>9

(* What acquire answers puts a populating caller in place.                 *)
LEMMA ProcsOfAcquired ==
  ASSUME TInv, NEW c \in Callers, NEW q \in Proc, q.op \in Populating,
         q.pc \in {"acquire", "reacquire"}, Acquired(c, q)
  PROVE  ProcsOK'
<1>0. /\ \A x \in Proc : InPlace(x) /\ Become(c, x) => ProcsOK'
      /\ End(c) => ProcsOK'
  BY Going DEF TInv, Good
<1>1. entry.generation \in Nat /\ NextGeneration(entry) \in Nat /\ entry.tier \in Rung
  BY NextGenerationIsNext DEF TInv, EntryOK, Entry
<1>2. entry.state = "Ready" => entry.tier \in BoundRung
  BY DEF TInv, EntryOK, ReadyIsBound
<1>3. ASSUME NEW pc \in {"fetch", "wait", "stale"}, NEW g \in Nat
      PROVE  [q EXCEPT !.pc = pc, !.gen = g] \in Proc /\ InPlace([q EXCEPT !.pc = pc, !.gen = g])
  <2>1. [q EXCEPT !.pc = pc, !.gen = g] \in Proc
    BY DEF Proc, Place
  <2>2. InPlace([q EXCEPT !.pc = pc, !.gen = g])
    BY DEF InPlace, Proc, Populating
  <2> QED BY <2>1, <2>2
<1>4. [q EXCEPT !.pc = "wait"] \in Proc /\ InPlace([q EXCEPT !.pc = "wait"])
  <2>1. [q EXCEPT !.pc = "wait"] \in Proc
    BY DEF Proc, Place
  <2>2. InPlace([q EXCEPT !.pc = "wait"])
    BY DEF InPlace, Proc, Populating
  <2> QED BY <2>1, <2>2
<1>5. CASE entry.state = "Ready" /\ Become(c, [q EXCEPT !.pc = "lookup", !.gen = entry.generation, !.rung = entry.tier])
  <2> DEFINE x == [q EXCEPT !.pc = "lookup", !.gen = entry.generation, !.rung = entry.tier]
  <2>1. x \in Proc
    BY <1>1 DEF Proc, Place
  <2>2. InPlace(x)
    BY <1>2, <1>5 DEF InPlace, Proc, Populating
  <2> QED BY <1>0, <1>5, <2>1, <2>2
<1>6. CASE Become(c, [q EXCEPT !.pc = IF q.pc = "acquire" THEN "stale" ELSE "fetch",
                               !.gen = entry.generation])
  BY <1>0, <1>1, <1>3, <1>6
<1>7. CASE Become(c, [q EXCEPT !.pc = "fetch", !.gen = NextGeneration(entry)])
  BY <1>0, <1>1, <1>3, <1>7
<1>8. CASE End(c) \/ Become(c, [q EXCEPT !.pc = "wait"])
  BY <1>0, <1>4, <1>8
<1> QED BY <1>5, <1>6, <1>7, <1>8 DEF Acquired

(* The same for the populations and the reads.                             *)
LEMMA ProcsOfPopulation ==
  ASSUME TInv, NEW c \in Callers
  PROVE  /\ FetchBegin(c) \/ RefreshBegin(c) \/ Keep(c) \/ MarkStale(c) => ProcsOK'
         /\ Reacquire(c) \/ Fetch(c) \/ PopulationRefused(c) \/ Scan(c) => ProcsOK'
         /\ \A ttl : Publish(c, ttl) => ProcsOK'
<1> DEFINE p == proc[c]
<1>0. p \in Proc /\ InPlace(p) /\ ProcsOK
  BY DEF TInv, ProcsOK, Good
<1>1. /\ \A q \in Proc : InPlace(q) /\ Become(c, q) => ProcsOK'
      /\ End(c) => ProcsOK'
      /\ \A pc \in Anywhere : Goto(c, pc) => ProcsOK'
  BY <1>0, Going DEF Good
<1>2. Idle \in Proc /\ entry.tier \in Rung
  BY IdleIsGood DEF Good, TInv, EntryOK, Entry
<1>3. ASSUME FetchBegin(c) PROVE ProcsOK'
  <2>1. PICK want \in Wants :
          Acquired(c, [Idle EXCEPT !.pc = "acquire", !.op = "fetch", !.want = want])
    BY <1>3 DEF FetchBegin
  <2> DEFINE q == [Idle EXCEPT !.pc = "acquire", !.op = "fetch", !.want = want]
  <2>2. q \in Proc
    BY <1>2, WantsAreRungs DEF Proc, Place
  <2>3. q.op \in Populating /\ q.pc \in {"acquire", "reacquire"}
    BY <1>2 DEF Proc, Populating
  <2> HIDE DEF q
  <2> QED BY <2>1, <2>2, <2>3, ProcsOfAcquired DEF q
<1>4. ASSUME RefreshBegin(c) PROVE ProcsOK'
  <2>1. PICK want \in Wants, pc \in {"keep", "keepmark", "reacquire"} :
          Become(c, [[Idle EXCEPT !.op = "refresh", !.want = want, !.rung = entry.tier]
                       EXCEPT !.pc = pc])
    BY <1>4 DEF RefreshBegin
  <2> DEFINE q == [[Idle EXCEPT !.op = "refresh", !.want = want, !.rung = entry.tier]
                     EXCEPT !.pc = pc]
  <2>2. q \in Proc
    BY <1>2, WantsAreRungs DEF Proc, Place
  <2>3. q.op = "refresh" /\ q.pc = pc
    BY <1>2 DEF Proc
  <2>4. InPlace(q)
    BY <2>3 DEF InPlace, Populating
  <2> QED BY <1>1, <2>1, <2>2, <2>4
<1>5. ASSUME Keep(c) \/ MarkStale(c) PROVE ProcsOK'
  <2>1. {"stale", "reacquire"} \subseteq Anywhere
    BY DEF Anywhere, Place
  <2> QED BY <1>5, <1>1, <2>1 DEF Keep, MarkStale
<1>6. ASSUME Reacquire(c) PROVE ProcsOK'
  <2>1. p.op \in Populating /\ p.pc = "reacquire" /\ Acquired(c, p)
    BY <1>6 DEF Reacquire, At
  <2> QED BY <1>0, <2>1, ProcsOfAcquired
<1>7. ASSUME Fetch(c) PROVE ProcsOK'
  <2>0. p.op \in Populating /\ p.pc = "fetch"
    BY <1>7 DEF Fetch, At
  <2>1. ASSUME NEW err \in CacheError, Become(c, [p EXCEPT !.pc = "refused", !.err = err])
        PROVE  ProcsOK'
    <3>1. [p EXCEPT !.pc = "refused", !.err = err] \in Proc
      BY <1>0 DEF Proc, Place
    <3>2. InPlace([p EXCEPT !.pc = "refused", !.err = err])
      BY <1>0, <2>0 DEF InPlace, Proc, Populating
    <3> QED BY <1>1, <2>1, <3>1, <3>2
  <2>2. ASSUME used < MaxValues, p.want \in CacheRung,
               Become(c, [p EXCEPT !.pc = "write", !.val = used + 1, !.rung = NearestBound(p.want)])
        PROVE  ProcsOK'
    <3> DEFINE q == [p EXCEPT !.pc = "write", !.val = used + 1, !.rung = NearestBound(p.want)]
    <3>1. used + 1 \in Value /\ NearestBound(p.want) \in BoundRung \cap CacheRung
      BY <2>2, MaxValuesIsNat, NearestIsBound, SMT DEF TInv, RestOK, Value
    <3>2. q \in Proc
      BY <1>0, <3>1, Rungs DEF Proc, Place
    <3>3. InPlace(q)
      BY <1>0, <2>0, <3>1 DEF InPlace, Proc, Populating
    <3> QED BY <1>1, <2>2, <3>2, <3>3
  <2>3. "TierUnavailable" \in CacheError /\ FetchErrors \subseteq CacheError
    BY InputsAreTyped DEF CacheError, RungError
  <2> QED BY <1>7, <2>1, <2>2, <2>3 DEF Fetch
<1>8. ASSUME NEW ttl, Publish(c, ttl) PROVE ProcsOK'
  <2>0. p.op \in Populating
    BY <1>8 DEF Publish, At
  <2>1. [p EXCEPT !.pc = "refused", !.err = "StaleGeneration"] \in Proc
    BY <1>0, ZenonT(60) DEF Proc, Place, CacheError
  <2>2. InPlace([p EXCEPT !.pc = "refused", !.err = "StaleGeneration"])
    BY <1>0, <2>0 DEF InPlace, Proc, Populating
  <2> QED BY <1>8, <1>1, <2>1, <2>2 DEF Publish
<1>9. ASSUME PopulationRefused(c) PROVE ProcsOK'
  <2>0. p.op \in Populating /\ p.tries + 1 \in Nat /\ 0 \in Rung
    BY <1>9, <1>0, Rungs, SMT DEF PopulationRefused, At, Proc
  <2>1. CASE Become(c, [p EXCEPT !.pc = "fetch", !.tries = p.tries + 1])
    <3>1. [p EXCEPT !.pc = "fetch", !.tries = p.tries + 1] \in Proc
      BY <1>0, <2>0 DEF Proc, Place
    <3>2. InPlace([p EXCEPT !.pc = "fetch", !.tries = p.tries + 1])
      BY <1>0, <2>0 DEF InPlace, Proc, Populating
    <3> QED BY <1>1, <2>1, <3>1, <3>2
  <2>2. CASE Become(c, [p EXCEPT !.pc = "scan", !.rung = 0])
    <3>1. [p EXCEPT !.pc = "scan", !.rung = 0] \in Proc
      BY <1>0, <2>0 DEF Proc, Place
    <3>2. InPlace([p EXCEPT !.pc = "scan", !.rung = 0])
      BY <1>0, <2>0 DEF InPlace, Proc, Populating
    <3> QED BY <1>1, <2>2, <3>1, <3>2
  <2> QED BY <1>9, <1>1, <2>1, <2>2 DEF PopulationRefused
<1>10. ASSUME Scan(c) PROVE ProcsOK'
  <2>0. p.op = "fetch" /\ p.pc = "scan"
    BY <1>10 DEF Scan, At
  <2>1. ASSUME p.rung \in CacheRung, Become(c, [p EXCEPT !.rung = p.rung + 1]) PROVE ProcsOK'
    <3>1. p.rung + 1 \in Rung
      BY <2>1, Rungs
    <3>2. [p EXCEPT !.rung = p.rung + 1] \in Proc
      BY <1>0, <3>1 DEF Proc
    <3>3. InPlace([p EXCEPT !.rung = p.rung + 1])
      BY <1>0, <2>0 DEF InPlace, Proc, Populating
    <3> QED BY <1>1, <2>1, <3>2, <3>3
  <2> QED BY <1>10, <1>1, <2>1 DEF Scan
<1> QED BY <1>3, <1>4, <1>5, <1>6, <1>7, <1>8, <1>9, <1>10

(* The same for get and for the reads of get_or_fetch.                     *)
LEMMA ProcsOfReads ==
  ASSUME TInv, NEW c \in Callers,
         GetBegin(c) \/ Lookup(c) \/ Recheck(c) \/ WaitOver(c) \/ Serve(c)
  PROVE  ProcsOK'
<1> DEFINE p == proc[c]
<1>0. p \in Proc /\ InPlace(p) /\ ProcsOK
  BY DEF TInv, ProcsOK, Good
<1>1. /\ \A q \in Proc : InPlace(q) /\ Become(c, q) => ProcsOK'
      /\ End(c) => ProcsOK'
      /\ \A pc \in Anywhere : Goto(c, pc) => ProcsOK'
  BY <1>0, Going DEF Good
<1>2. Idle \in Proc /\ entry.tier \in Rung
  BY IdleIsGood DEF Good, TInv, EntryOK, Entry
<1>3. ASSUME GetBegin(c) PROVE ProcsOK'
  <2>1. PICK pc \in {"stale", "lookup", "wait"} :
          /\ pc = "lookup" => entry.state = "Ready"
          /\ Become(c, [Idle EXCEPT !.pc = pc, !.op = "get", !.rung = entry.tier])
    BY <1>3 DEF GetBegin
  <2> DEFINE q == [Idle EXCEPT !.pc = pc, !.op = "get", !.rung = entry.tier]
  <2>2. q \in Proc
    BY <1>2 DEF Proc, Place
  <2>3. q.op = "get" /\ q.pc = pc /\ q.rung = entry.tier
    BY <1>2 DEF Proc
  <2>4. InPlace(q)
    BY <2>1, <2>3 DEF InPlace, Populating, TInv, EntryOK, ReadyIsBound
  <2> QED BY <1>1, <2>1, <2>2, <2>4
<1>4. ASSUME Lookup(c) PROVE ProcsOK'
  <2>0. p.op \in {"get", "fetch"} /\ p.pc = "lookup" /\ "fetch" \in Anywhere
    BY <1>4 DEF Lookup, At, Anywhere, Place
  <2>1. CASE Become(c, [p EXCEPT !.pc = "recheck", !.val = data[p.rung]])
    <3>1. data[p.rung] \in Value \cup {NoValue, Truth}
      BY <1>0, <2>0 DEF InPlace, TInv, RestOK, LadderTypeOK
    <3>2. [p EXCEPT !.pc = "recheck", !.val = data[p.rung]] \in Proc
      BY <1>0, <3>1 DEF Proc, Place
    <3>3. InPlace([p EXCEPT !.pc = "recheck", !.val = data[p.rung]])
      BY <1>0, <2>0 DEF InPlace, Proc, Populating
    <3> QED BY <1>1, <2>1, <3>2, <3>3
  <2> QED BY <1>4, <1>1, <2>0, <2>1 DEF Lookup
<1>5. ASSUME WaitOver(c) PROVE ProcsOK'
  <2>0. p.op \in {"get", "fetch"}
    BY <1>5 DEF WaitOver, At
  <2>1. ASSUME entry.tier \in BoundRung,
               Become(c, [p EXCEPT !.pc = "serve", !.rung = entry.tier])
        PROVE  ProcsOK'
    <3>1. [p EXCEPT !.pc = "serve", !.rung = entry.tier] \in Proc
      BY <1>0, <1>2 DEF Proc, Place
    <3>2. InPlace([p EXCEPT !.pc = "serve", !.rung = entry.tier])
      BY <1>0, <2>0, <2>1 DEF InPlace, Proc, Populating
    <3> QED BY <1>1, <2>1, <3>1, <3>2
  <2> QED BY <1>5, <1>1, <2>1 DEF WaitOver
<1>6. ASSUME Recheck(c) \/ Serve(c) PROVE ProcsOK'
  BY <1>6, <1>1 DEF Recheck, Serve
<1> QED BY <1>3, <1>4, <1>5, <1>6

-----------------------------------------------------------------------------
(* Every method of the control plane keeps an entry well formed and, if it *)
(* names a bound rung, bound.                                              *)
LEMMA MethodsKeepEntry ==
  ASSUME NEW e \in Entry, ReadyIsBound(e)
  PROVE  /\ \A t \in Rung : Claimed(e, t) \in Entry /\ ReadyIsBound(Claimed(e, t))
         /\ \A t \in Rung, k \in IntentKind :
              PreparedFor(e, t, k) \in Entry /\ ReadyIsBound(PreparedFor(e, t, k))
         /\ \A err : FailedWith(e, err) \in Entry /\ ReadyIsBound(FailedWith(e, err))
         /\ \A err : Aborted(e, err) \in Entry /\ ReadyIsBound(Aborted(e, err))
         /\ \A err : AbortedClean(e, err) \in Entry /\ ReadyIsBound(AbortedClean(e, err))
         /\ Invalidated(e) \in Entry /\ ReadyIsBound(Invalidated(e))
         /\ MarkedStale(e) \in Entry /\ ReadyIsBound(MarkedStale(e))
         /\ Evicted(e) \in Entry /\ ReadyIsBound(Evicted(e))
         /\ \A t \in BoundRung, ttl \in BOOLEAN :
              /\ Published(e, t, ttl) \in Entry /\ ReadyIsBound(Published(e, t, ttl))
              /\ Committed(e, [tier |-> t], ttl) \in Entry
              /\ ReadyIsBound(Committed(e, [tier |-> t], ttl))
<1>1. \A t \in Rung : Claimed(e, t) \in Entry /\ ReadyIsBound(Claimed(e, t))
  BY EntryTypes, ClaimedFields DEF ReadyIsBound
<1>2. \A t \in Rung, k \in IntentKind :
        PreparedFor(e, t, k) \in Entry /\ ReadyIsBound(PreparedFor(e, t, k))
  <2> SUFFICES ASSUME NEW t \in Rung, NEW k \in IntentKind
               PROVE  PreparedFor(e, t, k) \in Entry /\ ReadyIsBound(PreparedFor(e, t, k))
    OBVIOUS
  <2>1. PreparedFor(e, t, k) \in Entry
    BY EntryTypes
  <2>2. /\ PreparedFor(e, t, k).state = "Prepared" /\ PreparedFor(e, t, k).prev = e.state
        /\ PreparedFor(e, t, k).tier = e.tier
    BY PreparedFields, TierFields, SMT
  <2> QED BY <2>1, <2>2 DEF ReadyIsBound
<1>3. \A err : FailedWith(e, err) \in Entry /\ ReadyIsBound(FailedWith(e, err))
  BY EntryTypes, FailedFields DEF ReadyIsBound
<1>4. \A err : Aborted(e, err) \in Entry /\ ReadyIsBound(Aborted(e, err))
  BY EntryTypes, AbortedFields DEF ReadyIsBound
<1>5. \A err : AbortedClean(e, err) \in Entry /\ ReadyIsBound(AbortedClean(e, err))
  BY EntryTypes, AbortedCleanFields, TierFields, ZenonT(60) DEF ReadyIsBound
<1>6. Invalidated(e) \in Entry /\ ReadyIsBound(Invalidated(e))
  BY EntryTypes, InvalidatedFields DEF ReadyIsBound
<1>7. MarkedStale(e) \in Entry /\ ReadyIsBound(MarkedStale(e))
  BY EntryTypes, MarkedStaleFields DEF ReadyIsBound
<1>8. Evicted(e) \in Entry /\ ReadyIsBound(Evicted(e))
  BY EntryTypes, EvictedFields DEF ReadyIsBound
<1>9. ASSUME NEW t \in BoundRung, NEW ttl \in BOOLEAN
      PROVE  /\ Published(e, t, ttl) \in Entry /\ ReadyIsBound(Published(e, t, ttl))
             /\ Committed(e, [tier |-> t], ttl) \in Entry
             /\ ReadyIsBound(Committed(e, [tier |-> t], ttl))
  <2>1. t \in Rung /\ [tier |-> t].tier = t
    BY Rungs
  <2>2. Published(e, t, ttl).tier = t /\ Committed(e, [tier |-> t], ttl).tier = t
    BY <2>1, TierFields, SMT
  <2>3. Published(e, t, ttl) \in Entry /\ Committed(e, [tier |-> t], ttl) \in Entry
    BY <2>1, EntryTypes
  <2> QED BY <2>2, <2>3 DEF ReadyIsBound
<1> QED BY <1>1, <1>2, <1>3, <1>4, <1>5, <1>6, <1>7, <1>8, <1>9

(* Every step keeps the entry well formed.                                 *)
LEMMA EntryStep == TInv /\ [Next]_vars => EntryOK'
<1> SUFFICES ASSUME TInv, [Next]_vars PROVE EntryOK'
  OBVIOUS
<1>0. entry \in Entry /\ ReadyIsBound(entry)
  BY DEF TInv, EntryOK
<1>U. entry' = entry => EntryOK'
  BY <1>0 DEF EntryOK
<1>M. /\ \A t \in Rung : Claimed(entry, t) \in Entry /\ ReadyIsBound(Claimed(entry, t))
      /\ \A t \in Rung, k \in IntentKind :
           PreparedFor(entry, t, k) \in Entry /\ ReadyIsBound(PreparedFor(entry, t, k))
      /\ \A err : FailedWith(entry, err) \in Entry /\ ReadyIsBound(FailedWith(entry, err))
      /\ \A err : Aborted(entry, err) \in Entry /\ ReadyIsBound(Aborted(entry, err))
      /\ \A err : AbortedClean(entry, err) \in Entry /\ ReadyIsBound(AbortedClean(entry, err))
      /\ Invalidated(entry) \in Entry /\ ReadyIsBound(Invalidated(entry))
      /\ MarkedStale(entry) \in Entry /\ ReadyIsBound(MarkedStale(entry))
      /\ Evicted(entry) \in Entry /\ ReadyIsBound(Evicted(entry))
  BY <1>0, MethodsKeepEntry
<1>V. \A t \in BoundRung, ttl \in BOOLEAN :
        /\ Published(entry, t, ttl) \in Entry /\ ReadyIsBound(Published(entry, t, ttl))
        /\ Committed(entry, [tier |-> t], ttl) \in Entry
        /\ ReadyIsBound(Committed(entry, [tier |-> t], ttl))
  BY <1>0, MethodsKeepEntry
<1>1. ASSUME NEW c \in Callers, Proceed(c) PROVE EntryOK'
  <2>0. proc[c] \in Proc /\ InPlace(proc[c]) /\ proc[c].rung \in Rung /\ proc[c].want \in Rung
    BY DEF TInv, ProcsOK, Good, Proc
  <2>1. CASE Prepare(c)
    BY <2>1, <2>0, <1>M DEF Prepare, EntryOK, IntentKind
  <2>2. CASE SetRefused(c) \/ MoveRefused(c) \/ Yield(c) \/ PopulationRefused(c)
    BY <2>2, <1>M, <1>U DEF SetRefused, MoveRefused, Yield, PopulationRefused, EntryOK
  <2>3. CASE Reclaim(c) \/ MarkStale(c) \/ Clear(c)
    BY <2>3, <1>M, <1>U DEF Reclaim, MarkStale, Clear, EntryOK
  <2>4. ASSUME NEW ttl \in Ttls, Commit(c, ttl) PROVE EntryOK'
    <3>1. proc[c].rung \in BoundRung /\ ttl \in BOOLEAN
      BY <2>4, <2>0, InputsAreTyped DEF Commit, At, InPlace
    <3> QED BY <2>4, <3>1, <1>V, <1>M, <1>U DEF Commit, EntryOK
  <2>5. ASSUME NEW ttl \in Ttls, Settle(c, ttl) PROVE EntryOK'
    <3>1. proc[c].rung \in BoundRung /\ ttl \in BOOLEAN
      BY <2>5, <2>0, InputsAreTyped DEF Settle, At, InPlace
    <3> QED BY <2>5, <3>1, <1>V, <1>U DEF Settle, EntryOK
  <2>6. ASSUME NEW ttl \in Ttls, Publish(c, ttl) PROVE EntryOK'
    <3>1. proc[c].rung \in BoundRung /\ ttl \in BOOLEAN
      BY <2>6, <2>0, InputsAreTyped DEF Publish, At, InPlace
    <3> QED BY <2>6, <3>1, <1>V, <1>U DEF Publish, EntryOK
  <2>7. CASE Reacquire(c)
    BY <2>7, <2>0, <1>M, <1>U DEF Reacquire, Acquired, EntryOK
  <2>8. CASE Write(c) \/ Compensate(c) \/ DropSlot(c) \/ Load(c) \/ Unload(c) \/ Undo(c)
    BY <2>8, <1>U DEF Write, Compensate, DropSlot, Load, Unload, Undo
  <2>9. CASE Keep(c) \/ Fetch(c) \/ Scan(c) \/ Lookup(c) \/ Recheck(c) \/ WaitOver(c) \/ Serve(c)
    BY <2>9, <1>U DEF Keep, Fetch, Scan, Lookup, Recheck, WaitOver, Serve
  <2> QED BY <1>1, <2>1, <2>2, <2>3, <2>4, <2>5, <2>6, <2>7, <2>8, <2>9 DEF Proceed
<1>2. ASSUME NEW c \in Callers, Begin(c) PROVE EntryOK'
  <2>1. CASE FetchBegin(c)
    <3>1. PICK want \in Wants :
            Acquired(c, [Idle EXCEPT !.pc = "acquire", !.op = "fetch", !.want = want])
      BY <2>1 DEF FetchBegin
    <3>2. [Idle EXCEPT !.pc = "acquire", !.op = "fetch", !.want = want].want \in Rung
      BY WantsAreRungs DEF Idle
    <3> QED BY <3>1, <3>2, <1>M, <1>U DEF Acquired, EntryOK
  <2>2. CASE Invalidate(c)
    BY <2>2, <1>M DEF Invalidate, EntryOK
  <2>3. CASE SetBegin(c) \/ MoveBegin(c) \/ RefreshBegin(c) \/ GetBegin(c) \/ RemoveBegin(c)
    BY <2>3, <1>U DEF SetBegin, MoveBegin, RefreshBegin, GetBegin, RemoveBegin
  <2> QED BY <1>2, <2>1, <2>2, <2>3 DEF Begin
<1>3. ASSUME NEW c \in Callers, Cancel(c) PROVE EntryOK'
  BY <1>3, <1>M, <1>U DEF Cancel, EntryOK
<1>4. CASE ElapseTtl
  BY <1>4, <1>0 DEF ElapseTtl, EntryOK, ReadyIsBound, Entry
<1>5. CASE UNCHANGED vars \/ \E r \in BoundRung : RungLoses(r)
  BY <1>5, <1>U DEF vars, RungLoses
<1> QED BY <1>1, <1>2, <1>3, <1>4, <1>5 DEF Next

(* Every step keeps the rungs, the counters and the history well typed.    *)
LEMMA RestStep == TInv /\ [Next]_vars => RestOK'
<1> SUFFICES ASSUME TInv, [Next]_vars PROVE RestOK'
  OBVIOUS
<1>0. /\ data \in [BoundRung -> Value \cup {NoValue, Truth}]
      /\ failures \in [BoundRung -> 0..FailureThreshold]
      /\ used \in 0..MaxValues /\ committed \subseteq Value
  BY DEF TInv, RestOK, LadderTypeOK
<1>U. UNCHANGED <<ladderVars, used, committed>> => RestOK'
  BY <1>0 DEF RestOK, LadderTypeOK, ladderVars
<1>S. \A r, v : v \in Value \cup {NoValue, Truth}
        => [data EXCEPT ![r] = v] \in [BoundRung -> Value \cup {NoValue, Truth}]
  BY <1>0
<1>R. \A r : TierRemove(r) => LadderTypeOK'
  BY <1>0, <1>S DEF TierRemove, LadderTypeOK
<1>F. \A r \in BoundRung :
        /\ RecordOk(r) => failures' \in [BoundRung -> 0..FailureThreshold]
        /\ \A err : RecordErr(r, err) => failures' \in [BoundRung -> 0..FailureThreshold]
  BY <1>0, ThresholdIsPositive, SMT DEF RecordOk, RecordErr, IsCircuitOpen
<1>1. ASSUME NEW c \in Callers, Proceed(c) PROVE RestOK'
  <2> DEFINE p == proc[c]
  <2>0. p \in Proc /\ InPlace(p) /\ p.val \in Value \cup {NoValue, Truth}
    BY DEF TInv, ProcsOK, Good, Proc
  <2>1. CASE Write(c)
    <3>1. p.rung \in BoundRung /\ UNCHANGED <<used, committed>>
      BY <2>1, <2>0 DEF Write, At, InPlace
    <3>2. LadderTypeOK'
      BY <2>1, <3>1, <2>0, <1>0, <1>S, <1>F DEF Write, TierSet, TierSetFails, LadderTypeOK
    <3> QED BY <3>1, <3>2, <1>0 DEF RestOK
  <2>2. CASE Compensate(c) \/ Undo(c)
    BY <2>2, <1>0, <1>R DEF Compensate, Undo, RestOK
  <2>3. CASE DropSlot(c)
    BY <2>3, <1>0, <1>S DEF DropSlot, RestOK, LadderTypeOK
  <2>4. CASE Unload(c)
    <3>1. p.want \in BoundRung /\ UNCHANGED <<used, committed>>
      BY <2>4, <2>0 DEF Unload, At, InPlace
    <3>2. LadderTypeOK'
      <4>1. data' \in [BoundRung -> Value \cup {NoValue, Truth}]
        BY <2>4, <1>0, <1>S DEF Unload
      <4>2. failures' \in [BoundRung -> 0..FailureThreshold]
        BY <2>4, <3>1, <1>F DEF Unload
      <4> QED BY <4>1, <4>2 DEF LadderTypeOK
    <3> QED BY <3>1, <3>2, <1>0 DEF RestOK
  <2>5. ASSUME NEW ttl \in Ttls, Commit(c, ttl) \/ Publish(c, ttl) PROVE RestOK'
    <3>1. p.val \in Value
      BY <2>5, <2>0 DEF Commit, Publish, At, InPlace
    <3>2. committed' \subseteq Value /\ UNCHANGED <<data, failures, used>>
      BY <2>5, <3>1, <1>0 DEF Commit, Publish, ladderVars
    <3> QED BY <3>2, <1>0 DEF RestOK, LadderTypeOK
  <2>6. CASE Fetch(c)
    <3>1. used' = used \/ (used < MaxValues /\ used' = used + 1)
      BY <2>6 DEF Fetch
    <3>2. used' \in 0..MaxValues
      BY <3>1, <1>0, MaxValuesIsNat, SMT
    <3>3. UNCHANGED <<data, failures, committed>>
      BY <2>6 DEF Fetch, ladderVars
    <3> QED BY <3>2, <3>3, <1>0 DEF RestOK, LadderTypeOK
  <2>7. CASE Lookup(c)
    <3>1. p.rung \in BoundRung /\ UNCHANGED <<data, used, committed>>
      BY <2>7, <2>0 DEF Lookup, At, InPlace
    <3>2. failures' \in [BoundRung -> 0..FailureThreshold]
      BY <2>7, <3>1, <1>0, <1>F DEF Lookup
    <3> QED BY <3>1, <3>2, <1>0 DEF RestOK, LadderTypeOK
  <2>8. CASE Serve(c)
    <3>1. p.rung \in BoundRung /\ UNCHANGED <<data, used, committed>>
      BY <2>8, <2>0 DEF Serve, At, InPlace
    <3>2. failures' \in [BoundRung -> 0..FailureThreshold]
      BY <2>8, <3>1, <1>0, <1>F DEF Serve
    <3> QED BY <3>1, <3>2, <1>0 DEF RestOK, LadderTypeOK
  <2>9. CASE Clear(c)
    BY <2>9, <1>0, <1>R, <1>U DEF Clear, RestOK, ladderVars
  <2>10. CASE Prepare(c) \/ SetRefused(c) \/ Reclaim(c) \/ Yield(c) \/ Load(c)
           \/ MoveRefused(c) \/ Keep(c) \/ MarkStale(c) \/ Reacquire(c)
    BY <2>10, <1>U
       DEF Prepare, SetRefused, Reclaim, Yield, Load, MoveRefused, Keep, MarkStale, Reacquire
  <2>11. ASSUME NEW ttl \in Ttls, Settle(c, ttl) PROVE RestOK'
    BY <2>11, <1>U DEF Settle
  <2>12. CASE PopulationRefused(c) \/ Scan(c) \/ Recheck(c) \/ WaitOver(c)
    BY <2>12, <1>U DEF PopulationRefused, Scan, Recheck, WaitOver
  <2> QED BY <1>1, <2>1, <2>2, <2>3, <2>4, <2>5, <2>6, <2>7, <2>8, <2>9, <2>10, <2>11, <2>12
          DEF Proceed
<1>2. ASSUME NEW c \in Callers, Begin(c) PROVE RestOK'
  <2>1. CASE SetBegin(c)
    <3>1. used' \in 0..MaxValues /\ UNCHANGED <<data, failures, committed>>
      BY <2>1, <1>0, MaxValuesIsNat, SMT DEF SetBegin, ladderVars
    <3> QED BY <3>1, <1>0 DEF RestOK, LadderTypeOK
  <2>2. CASE MoveBegin(c) \/ FetchBegin(c) \/ RefreshBegin(c) \/ GetBegin(c)
          \/ RemoveBegin(c) \/ Invalidate(c)
    BY <2>2, <1>U DEF MoveBegin, FetchBegin, RefreshBegin, GetBegin, RemoveBegin, Invalidate
  <2> QED BY <1>2, <2>1, <2>2 DEF Begin
<1>3. ASSUME NEW c \in Callers, Cancel(c) PROVE RestOK'
  BY <1>3, <1>U DEF Cancel
<1>4. CASE ElapseTtl \/ UNCHANGED vars
  BY <1>4, <1>U DEF ElapseTtl, vars, ladderVars
<1>5. ASSUME NEW r \in BoundRung, RungLoses(r) PROVE RestOK'
  BY <1>5, <1>0, <1>S DEF RungLoses, Lose, RestOK, LadderTypeOK
<1> QED BY <1>1, <1>2, <1>3, <1>4, <1>5 DEF Next

(* Every step keeps every caller in place.                                 *)
LEMMA ProcsStep == TInv /\ [Next]_vars => ProcsOK'
<1> SUFFICES ASSUME TInv, [Next]_vars PROVE ProcsOK'
  OBVIOUS
<1>1. ASSUME NEW c \in Callers, Proceed(c) PROVE ProcsOK'
  BY <1>1, ProcsOfSet, ProcsOfMove, ProcsOfPopulation, ProcsOfReads DEF Proceed
<1>2. ASSUME NEW c \in Callers, Begin(c) PROVE ProcsOK'
  BY <1>2, ProcsOfSet, ProcsOfMove, ProcsOfPopulation, ProcsOfReads DEF Begin
<1>3. ASSUME NEW c \in Callers, Cancel(c) PROVE ProcsOK'
  BY <1>3, ProcsOfMove
<1>4. ElapseTtl \/ UNCHANGED vars \/ (\E r \in BoundRung : RungLoses(r)) => ProcsOK'
  BY DEF ElapseTtl, vars, RungLoses, TInv, ProcsOK
<1> QED BY <1>1, <1>2, <1>3, <1>4 DEF Next

(* At the start nothing runs and the rungs are empty.                      *)
LEMMA InitHasTypes == Init => TInv
<1> SUFFICES ASSUME Init PROVE TInv
  OBVIOUS
<1>1. ProcsOK
  BY IdleIsGood DEF Init, ProcsOK
<1>2. EntryOK
  <2>1. entry.state = "Absent"
    BY DEF Init, NewEntry
  <2>2. entry \in Entry
    BY Rungs DEF Init, NewEntry, NoIntent, Entry, Intent, State, ErrorCode, IntentKind
  <2> QED BY <2>1, <2>2 DEF EntryOK, ReadyIsBound
<1>3. RestOK
  BY ThresholdIsPositive, MaxValuesIsNat, SMT
     DEF Init, LadderInit, RestOK, LadderTypeOK, NoValue, Value
<1> QED BY <1>1, <1>2, <1>3 DEF TInv

-----------------------------------------------------------------------------
(* In every reachable state every caller works at a rung its operation may *)
(* touch, and a Ready entry names a bound rung.                            *)
THEOREM Invariance == Spec => []TInv
<1>1. TInv /\ [Next]_vars => TInv'
  BY ProcsStep, EntryStep, RestStep DEF TInv
<1> QED BY <1>1, InitHasTypes, PTL DEF Spec

(* The variables keep their types.                                         *)
THEOREM TypeCorrectness == Spec => []TypeOK
<1>1. TInv => TypeOK
  BY DEF TInv, ProcsOK, Good, EntryOK, RestOK, TypeOK
<1> QED BY <1>1, Invariance, PTL

(* No step changes the record of truth: what the manager writes, removes,  *)
(* moves, evicts or compensates for is at a cache rung, whatever the       *)
(* policies name and whatever fails.                                       *)
THEOREM AuthorityIsUntouched == Spec => AuthorityUntouched
<1>1. ASSUME TInv, [Next]_vars
      PROVE  [(AuthorityRung \in BoundRung => data'[AuthorityRung] = data[AuthorityRung])]_vars
  <2> DEFINE Same == data'[AuthorityRung] = data[AuthorityRung]
  <2>0. data \in [BoundRung -> Value \cup {NoValue, Truth}]
    BY <1>1 DEF TInv, RestOK, LadderTypeOK
  <2>A. \A r \in CacheRung : r # AuthorityRung
    BY Rungs
  <2>U. data' = data => Same
    OBVIOUS
  <2>E. ASSUME NEW r \in CacheRung, NEW v, data' = [data EXCEPT ![r] = v], AuthorityRung \in BoundRung
        PROVE  Same
    BY <2>E, <2>0, <2>A
  <2>1. ASSUME NEW c \in Callers, Proceed(c), AuthorityRung \in BoundRung PROVE Same
    <3>0. InPlace(proc[c])
      BY <1>1 DEF TInv, ProcsOK, Good
    <3>1. CASE Write(c)
      <4>1. proc[c].rung \in CacheRung
        BY <3>1, <3>0 DEF Write, At, InPlace
      <4> QED BY <3>1, <4>1, <2>1, <2>U, <2>E DEF Write, TierSet, TierSetFails
    <3>2. CASE Compensate(c) \/ Undo(c)
      <4>1. proc[c].rung \in CacheRung
        BY <3>2, <3>0 DEF Compensate, Undo, At, InPlace
      <4> QED BY <3>2, <4>1, <2>1, <2>U, <2>E DEF Compensate, Undo, TierRemove
    <3>3. CASE DropSlot(c)
      <4>1. proc[c].rung \in CacheRung
        BY <3>3, <3>0 DEF DropSlot, At, InPlace
      <4> QED BY <3>3, <4>1, <2>1, <2>E DEF DropSlot
    <3>4. CASE Unload(c)
      <4>1. proc[c].want \in CacheRung
        BY <3>4, <3>0 DEF Unload, At, InPlace
      <4> QED BY <3>4, <4>1, <2>1, <2>U, <2>E DEF Unload
    <3>5. CASE Clear(c)
      BY <3>5, <2>1, <2>U, <2>E DEF Clear, Clearable, TierRemove, ladderVars
    <3>6. CASE Prepare(c) \/ SetRefused(c) \/ Reclaim(c) \/ Yield(c) \/ Load(c)
            \/ MoveRefused(c) \/ Keep(c) \/ MarkStale(c) \/ Reacquire(c)
      BY <3>6, <2>U DEF Prepare, SetRefused, Reclaim, Yield, Load, MoveRefused, Keep, MarkStale,
                        Reacquire, ladderVars
    <3>7. CASE Fetch(c) \/ PopulationRefused(c) \/ Scan(c) \/ Lookup(c) \/ Recheck(c)
            \/ WaitOver(c) \/ Serve(c)
      BY <3>7, <2>U DEF Fetch, PopulationRefused, Scan, Lookup, Recheck, WaitOver, Serve, ladderVars
    <3>8. ASSUME NEW ttl \in Ttls, Commit(c, ttl) \/ Settle(c, ttl) \/ Publish(c, ttl) PROVE Same
      BY <3>8, <2>U DEF Commit, Settle, Publish, ladderVars
    <3> QED BY <2>1, <3>1, <3>2, <3>3, <3>4, <3>5, <3>6, <3>7, <3>8 DEF Proceed
  <2>2. ASSUME NEW c \in Callers, Begin(c) \/ Cancel(c) PROVE Same
    BY <2>2, <2>U DEF Begin, Cancel, SetBegin, MoveBegin, FetchBegin, RefreshBegin, GetBegin,
                      RemoveBegin, Invalidate, ladderVars
  <2>3. ASSUME NEW r \in BoundRung, RungLoses(r), AuthorityRung \in BoundRung PROVE Same
    BY <2>3, <2>E DEF RungLoses, Lose
  <2>4. ElapseTtl \/ UNCHANGED vars => Same
    BY <2>U DEF ElapseTtl, vars, ladderVars
  <2> QED BY <1>1, <2>1, <2>2, <2>3, <2>4 DEF Next
<1> QED BY <1>1, Invariance, PTL DEF Spec, AuthorityUntouched

-----------------------------------------------------------------------------
(* Operations end.                                                         *)

(* How often an operation may try.                                         *)
Attempts(op) == IF op = "set" THEN MaxCommitAttempts ELSE MaxPopulateAttempts

Reclaiming == {"reclaim", "dropslot"}

(* The rungs an operation may still come to.  set walks down the ladder    *)
(* and then reclaims; remove, and the search for a fallback, walk up it.   *)
Walk(p) ==
  CASE p.op = "set"            -> IF p.pc \in Reclaiming THEN 0 ELSE p.rung + 1
    [] p.pc \in {"scan", "clear"} -> AuthorityRung - p.rung
    [] OTHER                   -> AuthorityRung + 1

(* How far from its end an operation is at a rung.                         *)
Stage(pc) ==
  CASE pc \in {"keep", "keepmark", "yield"}                -> 12
    [] pc = "stale"                                        -> 11
    [] pc \in {"prepare", "reacquire"}                     -> 10
    [] pc \in {"load", "lookup", "wait"}                   -> 9
    [] pc \in {"fetch", "recheck", "serve"}                -> 8
    [] pc = "write"                                        -> 7
    [] pc \in {"compensate", "commit", "unload", "publish"} -> 6
    [] pc = "settle"                                       -> 5
    [] pc = "undo"                                         -> 4
    [] pc = "refused"                                      -> 3
    [] pc \in {"reclaim", "scan", "clear"}                 -> 2
    [] OTHER                                               -> 1

(* From p to q an operation comes nearer to its end: it uses up one of its *)
(* passes; or, in the same pass, a rung; at the same rung, an attempt; in  *)
(* the same attempt, a stage.                                              *)
Nearer(p, q) ==
  \/ p.passes < q.passes /\ q.passes <= MaxEvictionPasses
  \/ /\ q.passes = p.passes
     /\ \/ Walk(q) < Walk(p)
        \/ Walk(q) = Walk(p) /\ p.tries < q.tries /\ q.tries < Attempts(p.op)
        \/ Walk(q) = Walk(p) /\ q.tries = p.tries /\ Stage(q.pc) < Stage(p.pc)

(* The slot that a set reserved was emptied by another before it came.     *)
(* Reclaim does not count the nominations that the code then has left.     *)
SlotWasTaken(c) == At(c, "dropslot", {"set"}) /\ data[proc[c].rung] = NoValue

(* Each step of an operation ends it or brings it nearer to its end, but   *)
(* for the one where another emptied the slot that set had reserved.  What *)
(* it uses up is finite: passes and attempts have their limits, the ladder *)
(* and the stages their ends.                                              *)
StepsRunOut ==
  [][\A c \in Callers : proc[c].pc # "idle" =>
       \/ proc'[c] = Idle
       \/ Nearer(proc[c], proc'[c]) /\ Walk(proc'[c]) \in 0 .. AuthorityRung + 1
       \/ SlotWasTaken(c)
       \/ proc'[c] = proc[c] /\ ~Proceed(c)]_vars

(* What a step may do to the operation of its caller.                      *)
Closer(c) == proc'[c] = Idle \/ Nearer(proc[c], proc'[c]) \/ SlotWasTaken(c)

(* The stages in numbers.                                                  *)
LEMMA Stages ==
  /\ \A pc \in {"keep", "keepmark", "yield"} : Stage(pc) = 12
  /\ Stage("stale") = 11
  /\ \A pc \in {"prepare", "reacquire"} : Stage(pc) = 10
  /\ \A pc \in {"load", "lookup", "wait"} : Stage(pc) = 9
  /\ \A pc \in {"fetch", "recheck", "serve"} : Stage(pc) = 8
  /\ Stage("write") = 7
  /\ \A pc \in {"compensate", "commit", "unload", "publish"} : Stage(pc) = 6
  /\ Stage("settle") = 5 /\ Stage("undo") = 4 /\ Stage("refused") = 3
  /\ Stage("reclaim") = 2 /\ Stage("dropslot") = 1
BY SMT DEF Stage

(* A step to a later stage of the same attempt comes nearer.               *)
LEMMA StageDown ==
  ASSUME NEW p, NEW q, q.op = p.op, q.passes = p.passes, q.tries = p.tries,
         {p.pc, q.pc} \cap {"scan", "clear"} = {},
         p.op = "set" => q.rung = p.rung /\ {p.pc, q.pc} \cap Reclaiming = {},
         Stage(q.pc) < Stage(p.pc)
  PROVE  Nearer(p, q)
<1>1. CASE p.op = "set"
  <2>1. Walk(q) = p.rung + 1 /\ Walk(p) = p.rung + 1
    BY <1>1 DEF Walk
  <2> QED BY <2>1 DEF Nearer
<1>2. CASE p.op # "set"
  <2>0. p.pc \notin {"scan", "clear"} /\ q.pc \notin {"scan", "clear"} /\ q.op # "set"
    BY <1>2
  <2>1. Walk(q) = AuthorityRung + 1 /\ Walk(p) = AuthorityRung + 1
    BY <1>2, <2>0 DEF Walk
  <2> QED BY <2>1 DEF Nearer
<1> QED BY <1>1, <1>2

(* The fields that a step of a caller keeps.                               *)
LEMMA Kept ==
  ASSUME ProcsOK, NEW c \in Callers
  PROVE  /\ \A q : Become(c, q) => proc'[c] = q
         /\ End(c) => proc'[c] = Idle
         /\ \A pc : Goto(c, pc) =>
              /\ proc'[c].pc = pc /\ proc'[c].op = proc[c].op /\ proc'[c].passes = proc[c].passes
              /\ proc'[c].tries = proc[c].tries /\ proc'[c].rung = proc[c].rung
<1>1. proc \in [Callers -> Proc]
  BY DEF ProcsOK, Good
<1>2. \A q : Become(c, q) => proc'[c] = q
  BY <1>1 DEF Become
<1>3. ASSUME NEW pc, Goto(c, pc)
      PROVE  /\ proc'[c].pc = pc /\ proc'[c].op = proc[c].op /\ proc'[c].passes = proc[c].passes
             /\ proc'[c].tries = proc[c].tries /\ proc'[c].rung = proc[c].rung
  <2> DEFINE q == [proc[c] EXCEPT !.pc = pc]
  <2>1. proc'[c] = q
    BY <1>1, <1>3 DEF Goto
  <2>2. /\ q.pc = pc /\ q.op = proc[c].op /\ q.passes = proc[c].passes
        /\ q.tries = proc[c].tries /\ q.rung = proc[c].rung
    BY <1>1 DEF Proc
  <2> HIDE DEF q
  <2> QED BY <2>1, <2>2
<1> QED BY <1>2, <1>3 DEF End

(* The steps of set: within an attempt; to the rung below; to another      *)
(* attempt; and to another pass.                                           *)
LEMMA SetRunsOut ==
  ASSUME TInv, NEW c \in Callers, proc[c].op = "set",
         \/ Prepare(c) \/ Write(c) \/ Compensate(c) \/ SetRefused(c) \/ Reclaim(c) \/ DropSlot(c)
         \/ Yield(c) \/ \E ttl \in Ttls : Commit(c, ttl)
  PROVE  Closer(c)
<1> DEFINE p == proc[c]
<1>0. p \in Proc /\ ProcsOK
  BY DEF TInv, ProcsOK, Good
<1>1. /\ p.rung \in Nat /\ p.tries \in Nat /\ p.passes \in 0..MaxEvictionPasses
      /\ MaxEvictionPasses \in Nat
  BY <1>0, BoundsAreNat, SMT DEF Proc, Rung
<1>2. /\ \A q : Become(c, q) => proc'[c] = q
      /\ End(c) => proc'[c] = Idle
      /\ \A pc : Goto(c, pc) =>
           /\ proc'[c].pc = pc /\ proc'[c].op = "set" /\ proc'[c].passes = p.passes
           /\ proc'[c].tries = p.tries /\ proc'[c].rung = p.rung
  BY <1>0, Kept
<1>3. ASSUME NEW q, q.op = "set", q.passes = p.passes, q.tries = p.tries, q.rung = p.rung,
             {p.pc, q.pc} \cap {"scan", "clear", "reclaim", "dropslot"} = {},
             Stage(q.pc) < Stage(p.pc)
      PROVE  Nearer(p, q)
  BY <1>3, StageDown DEF Reclaiming
<1>4. CASE Prepare(c)
  <2> DEFINE q == [p EXCEPT !.pc = "write", !.gen = entry.generation]
  <2>1. proc'[c] = q
    BY <1>2, <1>4 DEF Prepare
  <2>2. q.pc = "write" /\ q.op = "set" /\ q.passes = p.passes /\ q.tries = p.tries /\ q.rung = p.rung
    BY <1>0 DEF Proc
  <2>3. p.pc = "prepare"
    BY <1>4 DEF Prepare, At
  <2> HIDE DEF q
  <2>4. Stage(q.pc) < Stage(p.pc)
    BY <2>2, <2>3, Stages, SMT
  <2> QED BY <1>3, <2>1, <2>2, <2>3, <2>4 DEF Closer
<1>5. CASE Write(c)
  <2>0. p.pc = "write"
    BY <1>5 DEF Write, At
  <2>1. CASE Goto(c, "commit")
    <3>1. Stage("commit") < Stage("write")
      BY Stages, SMT
    <3>2. /\ proc'[c].pc = "commit" /\ proc'[c].op = "set" /\ proc'[c].passes = p.passes
          /\ proc'[c].tries = p.tries /\ proc'[c].rung = p.rung
      BY <1>2, <2>1
    <3> QED BY <1>3, <2>0, <3>1, <3>2 DEF Closer
  <2>2. ASSUME NEW err, NEW pc \in {"compensate", "refused"}, Become(c, [p EXCEPT !.err = err, !.pc = pc])
        PROVE  Closer(c)
    <3> DEFINE q == [p EXCEPT !.err = err, !.pc = pc]
    <3>1. q.pc = pc /\ q.op = "set" /\ q.passes = p.passes /\ q.tries = p.tries /\ q.rung = p.rung
      BY <1>0 DEF Proc
    <3>2. proc'[c] = q
      BY <1>2, <2>2
    <3> HIDE DEF q
    <3>3. Stage(q.pc) < Stage(p.pc)
      BY <2>0, <2>2, <3>1, Stages, SMT
    <3> QED BY <1>3, <2>0, <3>1, <3>2, <3>3 DEF Closer
  <2>3. Goto(c, "commit") \/ \E err : \E pc \in {"compensate", "refused"} :
                                         Become(c, [p EXCEPT !.err = err, !.pc = pc])
    BY <1>5 DEF Write, AfterWrite
  <2> QED BY <2>1, <2>2, <2>3
<1>6. CASE Compensate(c)
  <2>1. p.pc = "compensate" /\ Goto(c, "refused")
    BY <1>6 DEF Compensate, At
  <2>2. Stage("refused") < Stage("compensate")
    BY Stages, SMT
  <2>3. /\ proc'[c].pc = "refused" /\ proc'[c].op = "set" /\ proc'[c].passes = p.passes
        /\ proc'[c].tries = p.tries /\ proc'[c].rung = p.rung
    BY <1>2, <2>1
  <2> QED BY <1>3, <2>1, <2>2, <2>3 DEF Closer
<1>7. CASE SetRefused(c)
  <2>0. p.pc = "refused" /\ Walk(p) = p.rung + 1
    BY <1>7 DEF SetRefused, At, Walk, Reclaiming
  <2>1. CASE End(c)
    BY <1>2, <2>1 DEF Closer
  <2>2. CASE p.rung > 0 /\ Become(c, [p EXCEPT !.pc = "prepare", !.rung = p.rung - 1, !.tries = 0])
    <3> DEFINE q == [p EXCEPT !.pc = "prepare", !.rung = p.rung - 1, !.tries = 0]
    <3>1. q.pc = "prepare" /\ q.op = "set" /\ q.passes = p.passes /\ q.rung = p.rung - 1
      BY <1>0 DEF Proc
    <3>2. proc'[c] = q
      BY <1>2, <2>2
    <3> HIDE DEF q
    <3>3. Walk(q) = (p.rung - 1) + 1
      BY <3>1 DEF Walk, Reclaiming
    <3>4. Walk(q) < Walk(p)
      BY <1>1, <2>0, <3>3, SMT
    <3> QED BY <3>1, <3>2, <3>4 DEF Closer, Nearer
  <2>3. CASE Goto(c, "reclaim")
    <3>0. proc'[c].pc = "reclaim" /\ proc'[c].op = "set"
      BY <1>2, <2>3
    <3>1. Walk(proc'[c]) = 0
      BY <3>0 DEF Walk, Reclaiming
    <3>2. Walk(proc'[c]) < Walk(p)
      BY <1>1, <2>0, <3>1, SMT
    <3> QED BY <1>2, <2>3, <3>2 DEF Closer, Nearer
  <2> QED BY <1>7, <2>1, <2>2, <2>3 DEF SetRefused
<1>8. ASSUME NextPass(c) PROVE Closer(c)
  <2> DEFINE q == [p EXCEPT !.pc = "prepare", !.rung = NearestBound(p.want), !.tries = 0,
                            !.passes = p.passes + 1]
  <2>1. CASE End(c)
    BY <1>2, <2>1 DEF Closer
  <2>2. CASE p.passes # MaxEvictionPasses /\ Become(c, q)
    <3>1. q.passes = p.passes + 1
      BY <1>0 DEF Proc
    <3>2. proc'[c] = q
      BY <1>2, <2>2
    <3> HIDE DEF q
    <3>3. p.passes < q.passes /\ q.passes <= MaxEvictionPasses
      BY <1>1, <2>2, <3>1, SMT
    <3> QED BY <3>2, <3>3 DEF Closer, Nearer
  <2> QED BY <1>8, <2>1, <2>2 DEF NextPass
<1>9. CASE Reclaim(c)
  <2>1. CASE End(c)
    BY <1>2, <2>1 DEF Closer
  <2>2. ASSUME NEW r, Become(c, [p EXCEPT !.pc = "dropslot", !.rung = r])
        PROVE  Closer(c)
    <3> DEFINE q == [p EXCEPT !.pc = "dropslot", !.rung = r]
    <3>1. q.pc = "dropslot" /\ q.op = "set" /\ q.passes = p.passes /\ q.tries = p.tries
      BY <1>0 DEF Proc
    <3>2. proc'[c] = q /\ p.pc = "reclaim"
      BY <1>2, <1>9, <2>2 DEF Reclaim, At
    <3> HIDE DEF q
    <3>3. Walk(q) = 0 /\ Walk(p) = 0
      BY <3>1, <3>2 DEF Walk, Reclaiming
    <3>4. Stage(q.pc) < Stage(p.pc)
      BY <3>1, <3>2, Stages, SMT
    <3> QED BY <3>1, <3>2, <3>3, <3>4 DEF Closer, Nearer
  <2> QED BY <1>8, <1>9, <2>1, <2>2 DEF Reclaim
<1>10. CASE DropSlot(c)
  BY <1>8, <1>10 DEF DropSlot, Closer, SlotWasTaken
<1>11. CASE Yield(c)
  <2>1. p.pc = "yield" /\ Goto(c, "prepare")
    BY <1>11 DEF Yield, At
  <2>2. Stage("prepare") < Stage("yield")
    BY Stages, SMT
  <2>3. /\ proc'[c].pc = "prepare" /\ proc'[c].op = "set" /\ proc'[c].passes = p.passes
        /\ proc'[c].tries = p.tries /\ proc'[c].rung = p.rung
    BY <1>2, <2>1
  <2> QED BY <1>3, <2>1, <2>2, <2>3 DEF Closer
<1>12. ASSUME NEW ttl \in Ttls, Commit(c, ttl) PROVE Closer(c)
  <2>1. CASE End(c)
    BY <1>2, <2>1 DEF Closer
  <2>2. CASE /\ p.tries + 1 < MaxCommitAttempts
             /\ Become(c, [p EXCEPT !.pc = "yield", !.tries = p.tries + 1])
    <3> DEFINE q == [p EXCEPT !.pc = "yield", !.tries = p.tries + 1]
    <3>1. /\ q.pc = "yield" /\ q.op = "set" /\ q.passes = p.passes /\ q.rung = p.rung
          /\ q.tries = p.tries + 1
      BY <1>0 DEF Proc
    <3>2. proc'[c] = q /\ p.pc = "commit"
      BY <1>2, <1>12, <2>2 DEF Commit, At
    <3> HIDE DEF q
    <3>3. Walk(q) = p.rung + 1 /\ Walk(p) = p.rung + 1
      BY <3>1, <3>2 DEF Walk, Reclaiming
    <3>4. p.tries < q.tries /\ q.tries < MaxCommitAttempts
      BY <1>1, <2>2, <3>1, SMT
    <3> QED BY <3>1, <3>2, <3>3, <3>4 DEF Closer, Nearer, Attempts
  <2> QED BY <1>12, <2>1, <2>2 DEF Commit
<1> QED BY <1>4, <1>5, <1>6, <1>7, <1>9, <1>10, <1>11, <1>12

(* The steps of a move, which tries once.                                  *)
LEMMA MoveRunsOut ==
  ASSUME TInv, NEW c \in Callers, proc[c].op = "move",
         \/ Prepare(c) \/ Write(c) \/ Load(c) \/ Unload(c) \/ Undo(c) \/ MoveRefused(c)
         \/ \E ttl \in Ttls : Settle(c, ttl)
  PROVE  Closer(c)
<1> DEFINE p == proc[c]
           Follows(q, pc) == q.pc = pc /\ q.op = "move" /\ q.passes = p.passes /\ q.tries = p.tries
<1>0. p \in Proc /\ ProcsOK
  BY DEF TInv, ProcsOK, Good
<1>1. /\ \A q : Become(c, q) => proc'[c] = q
      /\ End(c) => proc'[c] = Idle
      /\ \A pc : Goto(c, pc) => Follows(proc'[c], pc)
  BY <1>0, Kept
<1>2. ASSUME NEW pc, Follows(proc'[c], pc), {p.pc, pc} \cap {"scan", "clear"} = {},
             Stage(pc) < Stage(p.pc)
      PROVE  Closer(c)
  <2>1. Nearer(p, proc'[c])
    BY <1>2, StageDown
  <2> QED BY <2>1 DEF Closer
<1>3. CASE Prepare(c)
  <2> DEFINE q == [p EXCEPT !.pc = "load", !.gen = entry.generation]
  <2>1. proc'[c] = q /\ p.pc = "prepare"
    BY <1>1, <1>3 DEF Prepare, At
  <2>2. Follows(q, "load")
    BY <1>0 DEF Proc
  <2> HIDE DEF q
  <2>3. Stage("load") < Stage("prepare")
    BY Stages, SMT
  <2> QED BY <1>2, <2>1, <2>2, <2>3
<1>4. CASE Write(c)
  <2>0. p.pc = "write" /\ Stage("unload") < Stage("write") /\ Stage("refused") < Stage("write")
    <3>1. p.pc = "write"
      BY <1>4 DEF Write, At
    <3>2. Stage("unload") < Stage("write") /\ Stage("refused") < Stage("write")
      BY Stages, SMT
    <3> QED BY <3>1, <3>2
  <2>1. CASE Goto(c, "unload")
    <3>1. Follows(proc'[c], "unload")
      BY <1>1, <2>1
    <3> QED BY <1>2, <2>0, <3>1
  <2>2. ASSUME NEW err, Become(c, [p EXCEPT !.err = err, !.pc = "refused"])
        PROVE  Closer(c)
    <3> DEFINE q == [p EXCEPT !.err = err, !.pc = "refused"]
    <3>1. Follows(q, "refused")
      BY <1>0 DEF Proc
    <3>2. proc'[c] = q
      BY <1>1, <2>2
    <3> HIDE DEF q
    <3> QED BY <1>2, <2>0, <3>1, <3>2
  <2>3. Goto(c, "unload") \/ \E err : Become(c, [p EXCEPT !.err = err, !.pc = "refused"])
    BY <1>4 DEF Write, AfterWrite
  <2> QED BY <2>1, <2>2, <2>3
<1>5. CASE Load(c)
  <2>0. p.pc = "load" /\ Stage("write") < Stage("load") /\ Stage("refused") < Stage("load")
    <3>1. p.pc = "load"
      BY <1>5 DEF Load, At
    <3>2. Stage("write") < Stage("load") /\ Stage("refused") < Stage("load")
      BY Stages, SMT
    <3> QED BY <3>1, <3>2
  <2>1. ASSUME NEW err, Become(c, [p EXCEPT !.pc = "refused", !.err = err])
        PROVE  Closer(c)
    <3> DEFINE q == [p EXCEPT !.pc = "refused", !.err = err]
    <3>1. Follows(q, "refused")
      BY <1>0 DEF Proc
    <3>2. proc'[c] = q
      BY <1>1, <2>1
    <3> HIDE DEF q
    <3> QED BY <1>2, <2>0, <3>1, <3>2
  <2>2. ASSUME NEW v, Become(c, [p EXCEPT !.pc = "write", !.val = v])
        PROVE  Closer(c)
    <3> DEFINE q == [p EXCEPT !.pc = "write", !.val = v]
    <3>1. Follows(q, "write")
      BY <1>0 DEF Proc
    <3>2. proc'[c] = q
      BY <1>1, <2>2
    <3> HIDE DEF q
    <3> QED BY <1>2, <2>0, <3>1, <3>2
  <2> QED BY <1>5, <2>1, <2>2 DEF Load
<1>6. ASSUME NEW from \in {"unload", "undo"}, NEW to \in {"settle", "refused"}, p.pc = from,
             Goto(c, to), Stage(to) < Stage(from)
      PROVE  Closer(c)
  <2>1. Follows(proc'[c], to)
    BY <1>1, <1>6
  <2> QED BY <1>2, <1>6, <2>1
<1>7. CASE Unload(c)
  <2>1. p.pc = "unload" /\ Goto(c, "settle")
    BY <1>7 DEF Unload, At
  <2>2. Stage("settle") < Stage("unload")
    BY Stages, SMT
  <2> QED BY <1>6, <2>1, <2>2
<1>8. CASE Undo(c)
  <2>1. p.pc = "undo" /\ Goto(c, "refused")
    BY <1>8 DEF Undo, At
  <2>2. Stage("refused") < Stage("undo")
    BY Stages, SMT
  <2> QED BY <1>6, <2>1, <2>2
<1>9. CASE MoveRefused(c)
  BY <1>1, <1>9 DEF MoveRefused, Closer
<1>10. ASSUME NEW ttl \in Ttls, Settle(c, ttl) PROVE Closer(c)
  <2>1. CASE End(c)
    BY <1>1, <2>1 DEF Closer
  <2>2. CASE Become(c, [p EXCEPT !.pc = "undo", !.err = "StaleGeneration"])
    <3> DEFINE q == [p EXCEPT !.pc = "undo", !.err = "StaleGeneration"]
    <3>1. Follows(q, "undo")
      BY <1>0 DEF Proc
    <3>2. proc'[c] = q /\ p.pc = "settle"
      BY <1>1, <1>10, <2>2 DEF Settle, At
    <3> HIDE DEF q
    <3>3. Stage("undo") < Stage("settle")
      BY Stages, SMT
    <3> QED BY <1>2, <3>1, <3>2, <3>3
  <2> QED BY <1>10, <2>1, <2>2 DEF Settle
<1> QED BY <1>3, <1>4, <1>5, <1>7, <1>8, <1>9, <1>10

(* The steps of a population: from stage to stage, to another attempt, and *)
(* along the ladder for a fallback.                                        *)
LEMMA PopulationRunsOut ==
  ASSUME TInv, NEW c \in Callers, proc[c].op \in Populating,
         \/ Write(c) \/ Keep(c) \/ MarkStale(c) \/ Reacquire(c) \/ Fetch(c)
         \/ PopulationRefused(c) \/ Scan(c) \/ \E ttl \in Ttls : Publish(c, ttl)
  PROVE  Closer(c)
<1> DEFINE p == proc[c]
           Follows(q, pc) == q.pc = pc /\ q.op = p.op /\ q.passes = p.passes /\ q.tries = p.tries
<1>0. p \in Proc /\ ProcsOK /\ p.op # "set" /\ p.op \notin {"move", "get", "remove"}
  BY DEF TInv, ProcsOK, Good, Populating
<1>1. /\ \A q : Become(c, q) => proc'[c] = q
      /\ End(c) => proc'[c] = Idle
      /\ \A pc : Goto(c, pc) => Follows(proc'[c], pc)
  BY <1>0, Kept
<1>2. ASSUME NEW pc, Follows(proc'[c], pc), {p.pc, pc} \cap {"scan", "clear"} = {},
             Stage(pc) < Stage(p.pc)
      PROVE  Closer(c)
  <2>1. Nearer(p, proc'[c])
    BY <1>0, <1>2, StageDown
  <2> QED BY <2>1 DEF Closer
<1>3a. ASSUME NEW pc, Become(c, [p EXCEPT !.pc = pc])
      PROVE  Follows(proc'[c], pc)
  <2> DEFINE q == [p EXCEPT !.pc = pc]
  <2>1. Follows(q, pc)
    BY <1>0 DEF Proc
  <2>2. proc'[c] = q
    BY <1>1, <1>3a
  <2> HIDE DEF q
  <2> QED BY <2>1, <2>2
<1>3b. ASSUME NEW pc, NEW g, Become(c, [p EXCEPT !.pc = pc, !.gen = g])
      PROVE  Follows(proc'[c], pc)
  <2> DEFINE q == [p EXCEPT !.pc = pc, !.gen = g]
  <2>1. Follows(q, pc)
    BY <1>0 DEF Proc
  <2>2. proc'[c] = q
    BY <1>1, <1>3b
  <2> HIDE DEF q
  <2> QED BY <2>1, <2>2
<1>3c. ASSUME NEW pc, NEW g, NEW r, Become(c, [p EXCEPT !.pc = pc, !.gen = g, !.rung = r])
      PROVE  Follows(proc'[c], pc)
  <2> DEFINE q == [p EXCEPT !.pc = pc, !.gen = g, !.rung = r]
  <2>1. Follows(q, pc)
    BY <1>0 DEF Proc
  <2>2. proc'[c] = q
    BY <1>1, <1>3c
  <2> HIDE DEF q
  <2> QED BY <2>1, <2>2
<1>3d. ASSUME NEW pc, NEW v, NEW r, Become(c, [p EXCEPT !.pc = pc, !.val = v, !.rung = r])
      PROVE  Follows(proc'[c], pc)
  <2> DEFINE q == [p EXCEPT !.pc = pc, !.val = v, !.rung = r]
  <2>1. Follows(q, pc)
    BY <1>0 DEF Proc
  <2>2. proc'[c] = q
    BY <1>1, <1>3d
  <2> HIDE DEF q
  <2> QED BY <2>1, <2>2
<1>3e. ASSUME NEW pc, NEW err, Become(c, [p EXCEPT !.pc = pc, !.err = err])
      PROVE  Follows(proc'[c], pc)
  <2> DEFINE q == [p EXCEPT !.pc = pc, !.err = err]
  <2>1. Follows(q, pc)
    BY <1>0 DEF Proc
  <2>2. proc'[c] = q
    BY <1>1, <1>3e
  <2> HIDE DEF q
  <2> QED BY <2>1, <2>2
<1>3f. ASSUME NEW pc, NEW err, Become(c, [p EXCEPT !.err = err, !.pc = pc])
      PROVE  Follows(proc'[c], pc)
  <2> DEFINE q == [p EXCEPT !.err = err, !.pc = pc]
  <2>1. Follows(q, pc)
    BY <1>0 DEF Proc
  <2>2. proc'[c] = q
    BY <1>1, <1>3f
  <2> HIDE DEF q
  <2> QED BY <2>1, <2>2
<1>4. CASE Write(c)
  <2>1. p.pc = "write"
    BY <1>4 DEF Write, At
  <2>2. Goto(c, "publish") \/ \E err : Become(c, [p EXCEPT !.err = err, !.pc = "refused"])
    BY <1>0, <1>4 DEF Write, AfterWrite
  <2>3. Follows(proc'[c], "publish") \/ Follows(proc'[c], "refused")
    BY <1>1, <1>3f, <2>2
  <2>4. Stage("publish") < Stage("write") /\ Stage("refused") < Stage("write")
    BY Stages, SMT
  <2> QED BY <1>2, <2>1, <2>3, <2>4
<1>5. CASE Keep(c)
  <2>1. \/ p.pc = "keep" /\ Goto(c, "reacquire")
        \/ p.pc = "keepmark" /\ Goto(c, "stale")
    BY <1>5 DEF Keep, At
  <2>2. \/ p.pc = "keep" /\ Follows(proc'[c], "reacquire")
        \/ p.pc = "keepmark" /\ Follows(proc'[c], "stale")
    BY <1>1, <2>1
  <2>3. Stage("reacquire") < Stage("keep") /\ Stage("stale") < Stage("keepmark")
    BY Stages, SMT
  <2> QED BY <1>2, <2>2, <2>3
<1>6. CASE MarkStale(c)
  <2>1. p.pc = "stale" /\ Goto(c, "reacquire")
    BY <1>0, <1>6 DEF MarkStale, At
  <2>2. Follows(proc'[c], "reacquire")
    BY <1>1, <2>1
  <2>3. Stage("reacquire") < Stage("stale")
    BY Stages, SMT
  <2> QED BY <1>2, <2>1, <2>2, <2>3
<1>7. CASE Reacquire(c)
  <2>1. p.pc = "reacquire" /\ Acquired(c, p)
    BY <1>7 DEF Reacquire, At
  <2>2. \/ End(c)
        \/ \E g : Become(c, [p EXCEPT !.pc = "fetch", !.gen = g])
        \/ Become(c, [p EXCEPT !.pc = "wait"])
        \/ \E g, r : Become(c, [p EXCEPT !.pc = "lookup", !.gen = g, !.rung = r])
    BY <2>1 DEF Acquired
  <2>3. proc'[c] = Idle \/ \E pc \in {"fetch", "wait", "lookup"} : Follows(proc'[c], pc)
    BY <1>1, <1>3a, <1>3b, <1>3c, <2>2
  <2>4. \A pc \in {"fetch", "wait", "lookup"} : Stage(pc) < Stage("reacquire")
    BY Stages, SMT
  <2> QED BY <1>2, <2>1, <2>3, <2>4 DEF Closer
<1>8. CASE Fetch(c)
  <2>1. p.pc = "fetch"
    BY <1>8 DEF Fetch, At
  <2>2. \/ \E v, r : Become(c, [p EXCEPT !.pc = "write", !.val = v, !.rung = r])
        \/ \E err : Become(c, [p EXCEPT !.pc = "refused", !.err = err])
    BY <1>8 DEF Fetch
  <2>3. Follows(proc'[c], "write") \/ Follows(proc'[c], "refused")
    BY <1>3d, <1>3e, <2>2
  <2>4. Stage("write") < Stage("fetch") /\ Stage("refused") < Stage("fetch")
    BY Stages, SMT
  <2> QED BY <1>2, <2>1, <2>3, <2>4
<1>9. ASSUME NEW ttl \in Ttls, Publish(c, ttl) PROVE Closer(c)
  <2>1. p.pc = "publish"
    BY <1>9 DEF Publish, At
  <2>2. End(c) \/ \E err : Become(c, [p EXCEPT !.pc = "refused", !.err = err])
    BY <1>9 DEF Publish
  <2>3. proc'[c] = Idle \/ Follows(proc'[c], "refused")
    BY <1>1, <1>3e, <2>2
  <2>4. Stage("refused") < Stage("publish")
    BY Stages, SMT
  <2> QED BY <1>2, <2>1, <2>3, <2>4 DEF Closer
<1>10. CASE PopulationRefused(c)
  <2>0. p.pc = "refused" /\ Walk(p) = AuthorityRung + 1
    BY <1>0, <1>10 DEF PopulationRefused, At, Walk
  <2>1. CASE End(c)
    BY <1>1, <2>1 DEF Closer
  <2>2. CASE /\ p.tries + 1 < MaxPopulateAttempts
             /\ Become(c, [p EXCEPT !.pc = "fetch", !.tries = p.tries + 1])
    <3> DEFINE q == [p EXCEPT !.pc = "fetch", !.tries = p.tries + 1]
    <3>1. q.pc = "fetch" /\ q.op = p.op /\ q.passes = p.passes /\ q.tries = p.tries + 1
      BY <1>0 DEF Proc
    <3>2. proc'[c] = q
      BY <1>1, <2>2
    <3> HIDE DEF q
    <3>3. Walk(q) = AuthorityRung + 1
      BY <1>0, <3>1 DEF Walk
    <3>4. p.tries \in Nat
      BY <1>0 DEF Proc
    <3>5. p.tries < q.tries /\ q.tries < MaxPopulateAttempts
      BY <2>2, <3>1, <3>4, SMT
    <3> QED BY <1>0, <2>0, <3>1, <3>2, <3>3, <3>5 DEF Closer, Nearer, Attempts
  <2>3. CASE Become(c, [p EXCEPT !.pc = "scan", !.rung = 0])
    <3> DEFINE q == [p EXCEPT !.pc = "scan", !.rung = 0]
    <3>1. q.pc = "scan" /\ q.op = p.op /\ q.passes = p.passes /\ q.rung = 0
      BY <1>0 DEF Proc
    <3>2. proc'[c] = q
      BY <1>1, <2>3
    <3> HIDE DEF q
    <3>3. Walk(q) = AuthorityRung - 0
      BY <1>0, <3>1 DEF Walk
    <3>4. Walk(q) < Walk(p)
      BY <2>0, <3>3, SMT DEF AuthorityRung
    <3> QED BY <3>1, <3>2, <3>4 DEF Closer, Nearer
  <2> QED BY <1>10, <2>1, <2>2, <2>3 DEF PopulationRefused
<1>11. CASE Scan(c)
  <2>0. p.pc = "scan" /\ Walk(p) = AuthorityRung - p.rung
    BY <1>0, <1>11 DEF Scan, At, Walk
  <2>1. CASE End(c)
    BY <1>1, <2>1 DEF Closer
  <2>2. CASE Become(c, [p EXCEPT !.rung = p.rung + 1])
    <3> DEFINE q == [p EXCEPT !.rung = p.rung + 1]
    <3>1. q.pc = p.pc /\ q.op = p.op /\ q.passes = p.passes /\ q.rung = p.rung + 1
      BY <1>0 DEF Proc
    <3>2. proc'[c] = q
      BY <1>1, <2>2
    <3> HIDE DEF q
    <3>3. Walk(q) = AuthorityRung - (p.rung + 1)
      BY <1>0, <2>0, <3>1 DEF Walk
    <3>4. p.rung \in Rung
      BY <1>0 DEF Proc
    <3>5. Walk(q) < Walk(p)
      BY <2>0, <3>3, <3>4, SMT DEF AuthorityRung, Rung
    <3> QED BY <3>1, <3>2, <3>5 DEF Closer, Nearer
  <2> QED BY <1>11, <2>1, <2>2 DEF Scan
<1> QED BY <1>4, <1>5, <1>6, <1>7, <1>8, <1>9, <1>10, <1>11

(* The steps of a read and of remove, which walks the ladder.              *)
LEMMA ReadRunsOut ==
  ASSUME TInv, NEW c \in Callers,
         \/ Lookup(c) \/ Recheck(c) \/ WaitOver(c) \/ Serve(c) \/ Clear(c)
         \/ proc[c].op = "get" /\ MarkStale(c)
  PROVE  Closer(c)
<1> DEFINE p == proc[c]
           Follows(q, pc) == q.pc = pc /\ q.op = p.op /\ q.passes = p.passes /\ q.tries = p.tries
<1>0. p \in Proc /\ ProcsOK
  BY DEF TInv, ProcsOK, Good
<1>1. /\ \A q : Become(c, q) => proc'[c] = q
      /\ End(c) => proc'[c] = Idle
      /\ \A pc : Goto(c, pc) => Follows(proc'[c], pc)
  BY <1>0, Kept
<1>2. ASSUME NEW pc, p.op # "set", Follows(proc'[c], pc),
             {p.pc, pc} \cap {"scan", "clear"} = {}, Stage(pc) < Stage(p.pc)
      PROVE  Closer(c)
  <2>1. Nearer(p, proc'[c])
    BY <1>2, StageDown
  <2> QED BY <2>1 DEF Closer
<1>3. CASE Lookup(c)
  <2>1. p.pc = "lookup" /\ p.op # "set"
    BY <1>3 DEF Lookup, At
  <2>2. \/ End(c) \/ Goto(c, "fetch")
        \/ \E v : Become(c, [p EXCEPT !.pc = "recheck", !.val = v])
    BY <1>3 DEF Lookup
  <2>3. ASSUME NEW v, Become(c, [p EXCEPT !.pc = "recheck", !.val = v])
        PROVE  Follows(proc'[c], "recheck")
    <3> DEFINE q == [p EXCEPT !.pc = "recheck", !.val = v]
    <3>1. Follows(q, "recheck")
      BY <1>0 DEF Proc
    <3>2. proc'[c] = q
      BY <1>1, <2>3
    <3> HIDE DEF q
    <3> QED BY <3>1, <3>2
  <2>4. proc'[c] = Idle \/ Follows(proc'[c], "fetch") \/ Follows(proc'[c], "recheck")
    BY <1>1, <2>2, <2>3
  <2>5. Stage("fetch") < Stage("lookup") /\ Stage("recheck") < Stage("lookup")
    BY Stages, SMT
  <2> QED BY <1>2, <2>1, <2>4, <2>5 DEF Closer
<1>4. CASE WaitOver(c)
  <2>1. p.pc = "wait" /\ p.op # "set"
    BY <1>4 DEF WaitOver, At
  <2>2. End(c) \/ \E r : Become(c, [p EXCEPT !.pc = "serve", !.rung = r])
    BY <1>4 DEF WaitOver
  <2>3. ASSUME NEW r, Become(c, [p EXCEPT !.pc = "serve", !.rung = r])
        PROVE  Follows(proc'[c], "serve")
    <3> DEFINE q == [p EXCEPT !.pc = "serve", !.rung = r]
    <3>1. Follows(q, "serve")
      BY <1>0 DEF Proc
    <3>2. proc'[c] = q
      BY <1>1, <2>3
    <3> HIDE DEF q
    <3> QED BY <3>1, <3>2
  <2>4. proc'[c] = Idle \/ Follows(proc'[c], "serve")
    BY <1>1, <2>2, <2>3
  <2>5. Stage("serve") < Stage("wait")
    BY Stages, SMT
  <2> QED BY <1>2, <2>1, <2>4, <2>5 DEF Closer
<1>5. CASE Recheck(c) \/ Serve(c) \/ (p.op = "get" /\ MarkStale(c))
  BY <1>1, <1>5 DEF Recheck, Serve, MarkStale, Closer
<1>6. CASE Clear(c)
  <2>0. p.pc = "clear" /\ p.op = "remove" /\ Walk(p) = AuthorityRung - p.rung
    BY <1>6 DEF Clear, At, Walk
  <2>1. CASE End(c)
    BY <1>1, <2>1 DEF Closer
  <2>2. CASE Become(c, [p EXCEPT !.rung = p.rung + 1])
    <3> DEFINE q == [p EXCEPT !.rung = p.rung + 1]
    <3>1. q.pc = p.pc /\ q.op = p.op /\ q.passes = p.passes /\ q.rung = p.rung + 1
      BY <1>0 DEF Proc
    <3>2. proc'[c] = q
      BY <1>1, <2>2
    <3> HIDE DEF q
    <3>3. Walk(q) = AuthorityRung - (p.rung + 1)
      BY <2>0, <3>1 DEF Walk
    <3>4. p.rung \in Rung
      BY <1>0 DEF Proc
    <3>5. Walk(q) < Walk(p)
      BY <2>0, <3>3, <3>4, SMT DEF AuthorityRung, Rung
    <3> QED BY <3>1, <3>2, <3>5 DEF Closer, Nearer
  <2> QED BY <1>6, <2>1, <2>2 DEF Clear
<1> QED BY <1>3, <1>4, <1>5, <1>6

(* What a caller does of its own accord brings its operation nearer.       *)
LEMMA ProceedingRunsOut ==
  ASSUME TInv, NEW c \in Callers, Proceed(c)
  PROVE  Closer(c)
<1>1. CASE Prepare(c) \/ Write(c)
  <2>1. proc[c].op \in {"set", "move"} \cup Populating
    BY <1>1 DEF Prepare, Write, At
  <2>2. proc[c].op \in Populating => Write(c)
    BY <1>1 DEF Prepare, At, Populating
  <2> QED BY <1>1, <2>1, <2>2, SetRunsOut, MoveRunsOut, PopulationRunsOut
<1>2. CASE Compensate(c) \/ SetRefused(c) \/ Reclaim(c) \/ DropSlot(c) \/ Yield(c)
             \/ \E ttl \in Ttls : Commit(c, ttl)
  <2>1. proc[c].op = "set"
    BY <1>2 DEF Compensate, SetRefused, Reclaim, DropSlot, Yield, Commit, At
  <2> QED BY <1>2, <2>1, SetRunsOut
<1>3. CASE Load(c) \/ Unload(c) \/ Undo(c) \/ MoveRefused(c) \/ \E ttl \in Ttls : Settle(c, ttl)
  <2>1. proc[c].op = "move"
    BY <1>3 DEF Load, Unload, Undo, MoveRefused, Settle, At
  <2> QED BY <1>3, <2>1, MoveRunsOut
<1>4. CASE Keep(c) \/ Reacquire(c) \/ Fetch(c) \/ PopulationRefused(c) \/ Scan(c)
             \/ \E ttl \in Ttls : Publish(c, ttl)
  <2>1. proc[c].op \in Populating
    BY <1>4 DEF Keep, Reacquire, Fetch, PopulationRefused, Scan, Publish, At, Populating
  <2> QED BY <1>4, <2>1, PopulationRunsOut
<1>5. CASE MarkStale(c)
  <2>1. proc[c].op = "get" \/ proc[c].op \in Populating
    BY <1>5 DEF MarkStale, At
  <2> QED BY <1>5, <2>1, PopulationRunsOut, ReadRunsOut
<1>6. CASE Lookup(c) \/ Recheck(c) \/ WaitOver(c) \/ Serve(c) \/ Clear(c)
  BY <1>6, ReadRunsOut
<1> QED BY <1>1, <1>2, <1>3, <1>4, <1>5, <1>6 DEF Proceed

(* A caller's operation is its own: no step of another, no lapse of time   *)
(* and no loss at a rung touches it.                                       *)
LEMMA OthersStayPut ==
  ASSUME TInv, NEW c \in Callers, proc[c].pc # "idle", [Next]_vars
  PROVE  Proceed(c) \/ proc'[c] = Idle \/ proc'[c] = proc[c]
<1>0. ProcsOK /\ proc \in [Callers -> Proc]
  BY DEF TInv, ProcsOK, Good
<1>1. ASSUME NEW d \in Callers, Begin(d)
      PROVE  proc'[c] = proc[c]
  <2>1. proc[d].pc = "idle"
    BY <1>1 DEF Begin, SetBegin, MoveBegin, FetchBegin, RefreshBegin, GetBegin, RemoveBegin,
                Invalidate, Start, At
  <2>2. d # c
    BY <2>1
  <2>3. proc' = proc \/ \E q : Become(d, q)
    BY <1>1 DEF Begin, SetBegin, MoveBegin, FetchBegin, RefreshBegin, GetBegin, RemoveBegin,
                Invalidate, Acquired, End
  <2> QED BY <1>0, <2>2, <2>3 DEF Become
<1>2. ASSUME NEW d \in Callers, d # c, Proceed(d)
      PROVE  proc'[c] = proc[c]
  <2>1. (\E q : Become(d, q)) \/ \E pc : Goto(d, pc)
    <3>1. CASE \/ Prepare(d) \/ Write(d) \/ Compensate(d) \/ SetRefused(d) \/ Reclaim(d)
               \/ DropSlot(d) \/ Yield(d) \/ \E ttl \in Ttls : Commit(d, ttl)
      BY <3>1 DEF Prepare, Write, Compensate, SetRefused, Reclaim, DropSlot, Yield, Commit,
                  NextPass, End
    <3>2. CASE \/ Load(d) \/ Unload(d) \/ Undo(d) \/ MoveRefused(d)
               \/ \E ttl \in Ttls : Settle(d, ttl) \/ Publish(d, ttl)
      BY <3>2 DEF Load, Unload, Undo, MoveRefused, Settle, Publish, End
    <3>3. CASE \/ Keep(d) \/ MarkStale(d) \/ Reacquire(d) \/ Fetch(d) \/ PopulationRefused(d)
               \/ Scan(d)
      BY <3>3 DEF Keep, MarkStale, Reacquire, Acquired, Fetch, PopulationRefused, Scan, End
    <3>4. CASE Lookup(d) \/ Recheck(d) \/ WaitOver(d) \/ Serve(d) \/ Clear(d)
      BY <3>4 DEF Lookup, Recheck, WaitOver, Serve, Clear, End
    <3> QED BY <1>2, <3>1, <3>2, <3>3, <3>4 DEF Proceed
  <2> QED BY <1>0, <1>2, <2>1 DEF Become, Goto
<1>3. ASSUME NEW d \in Callers, Cancel(d)
      PROVE  proc'[c] = Idle \/ proc'[c] = proc[c]
  <2>1. proc' = [proc EXCEPT ![d] = Idle]
    BY <1>3 DEF Cancel, End, Become
  <2> QED BY <1>0, <2>1
<1>4. CASE ElapseTtl \/ UNCHANGED vars \/ \E r \in BoundRung : RungLoses(r)
  BY <1>4 DEF ElapseTtl, RungLoses, vars
<1> QED BY <1>1, <1>2, <1>3, <1>4 DEF Next

(* A walk is never longer than the ladder.                                 *)
LEMMA WalksAreShort ==
  ASSUME NEW p \in Proc
  PROVE  Walk(p) \in 0 .. AuthorityRung + 1
<1>1. p.rung \in Rung
  BY DEF Proc
<1>2. Walk(p) \in {0, p.rung + 1, AuthorityRung - p.rung, AuthorityRung + 1}
  BY DEF Walk
<1> QED BY <1>1, <1>2, SMT DEF Rung, AuthorityRung

(* The retries of set, its eviction passes, the retries of a fetch and the *)
(* walks along the ladder are bounded, whatever the others do meanwhile:   *)
(* every step of an operation uses up some of what it may still do, or     *)
(* finds that another emptied the slot that it had reserved.               *)
THEOREM OperationsRunOut == Spec => StepsRunOut
<1>1. ASSUME TInv, TInv', [Next]_vars, NEW c \in Callers, proc[c].pc # "idle"
      PROVE  \/ proc'[c] = Idle
             \/ Nearer(proc[c], proc'[c]) /\ Walk(proc'[c]) \in 0 .. AuthorityRung + 1
             \/ SlotWasTaken(c)
             \/ proc'[c] = proc[c] /\ ~Proceed(c)
  <2>0. proc'[c] \in Proc
    BY <1>1 DEF TInv, ProcsOK, Good
  <2>1. CASE Proceed(c)
    BY <1>1, <2>0, <2>1, ProceedingRunsOut, WalksAreShort DEF Closer
  <2>2. CASE ~Proceed(c)
    BY <1>1, <2>2, OthersStayPut
  <2> QED BY <2>1, <2>2
<1>2. TInv /\ TInv' /\ [Next]_vars =>
        [\A c \in Callers : proc[c].pc # "idle" =>
           \/ proc'[c] = Idle
           \/ Nearer(proc[c], proc'[c]) /\ Walk(proc'[c]) \in 0 .. AuthorityRung + 1
           \/ SlotWasTaken(c)
           \/ proc'[c] = proc[c] /\ ~Proceed(c)]_vars
  BY <1>1
<1> QED BY <1>2, Invariance, PTL DEF Spec, StepsRunOut

=============================================================================
