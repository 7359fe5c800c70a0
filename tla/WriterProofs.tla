---------------------------- MODULE WriterProofs ----------------------------
(***************************************************************************)
(* Writers and those who meet them, for every number of callers, rungs,    *)
(* values, retries and eviction passes.                                    *)
(*                                                                         *)
(* With one writer, whatever its writes and moves meet and whenever it is  *)
(* cancelled, and whatever the other callers read, invalidate or remove:   *)
(* what is Ready was committed.  With one that sets, and any number that   *)
(* move and populate, nothing is left half done.                           *)
(***************************************************************************)
EXTENDS ManagerProofs

(* A leaf goes to Zenon unless it names another prover: most are first-    *)
(* order, and those with arithmetic or several updates of a record say SMT.*)
USE Zenon

Reading == {"none", "get", "remove"}

Clean(r) == data[r] \in committed \cup {NoValue}

(* Who does what.                                                          *)
Roles(w) == \A c \in Callers : proc[c].op \in Reading \cup IF c = w THEN {"set", "move"} ELSE {}

(* The writer has prepared and not settled.                                *)
Underway(p) ==
  \/ p.op = "set" /\ p.pc \in {"write", "compensate", "refused", "commit", "yield"}
  \/ p.op = "move" /\ p.pc \in {"load", "write", "unload", "settle", "undo", "refused"}

(* The writer has not stored anything since it prepared.                   *)
Untouched(p) ==
  p.op = "set" /\ (p.pc = "write" \/ (p.pc = "refused" /\ p.err \in ProvablyClean))

ReadyIsClean == entry.state = "Ready" => Clean(entry.tier)

(* What an abort that restores a Ready entry would make visible again.     *)
RestoredIsClean(w) ==
  Untouched(proc[w]) /\ entry.state = "Prepared" /\ entry.prev = "Ready" => Clean(entry.tier)

WrittenIsThere(w) ==
  (proc[w].op = "set" /\ proc[w].pc = "commit")
    \/ (proc[w].op = "move" /\ proc[w].pc \in {"unload", "settle"})
  => data[proc[w].rung] \in {proc[w].val, NoValue}

SourceIsClean(w) ==
  proc[w].op = "move" /\ proc[w].pc \in {"prepare", "load"} /\ proc[w].want \in BoundRung
  => Clean(proc[w].want)

MovedIsCommitted(w) ==
  proc[w].op = "move" /\ proc[w].pc \in {"write", "unload", "settle"} => proc[w].val \in committed

UnderwayIsHidden(w) == Underway(proc[w]) => entry.state # "Ready"

(* set compensates only for a write that may have landed.                  *)
CompensatesUnclean(w) ==
  proc[w].op = "set" /\ proc[w].pc = "compensate" => proc[w].err \notin ProvablyClean

OneInv(w) ==
  /\ Roles(w) /\ ReadyIsClean /\ RestoredIsClean(w) /\ WrittenIsThere(w)
  /\ SourceIsClean(w) /\ MovedIsCommitted(w) /\ UnderwayIsHidden(w)
  /\ CompensatesUnclean(w)

(* A step that stores nothing and shows nothing, and after which the       *)
(* writer is where it was or out of its write.                             *)
Harmless(w) ==
  /\ \A r \in BoundRung : data'[r] \in {data[r], NoValue}
  /\ entry'.state = "Ready" => entry.state = "Ready" /\ entry'.tier = entry.tier
  /\ entry'.state = "Prepared"
       => entry.state = "Prepared" /\ entry'.tier = entry.tier /\ entry'.prev = entry.prev
  /\ committed' = committed
  /\ proc'[w] = proc[w] \/ proc'[w].op \in Reading
  /\ Roles(w)'

-----------------------------------------------------------------------------
(* A harmless step keeps the invariant.                                    *)
LEMMA HarmlessKeeps ==
  ASSUME NEW w \in Callers, TInv, OneInv(w), Harmless(w)
  PROVE  OneInv(w)'
<1>0. InPlace(proc[w]) /\ ReadyIsBound(entry)
  BY DEF TInv, ProcsOK, Good, EntryOK
<1>C. \A r \in BoundRung : Clean(r) => Clean(r)'
  BY DEF Harmless, Clean
<1>P. \/ proc'[w] = proc[w]
      \/ proc'[w].op \notin {"set", "move"}
  BY DEF Harmless, Reading
<1>1. ReadyIsClean'
  BY <1>0, <1>C DEF Harmless, OneInv, ReadyIsClean, ReadyIsBound, Clean
<1>2. RestoredIsClean(w)'
  BY <1>0, <1>C, <1>P DEF Harmless, OneInv, RestoredIsClean, Untouched, ReadyIsBound, Clean
<1>3. WrittenIsThere(w)'
  BY <1>0, <1>P DEF Harmless, OneInv, WrittenIsThere, InPlace
<1>4. SourceIsClean(w)'
  BY <1>C, <1>P DEF Harmless, OneInv, SourceIsClean, Clean
<1>5. MovedIsCommitted(w)'
  BY <1>P DEF Harmless, OneInv, MovedIsCommitted
<1>6. UnderwayIsHidden(w)'
  BY <1>P DEF Harmless, OneInv, UnderwayIsHidden, Underway
<1>7. CompensatesUnclean(w)'
  BY <1>P DEF OneInv, CompensatesUnclean
<1> QED BY <1>1, <1>2, <1>3, <1>4, <1>5, <1>6, <1>7 DEF OneInv, Harmless

(* Whoever returns or goes on keeps its role.                              *)
LEMMA Turns ==
  ASSUME NEW w \in Callers, TInv, Roles(w), NEW c \in Callers
  PROVE  /\ \A q : (q.op = proc[c].op \/ q.op \in Reading) /\ Become(c, q) => Roles(w)'
         /\ End(c) => Roles(w)'
         /\ \A pc : Goto(c, pc) => Roles(w)'
<1>1. ASSUME NEW q, q.op = proc[c].op \/ q.op \in Reading, Become(c, q) PROVE Roles(w)'
  <2>1. \A d \in Callers : proc'[d] = IF d = c THEN q ELSE proc[d]
    BY <1>1 DEF Become, TInv, ProcsOK
  <2> QED BY <1>1, <2>1 DEF Roles
<1>2. Idle.op = "none"
  BY DEF Idle
<1>3. ASSUME NEW pc PROVE /\ Goto(c, pc) => Become(c, [proc[c] EXCEPT !.pc = pc])
                          /\ [proc[c] EXCEPT !.pc = pc].op = proc[c].op
  <2>1. proc[c] \in Proc
    BY DEF TInv, ProcsOK, Good
  <2> QED BY <2>1 DEF Goto, Become, Proc
<1> QED BY <1>1, <1>2, <1>3 DEF End, Reading

(* What a caller becomes, and that the others stay as they are.            *)
LEMMA Becomes ==
  ASSUME TInv, NEW c \in Callers
  PROVE  /\ \A q : Become(c, q) => proc'[c] = q /\ \A d \in Callers \ {c} : proc'[d] = proc[d]
         /\ End(c) => proc'[c] = Idle /\ \A d \in Callers \ {c} : proc'[d] = proc[d]
         /\ \A pc : Goto(c, pc) => /\ proc'[c] = [proc[c] EXCEPT !.pc = pc]
                                   /\ \A d \in Callers \ {c} : proc'[d] = proc[d]
BY DEF Become, End, Goto, TInv, ProcsOK

(* The methods of the control plane that never make an entry Ready or      *)
(* Prepared leave it as it was where they do not settle it.                *)
LEMMA MethodsHide ==
  ASSUME NEW e \in Entry
  PROVE  /\ \A err : Aborted(e, err) = e \/ Aborted(e, err).state = "Failed"
         /\ Invalidated(e) = e \/ Invalidated(e).state = "Absent"
         /\ MarkedStale(e).state = "Stale" /\ Evicted(e).state = "Stale"
BY DEF Aborted, Invalidated, MarkedStale, Evicted, Entry

(* Reads, invalidations, removals, cancellations, expiry and losses are    *)
(* harmless, and nobody populates.                                         *)
LEMMA OthersAreHarmless ==
  ASSUME NEW w \in Callers, TInv, OneInv(w), NEW c \in Callers,
         \/ GetBegin(c) \/ Lookup(c) \/ Recheck(c) \/ WaitOver(c) \/ Serve(c) \/ MarkStale(c)
         \/ RemoveBegin(c) \/ Clear(c) \/ Invalidate(c) \/ Cancel(c) \/ MoveRefused(c)
  PROVE  Harmless(w)
<1>0. /\ entry \in Entry /\ data \in [BoundRung -> Value \cup {NoValue, Truth}]
      /\ Roles(w) /\ proc[c] \in Proc
      /\ proc[c].op \in Reading \cup {"set", "move"}
  BY DEF TInv, EntryOK, RestOK, LadderTypeOK, OneInv, Roles, ProcsOK, Good
<1>D. /\ data' = data => \A r \in BoundRung : data'[r] \in {data[r], NoValue}
      /\ \A t : data' = [data EXCEPT ![t] = NoValue]
                  => \A r \in BoundRung : data'[r] \in {data[r], NoValue}
  BY <1>0
<1>1. /\ \A r \in BoundRung : data'[r] \in {data[r], NoValue}
      /\ committed' = committed
  BY <1>D DEF GetBegin, Lookup, Recheck, WaitOver, Serve, MarkStale, RemoveBegin, Clear,
              Invalidate, Cancel, MoveRefused, TierRemove, ladderVars
<1>2. entry' = entry \/ entry'.state \in {"Failed", "Absent", "Stale"}
  <2>1. CASE Cancel(c)
    <3>1. ~HoldsClaim(c)
      BY <1>0 DEF HoldsClaim, At, Populating, Reading
    <3>2. \/ entry' = entry
          \/ entry' = Aborted(entry, "Cancelled")
      BY <2>1, <3>1 DEF Cancel
    <3> QED BY <3>2, <1>0, MethodsHide
  <2>2. CASE Clear(c) \/ Invalidate(c) \/ MarkStale(c) \/ MoveRefused(c)
    BY <2>2, <1>0, MethodsHide DEF Clear, Invalidate, MarkStale, MoveRefused
  <2>3. CASE GetBegin(c) \/ Lookup(c) \/ Recheck(c) \/ WaitOver(c) \/ Serve(c) \/ RemoveBegin(c)
    BY <2>3 DEF GetBegin, Lookup, Recheck, WaitOver, Serve, RemoveBegin
  <2> QED BY <2>1, <2>2, <2>3
<1>3. Roles(w)' /\ (proc'[w] = proc[w] \/ proc'[w].op \in Reading)
  <2> DEFINE Out == Roles(w)' /\ (proc'[w] = proc[w] \/ proc'[w].op \in Reading)
  <2>0. \A q : q.op \in Reading /\ Become(c, q) => Out
    BY <1>0, Turns, Becomes
  <2> SUFFICES Out
    OBVIOUS
  <2> HIDE DEF Out
  <2>1. Idle.op = "none" /\ Idle \in Proc
    BY IdleIsGood DEF Idle, Good
  <2>2. \A x \in Proc : \A pc, val : /\ [x EXCEPT !.pc = pc].op = x.op
                                     /\ [x EXCEPT !.pc = pc, !.val = val].op = x.op
                                     /\ [x EXCEPT !.pc = pc, !.rung = val].op = x.op
                                     /\ [x EXCEPT !.rung = val].op = x.op
    BY DEF Proc
  <2>3. End(c) => Out
    BY <2>0, <2>1 DEF End, Reading
  <2>4. CASE GetBegin(c)
    <3>1. PICK pc : Become(c, [Idle EXCEPT !.pc = pc, !.op = "get", !.rung = entry.tier])
      BY <2>4 DEF GetBegin
    <3>2. [Idle EXCEPT !.pc = pc, !.op = "get", !.rung = entry.tier].op = "get"
      BY <2>1 DEF Proc
    <3> QED BY <2>0, <3>1, <3>2 DEF Reading
  <2>5. CASE RemoveBegin(c)
    <3>1. [Idle EXCEPT !.pc = "clear", !.op = "remove"].op = "remove"
      BY <2>1 DEF Proc
    <3> QED BY <2>0, <2>5, <3>1 DEF RemoveBegin, Reading
  <2>6. CASE Lookup(c)
    <3>1. proc[c].op = "get"
      BY <2>6, <1>0 DEF Lookup, At, Reading
    <3>2. [proc[c] EXCEPT !.pc = "recheck", !.val = data[proc[c].rung]].op = "get"
      BY <3>1, <2>2, <1>0, SMT
    <3> QED BY <2>0, <2>6, <3>1, <3>2, <2>3 DEF Lookup, Reading
  <2>7. CASE WaitOver(c)
    <3>1. proc[c].op = "get"
      BY <2>7, <1>0 DEF WaitOver, At, Reading
    <3>2. [proc[c] EXCEPT !.pc = "serve", !.rung = entry.tier].op = "get"
      BY <3>1, <2>2, <1>0, SMT
    <3> QED BY <2>0, <2>7, <3>2, <2>3 DEF WaitOver, Reading
  <2>8. CASE Clear(c)
    <3>1. [proc[c] EXCEPT !.rung = proc[c].rung + 1].op = "remove"
      BY <2>8, <2>2, <1>0 DEF Clear, At
    <3> QED BY <2>0, <2>8, <3>1, <2>3 DEF Clear, Reading
  <2>9. CASE MarkStale(c)
    <3>1. proc[c].op = "get"
      BY <2>9, <1>0 DEF MarkStale, At, Reading, Populating
    <3> QED BY <2>9, <3>1, <2>3 DEF MarkStale
  <2>10. CASE Recheck(c) \/ Serve(c) \/ Cancel(c) \/ MoveRefused(c)
    BY <2>10, <2>3 DEF Recheck, Serve, Cancel, MoveRefused
  <2>11. CASE Invalidate(c)
    BY <2>11, <1>0 DEF Invalidate, Out, Roles
  <2> QED BY <2>4, <2>5, <2>6, <2>7, <2>8, <2>9, <2>10, <2>11
<1> QED BY <1>1, <1>2, <1>3 DEF Harmless

-----------------------------------------------------------------------------
(* What the writer becomes.                                                *)
LEMMA WriterTurns ==
  ASSUME NEW w \in Callers, TInv, Roles(w)
  PROVE  /\ \A q : q.op \in {"set", "move"} /\ Become(w, q) => Roles(w)' /\ proc'[w] = q
         /\ End(w) => Roles(w)' /\ proc'[w].op = "none"
         /\ \A pc : proc[w].op \in {"set", "move"} /\ Goto(w, pc)
              => Roles(w)' /\ proc'[w] = [proc[w] EXCEPT !.pc = pc]
<1>1. ASSUME NEW q, q.op \in {"set", "move"}, Become(w, q) PROVE Roles(w)' /\ proc'[w] = q
  <2>1. proc'[w] = q /\ \A d \in Callers \ {w} : proc'[d] = proc[d]
    BY <1>1, Becomes
  <2> QED BY <1>1, <2>1 DEF Roles
<1>2. End(w) => Roles(w)' /\ proc'[w].op = "none"
  BY Turns, Becomes, SMT DEF Idle
<1>3. \A pc : Goto(w, pc) => Roles(w)' /\ proc'[w] = [proc[w] EXCEPT !.pc = pc]
  BY Turns, Becomes
<1> QED BY <1>1, <1>2, <1>3, SMT

(* Nothing stored and nothing shown, the writer about to prepare a write,  *)
(* or between two walks.                                                   *)
LEMMA BetweenWrites ==
  ASSUME NEW w \in Callers, TInv, OneInv(w), Roles(w)', committed' = committed,
         proc'[w].op = "set", proc'[w].pc \in {"prepare", "reclaim", "dropslot", "yield"},
         \A r \in BoundRung : data'[r] \in {data[r], NoValue},
         entry'.state = "Ready" => entry.state = "Ready" /\ entry'.tier = entry.tier,
         proc'[w].pc = "yield" => entry'.state # "Ready"
  PROVE  OneInv(w)'
<1>1. ReadyIsClean'
  BY DEF OneInv, ReadyIsClean, ReadyIsBound, Clean, TInv, EntryOK
<1>2. RestoredIsClean(w)' /\ WrittenIsThere(w)' /\ SourceIsClean(w)' /\ MovedIsCommitted(w)'
  BY DEF RestoredIsClean, Untouched, WrittenIsThere, SourceIsClean, MovedIsCommitted
<1>3. UnderwayIsHidden(w)' /\ CompensatesUnclean(w)'
  BY DEF UnderwayIsHidden, Underway, CompensatesUnclean
<1> QED BY <1>1, <1>2, <1>3 DEF OneInv

(* set keeps the invariant, except for the two steps below.                *)
LEMMA SetKeeps ==
  ASSUME NEW w \in Callers, TInv, OneInv(w),
         \/ SetBegin(w) \/ Compensate(w) \/ Reclaim(w) \/ DropSlot(w) \/ Yield(w)
         \/ SetRefused(w) \/ \E ttl \in Ttls : Commit(w, ttl)
  PROVE  OneInv(w)'
<1> DEFINE p == proc[w]
<1>0. /\ entry \in Entry /\ ReadyIsBound(entry) /\ Roles(w)
      /\ data \in [BoundRung -> Value \cup {NoValue, Truth}]
      /\ p \in Proc /\ InPlace(p) /\ Idle \in Proc
  BY IdleIsGood DEF TInv, EntryOK, RestOK, LadderTypeOK, OneInv, ProcsOK, Good
<1>E. /\ \A pc : [p EXCEPT !.pc = pc].op = p.op /\ [p EXCEPT !.pc = pc].pc = pc
      /\ \A pc : [p EXCEPT !.pc = pc].rung = p.rung /\ [p EXCEPT !.pc = pc].err = p.err
  BY <1>0 DEF Proc
<1>D. /\ data' = data => \A r \in BoundRung : data'[r] \in {data[r], NoValue}
      /\ \A t : data' = [data EXCEPT ![t] = NoValue]
                  => \A r \in BoundRung : data'[r] \in {data[r], NoValue}
  BY <1>0
<1>Z. End(w) => Roles(w)' /\ proc'[w].op = "none"
  BY <1>0, WriterTurns
<1>G. ASSUME NEW pc, p.op = "set", Goto(w, pc)
      PROVE  Roles(w)' /\ proc'[w].op = "set" /\ proc'[w].pc = pc /\ proc'[w].err = p.err
  <2>1. Roles(w)' /\ proc'[w] = [p EXCEPT !.pc = pc]
    BY <1>G, <1>0, WriterTurns
  <2> QED BY <2>1, <1>G, <1>E, SMT
<1>N. ASSUME NextPass(w), p.op = "set"
      PROVE  /\ Roles(w)'
             /\ proc'[w].op = "none" \/ (proc'[w].op = "set" /\ proc'[w].pc = "prepare")
  <2> DEFINE q == [p EXCEPT !.pc = "prepare", !.rung = NearestBound(p.want),
                            !.tries = 0, !.passes = p.passes + 1]
  <2>1. q.op = "set" /\ q.pc = "prepare"
    BY <1>0, <1>N DEF Proc
  <2>2. End(w) \/ Become(w, q)
    BY <1>N DEF NextPass
  <2> HIDE DEF q
  <2>3. Become(w, q) => Roles(w)' /\ proc'[w] = q
    BY <1>0, <2>1, WriterTurns
  <2> QED BY <2>1, <2>2, <2>3, <1>Z
<1>1. CASE SetBegin(w)
  <2>1. PICK want \in Wants : Become(w, [Idle EXCEPT !.pc = "prepare", !.op = "set",
                 !.val = used + 1, !.want = want, !.rung = NearestBound(want)])
    BY <1>1 DEF SetBegin
  <2> DEFINE q == [Idle EXCEPT !.pc = "prepare", !.op = "set",
                 !.val = used + 1, !.want = want, !.rung = NearestBound(want)]
  <2>2. q.op = "set" /\ q.pc = "prepare"
    BY <1>0 DEF Proc
  <2>3. Roles(w)' /\ proc'[w] = q
    BY <2>1, <2>2, <1>0, WriterTurns
  <2>4. data' = data /\ entry' = entry /\ committed' = committed
    BY <1>1 DEF SetBegin, ladderVars
  <2> HIDE DEF q
  <2> QED BY <2>2, <2>3, <2>4, <1>D, BetweenWrites
<1>2. CASE Compensate(w)
  <2>1. p.op = "set" /\ p.pc = "compensate"
    BY <1>2 DEF Compensate, At
  <2>2. Roles(w)'
    BY <1>2, <2>1, <1>G DEF Compensate
  <2>3. proc'[w].op = "set" /\ proc'[w].pc = "refused" /\ proc'[w].err = p.err
    BY <1>2, <2>1, <1>G DEF Compensate
  <2>4. entry' = entry /\ committed' = committed /\ entry.state # "Ready"
    BY <1>2, <2>1 DEF Compensate, OneInv, UnderwayIsHidden, Underway
  <2>5. p.err \notin ProvablyClean
    BY <2>1 DEF OneInv, CompensatesUnclean
  <2> QED BY <2>2, <2>3, <2>4, <2>5
          DEF OneInv, ReadyIsClean, RestoredIsClean, Untouched, WrittenIsThere, SourceIsClean,
              MovedIsCommitted, UnderwayIsHidden, Underway, CompensatesUnclean
<1>3. CASE Reclaim(w)
  <2>1. p.op = "set" /\ data' = data /\ committed' = committed
    BY <1>3 DEF Reclaim, At, ladderVars
  <2>2. CASE UNCHANGED entry /\ (End(w) \/ NextPass(w))
    <3>1. Roles(w)' /\ (proc'[w].op = "none" \/ (proc'[w].op = "set" /\ proc'[w].pc = "prepare"))
      BY <2>1, <2>2, <1>N, <1>Z
    <3>2. proc'[w].op = "none" => Harmless(w)
      BY <2>1, <2>2, <3>1, <1>D DEF Harmless, Reading
    <3> QED BY <2>1, <2>2, <3>1, <3>2, <1>D, BetweenWrites, HarmlessKeeps
  <2>3. ASSUME NEW r, entry' = Evicted(entry), Become(w, [p EXCEPT !.pc = "dropslot", !.rung = r])
        PROVE  OneInv(w)'
    <3>1. [p EXCEPT !.pc = "dropslot", !.rung = r].op = p.op
          /\ [p EXCEPT !.pc = "dropslot", !.rung = r].pc = "dropslot"
      BY <1>0 DEF Proc
    <3>2. Roles(w)' /\ proc'[w] = [p EXCEPT !.pc = "dropslot", !.rung = r]
      BY <2>1, <2>3, <3>1, <1>0, WriterTurns, ZenonT(40)
    <3>3. entry'.state = "Stale"
      BY <2>3, <1>0, MethodsHide
    <3> QED BY <2>1, <3>1, <3>2, <3>3, <1>D, BetweenWrites
  <2> QED BY <1>3, <2>2, <2>3 DEF Reclaim
<1>4. CASE DropSlot(w)
  <2>1. p.op = "set" /\ committed' = committed /\ entry' = entry
    BY <1>4 DEF DropSlot, At
  <2>2. \A r \in BoundRung : data'[r] \in {data[r], NoValue}
    BY <1>4, <1>D DEF DropSlot
  <2>3. /\ Roles(w)'
        /\ \/ proc'[w].op = "none"
           \/ proc'[w].op = "set" /\ proc'[w].pc \in {"prepare", "reclaim"}
    BY <1>4, <2>1, <1>G, <1>N DEF DropSlot
  <2>4. proc'[w].op = "none" => Harmless(w)
    BY <2>1, <2>2, <2>3 DEF Harmless, Reading
  <2> QED BY <2>1, <2>2, <2>3, <2>4, BetweenWrites, HarmlessKeeps
<1>5. CASE Yield(w)
  <2>1. p.op = "set" /\ p.pc = "yield" /\ data' = data /\ committed' = committed
    BY <1>5 DEF Yield, At, ladderVars
  <2>2. Roles(w)' /\ proc'[w].op = "set" /\ proc'[w].pc = "prepare"
    BY <1>5, <2>1, <1>G DEF Yield
  <2>3. entry' = entry \/ entry'.state = "Failed"
    BY <1>5, <1>0, MethodsHide DEF Yield
  <2> QED BY <2>1, <2>2, <2>3, <1>D, BetweenWrites
<1>6. CASE SetRefused(w)
  <2>1. p.op = "set" /\ p.pc = "refused" /\ data' = data /\ committed' = committed
    BY <1>6 DEF SetRefused, At, ladderVars
  <2>2. entry.state # "Ready"
    BY <2>1 DEF OneInv, UnderwayIsHidden, Underway
  <2>3. /\ entry'.state = "Ready" => Clean(entry'.tier)
        /\ entry'.state = "Prepared" => entry.state # "Prepared" \/ p.err \in ProvablyClean
    <3>1. CASE p.err \in ProvablyClean
      <4>1. entry' = AbortedClean(entry, p.err)
        BY <1>6, <3>1 DEF SetRefused
      <4>2. entry'.state = "Ready"
              => entry.state = "Prepared" /\ entry.prev = "Ready" /\ entry'.tier = entry.tier
        BY <4>1, <2>2, <1>0 DEF AbortedClean, Entry
      <4> QED BY <3>1, <4>2, <2>1 DEF OneInv, RestoredIsClean, Untouched
    <3>2. CASE p.err \notin ProvablyClean
      <4>1. entry' = Aborted(entry, p.err)
        BY <1>6, <3>2 DEF SetRefused
      <4> QED BY <4>1, <2>2, <1>0 DEF Aborted, Entry
    <3> QED BY <3>1, <3>2
  <2>4. /\ Roles(w)'
        /\ \/ proc'[w].op = "none"
           \/ proc'[w].op = "set" /\ proc'[w].pc \in {"prepare", "reclaim"}
    <3> DEFINE q == [p EXCEPT !.pc = "prepare", !.rung = p.rung - 1, !.tries = 0]
    <3>1. q.op = "set" /\ q.pc = "prepare"
      BY <1>0, <2>1 DEF Proc
    <3>2. Become(w, q) \/ Goto(w, "reclaim") \/ End(w)
      BY <1>6 DEF SetRefused
    <3> HIDE DEF q
    <3>3. Become(w, q) => Roles(w)' /\ proc'[w] = q
      BY <3>1, <1>0, WriterTurns
    <3> QED BY <3>1, <3>2, <3>3, <2>1, <1>G, <1>Z
  <2>5. ReadyIsClean'
    BY <2>1, <2>3 DEF ReadyIsClean, Clean
  <2>6. /\ RestoredIsClean(w)' /\ WrittenIsThere(w)' /\ SourceIsClean(w)'
        /\ MovedIsCommitted(w)' /\ UnderwayIsHidden(w)' /\ CompensatesUnclean(w)'
    BY <2>4 DEF RestoredIsClean, Untouched, WrittenIsThere, SourceIsClean, MovedIsCommitted,
                UnderwayIsHidden, Underway, CompensatesUnclean
  <2> QED BY <2>4, <2>5, <2>6 DEF OneInv
<1>7. ASSUME NEW ttl \in Ttls, Commit(w, ttl) PROVE OneInv(w)'
  <2>1. p.op = "set" /\ p.pc = "commit" /\ data' = data
    BY <1>7 DEF Commit, At, ladderVars
  <2>2. CASE CommitAdmits(entry, [generation |-> p.gen])
    <3>1. entry' = Committed(entry, [tier |-> p.rung], ttl) /\ committed' = committed \cup {p.val}
      BY <1>7, <2>2 DEF Commit
    <3>2. Roles(w)' /\ proc'[w].op = "none"
      BY <1>7, <2>2, <1>Z DEF Commit
    <3>3. entry'.tier = p.rung
      <4>1. \A h : Committed(entry, h, ttl).tier = h.tier
        BY <1>0, TierFields, SMTT(30)
      <4>2. Committed(entry, [tier |-> p.rung], ttl).tier = [tier |-> p.rung].tier
        BY <4>1
      <4> QED BY <3>1, <4>2
    <3>4. ReadyIsClean'
      BY <3>1, <3>3, <2>1 DEF ReadyIsClean, Clean, OneInv, WrittenIsThere
    <3>5. /\ RestoredIsClean(w)' /\ WrittenIsThere(w)' /\ SourceIsClean(w)'
          /\ MovedIsCommitted(w)' /\ UnderwayIsHidden(w)' /\ CompensatesUnclean(w)'
      BY <3>2 DEF RestoredIsClean, Untouched, WrittenIsThere, SourceIsClean, MovedIsCommitted,
                  UnderwayIsHidden, Underway, CompensatesUnclean
    <3> QED BY <3>2, <3>4, <3>5 DEF OneInv
  <2>3. CASE ~CommitAdmits(entry, [generation |-> p.gen])
    <3> DEFINE q == [p EXCEPT !.pc = "yield", !.tries = p.tries + 1]
    <3>1. q.op = "set" /\ q.pc = "yield"
      BY <1>0, <2>1 DEF Proc
    <3>2. committed' = committed /\ \/ Become(w, q) /\ entry' = entry
                                    \/ End(w) /\ entry' = Aborted(entry, "Cancelled")
      BY <1>7, <2>3 DEF Commit
    <3> HIDE DEF q
    <3>3. CASE Become(w, q) /\ entry' = entry
      <4>1. Roles(w)' /\ proc'[w] = q
        BY <3>1, <3>3, <1>0, WriterTurns
      <4>2. entry.state # "Ready"
        BY <2>1 DEF OneInv, UnderwayIsHidden, Underway
      <4> QED BY <3>1, <3>2, <3>3, <4>1, <4>2, <2>1, <1>D, BetweenWrites
    <3>4. CASE End(w) /\ entry' = Aborted(entry, "Cancelled")
      <4>1. entry' = entry \/ entry'.state = "Failed"
        BY <3>4, <1>0, MethodsHide
      <4>2. Harmless(w)
        BY <3>2, <3>4, <4>1, <2>1, <1>D, <1>Z DEF Harmless, Reading
      <4> QED BY <4>2, HarmlessKeeps
    <3> QED BY <3>2, <3>3, <3>4
  <2> QED BY <2>2, <2>3
<1> QED BY <1>1, <1>2, <1>3, <1>4, <1>5, <1>6, <1>7

(* The steps of a write and of a move between prepare and settle.          *)
LEMMA MoveKeeps ==
  ASSUME NEW w \in Callers, TInv, OneInv(w),
         \/ MoveBegin(w) \/ Prepare(w) \/ Write(w) \/ Load(w) \/ Unload(w) \/ Undo(w)
         \/ \E ttl \in Ttls : Settle(w, ttl)
  PROVE  OneInv(w)'
<1> DEFINE p == proc[w]
<1>0. /\ entry \in Entry /\ ReadyIsBound(entry) /\ Roles(w)
      /\ data \in [BoundRung -> Value \cup {NoValue, Truth}]
      /\ p \in Proc /\ InPlace(p) /\ Idle \in Proc
      /\ p.op \in Reading \cup {"set", "move"}
  BY IdleIsGood DEF TInv, EntryOK, RestOK, LadderTypeOK, OneInv, ProcsOK, Good, Roles
<1>1. CASE MoveBegin(w)
  <2>1. PICK r : Become(w, [Idle EXCEPT !.pc = "prepare", !.op = "move", !.rung = r,
                                        !.want = entry.tier])
    BY <1>1 DEF MoveBegin
  <2> DEFINE q == [Idle EXCEPT !.pc = "prepare", !.op = "move", !.rung = r, !.want = entry.tier]
  <2>2. q.op = "move" /\ q.pc = "prepare" /\ q.want = entry.tier
    BY <1>0 DEF Proc
  <2> HIDE DEF q
  <2>3. Roles(w)' /\ proc'[w] = q
    BY <2>1, <2>2, <1>0, WriterTurns DEF q
  <2>4. data' = data /\ entry' = entry /\ committed' = committed /\ entry.state = "Ready"
    BY <1>1 DEF MoveBegin, ladderVars
  <2>5. Clean(entry.tier)
    BY <2>4 DEF OneInv, ReadyIsClean
  <2>6. ReadyIsClean' /\ SourceIsClean(w)'
    BY <2>2, <2>3, <2>4, <2>5 DEF ReadyIsClean, SourceIsClean, Clean
  <2>7. /\ RestoredIsClean(w)' /\ WrittenIsThere(w)' /\ MovedIsCommitted(w)'
        /\ UnderwayIsHidden(w)' /\ CompensatesUnclean(w)'
    BY <2>2, <2>3 DEF RestoredIsClean, Untouched, WrittenIsThere, MovedIsCommitted,
                      UnderwayIsHidden, Underway, CompensatesUnclean
  <2> QED BY <2>3, <2>6, <2>7 DEF OneInv
<1>2. CASE Prepare(w)
  <2> DEFINE k == IF p.op = "set" THEN "Write" ELSE "Move"
             q == [p EXCEPT !.pc = IF p.op = "set" THEN "write" ELSE "load", !.gen = entry.generation]
  <2>1. /\ p.op \in {"set", "move"} /\ p.pc = "prepare"
        /\ data' = data /\ committed' = committed
        /\ entry' = PreparedFor(entry, p.rung, k) /\ Become(w, q)
    BY <1>2 DEF Prepare, At, ladderVars
  <2>2. q.op = p.op /\ q.pc = (IF p.op = "set" THEN "write" ELSE "load") /\ q.want = p.want
    BY <1>0 DEF Proc
  <2> HIDE DEF q, k
  <2>3. Roles(w)' /\ proc'[w] = q
    BY <2>1, <2>2, <1>0, WriterTurns
  <2>4. entry'.state = "Prepared" /\ entry'.prev = entry.state /\ entry'.tier = entry.tier
    <3>1. entry \in Entry
      BY <1>0
    <3>2. \A t, kind : /\ PreparedFor(entry, t, kind).state = "Prepared"
                       /\ PreparedFor(entry, t, kind).prev = entry.state
                       /\ PreparedFor(entry, t, kind).tier = entry.tier
      BY <3>1 DEF PreparedFor, Entry
    <3>3. /\ PreparedFor(entry, p.rung, k).tier = entry.tier
          /\ PreparedFor(entry, p.rung, k).state = "Prepared"
          /\ PreparedFor(entry, p.rung, k).prev = entry.state
      BY <3>2, Zenon
    <3> QED BY <2>1, <3>3
  <2>5. ReadyIsClean' /\ UnderwayIsHidden(w)'
    BY <2>4 DEF ReadyIsClean, UnderwayIsHidden
  <2>6. RestoredIsClean(w)'
    BY <2>1, <2>4 DEF RestoredIsClean, Clean, OneInv, ReadyIsClean
  <2>7. SourceIsClean(w)'
    BY <2>1, <2>2, <2>3 DEF SourceIsClean, Clean, OneInv
  <2>8. WrittenIsThere(w)' /\ MovedIsCommitted(w)' /\ CompensatesUnclean(w)'
    BY <2>1, <2>2, <2>3 DEF WrittenIsThere, MovedIsCommitted, CompensatesUnclean
  <2> QED BY <2>3, <2>5, <2>6, <2>7, <2>8 DEF OneInv
<1>3. CASE Write(w)
  <2>1. /\ p.op \in {"set", "move"} /\ p.pc = "write"
        /\ entry' = entry /\ committed' = committed /\ p.rung \in BoundRung
    BY <1>3, <1>0 DEF Write, At, InPlace, Reading, Populating
  <2>2. entry.state # "Ready" /\ (p.op = "move" => p.val \in committed)
    BY <2>1 DEF OneInv, UnderwayIsHidden, Underway, MovedIsCommitted
  <2>3. ReadyIsClean' /\ UnderwayIsHidden(w)'
    BY <2>1, <2>2 DEF ReadyIsClean, UnderwayIsHidden
  <2>4. CASE TierSet(p.rung, p.val) /\ Goto(w, AfterWrite(p.op))
    <3>1. /\ p.op = "set" => AfterWrite(p.op) = "commit"
          /\ p.op = "move" => AfterWrite(p.op) = "unload"
      BY DEF AfterWrite
    <3>2. data'[p.rung] = p.val
      BY <2>1, <2>4, <1>0 DEF TierSet
    <3>3. /\ Roles(w)' /\ proc'[w].op = p.op /\ proc'[w].pc = AfterWrite(p.op)
          /\ proc'[w].rung = p.rung /\ proc'[w].val = p.val
      <4>1. Roles(w)' /\ proc'[w] = [p EXCEPT !.pc = AfterWrite(p.op)]
        BY <2>1, <2>4, <1>0, WriterTurns
      <4> QED BY <4>1, <1>0 DEF Proc
    <3>4. WrittenIsThere(w)' /\ MovedIsCommitted(w)'
      BY <2>1, <2>2, <3>1, <3>2, <3>3 DEF WrittenIsThere, MovedIsCommitted
    <3>5. RestoredIsClean(w)' /\ SourceIsClean(w)' /\ CompensatesUnclean(w)'
      BY <2>1, <3>1, <3>3 DEF RestoredIsClean, Untouched, SourceIsClean, CompensatesUnclean
    <3> QED BY <2>3, <3>3, <3>4, <3>5 DEF OneInv
  <2>5. ASSUME NEW err \in WriteErrors, TierSetFails(p.rung, p.val, err),
               Become(w, [p EXCEPT !.err = err,
                            !.pc = IF p.op = "set" /\ err = "WriteIndeterminate"
                                   THEN "compensate" ELSE "refused"])
        PROVE  OneInv(w)'
    <3> DEFINE q == [p EXCEPT !.err = err, !.pc = IF p.op = "set" /\ err = "WriteIndeterminate"
                                                  THEN "compensate" ELSE "refused"]
    <3>1. /\ q.op = p.op /\ q.err = err /\ q.pc \in {"compensate", "refused"}
          /\ q.pc = "compensate" => err = "WriteIndeterminate"
      BY <1>0 DEF Proc
    <3>2. Become(w, q)
      BY <2>5
    <3> HIDE DEF q
    <3>3. Roles(w)' /\ proc'[w] = q
      BY <2>1, <3>1, <3>2, <1>0, WriterTurns
    <3>4. err \in ProvablyClean => data' = data
      BY <2>5 DEF TierSetFails
    <3>5. RestoredIsClean(w)'
      BY <2>1, <3>1, <3>3, <3>4 DEF RestoredIsClean, Untouched, Clean, OneInv
    <3>6. WrittenIsThere(w)' /\ SourceIsClean(w)' /\ MovedIsCommitted(w)' /\ CompensatesUnclean(w)'
      BY <3>1, <3>3 DEF WrittenIsThere, SourceIsClean, MovedIsCommitted, CompensatesUnclean,
                        ProvablyClean
    <3> QED BY <2>3, <3>3, <3>5, <3>6 DEF OneInv
  <2> QED BY <1>3, <2>4, <2>5 DEF Write
<1>4. CASE Load(w)
  <2>1. /\ p.op = "move" /\ p.pc = "load"
        /\ data' = data /\ entry' = entry /\ committed' = committed
    BY <1>4 DEF Load, At, ladderVars
  <2>2. entry.state # "Ready"
    BY <2>1 DEF OneInv, UnderwayIsHidden, Underway
  <2>3. ReadyIsClean' /\ UnderwayIsHidden(w)'
    BY <2>1, <2>2 DEF ReadyIsClean, UnderwayIsHidden
  <2>4. ASSUME NEW q, q.op = "move", Become(w, q),
               q.pc = "refused" \/ (q.pc = "write" /\ q.val \in committed)
        PROVE  OneInv(w)'
    <3>1. Roles(w)' /\ proc'[w] = q
      BY <2>4, <1>0, WriterTurns
    <3>2. /\ RestoredIsClean(w)' /\ WrittenIsThere(w)' /\ SourceIsClean(w)'
          /\ MovedIsCommitted(w)' /\ CompensatesUnclean(w)'
      BY <2>1, <2>4, <3>1 DEF RestoredIsClean, Untouched, WrittenIsThere, SourceIsClean,
                              MovedIsCommitted, CompensatesUnclean
    <3> QED BY <2>3, <3>1, <3>2 DEF OneInv
  <2>5. ASSUME NEW err, Become(w, [p EXCEPT !.pc = "refused", !.err = err]) PROVE OneInv(w)'
    <3> DEFINE q == [p EXCEPT !.pc = "refused", !.err = err]
    <3>1. q.op = "move" /\ q.pc = "refused"
      BY <2>1, <1>0 DEF Proc
    <3>2. Become(w, q)
      BY <2>5
    <3> HIDE DEF q
    <3> QED BY <2>4, <3>1, <3>2
  <2>6. ASSUME p.want \in BoundRung, data[p.want] # NoValue,
               Become(w, [p EXCEPT !.pc = "write", !.val = data[p.want]])
        PROVE  OneInv(w)'
    <3> DEFINE q == [p EXCEPT !.pc = "write", !.val = data[p.want]]
    <3>1. q.op = "move" /\ q.pc = "write" /\ q.val = data[p.want]
      BY <2>1, <1>0 DEF Proc
    <3>2. data[p.want] \in committed
      BY <2>1, <2>6 DEF OneInv, SourceIsClean, Clean
    <3>3. Become(w, q)
      BY <2>6
    <3> HIDE DEF q
    <3> QED BY <2>4, <3>1, <3>2, <3>3
  <2> QED BY <1>4, <2>5, <2>6 DEF Load
<1>5. CASE Unload(w)
  <2>1. /\ p.op = "move" /\ p.pc = "unload" /\ p.rung \in BoundRung
        /\ entry' = entry /\ committed' = committed
        /\ data' = data \/ data' = [data EXCEPT ![p.want] = NoValue]
    BY <1>5, <1>0 DEF Unload, At, InPlace
  <2>2. /\ entry.state # "Ready" /\ p.val \in committed
        /\ data[p.rung] \in {p.val, NoValue}
    BY <2>1 DEF OneInv, UnderwayIsHidden, Underway, MovedIsCommitted, WrittenIsThere
  <2>3. data'[p.rung] \in {p.val, NoValue}
    BY <2>1, <2>2, <1>0
  <2>4. /\ Roles(w)' /\ proc'[w].op = "move" /\ proc'[w].pc = "settle"
        /\ proc'[w].rung = p.rung /\ proc'[w].val = p.val
    <3>1. Goto(w, "settle")
      BY <1>5 DEF Unload
    <3>2. Roles(w)' /\ proc'[w] = [p EXCEPT !.pc = "settle"]
      BY <2>1, <3>1, <1>0, WriterTurns
    <3> QED BY <2>1, <3>2, <1>0 DEF Proc
  <2>5. /\ ReadyIsClean' /\ UnderwayIsHidden(w)' /\ RestoredIsClean(w)' /\ SourceIsClean(w)'
        /\ CompensatesUnclean(w)'
    BY <2>1, <2>2, <2>4 DEF ReadyIsClean, UnderwayIsHidden, RestoredIsClean, Untouched,
                            SourceIsClean, CompensatesUnclean
  <2>6. WrittenIsThere(w)' /\ MovedIsCommitted(w)'
    BY <2>1, <2>2, <2>3, <2>4 DEF WrittenIsThere, MovedIsCommitted
  <2> QED BY <2>4, <2>5, <2>6 DEF OneInv
<1>6. CASE Undo(w)
  <2>1. /\ p.op = "move" /\ p.pc = "undo" /\ entry' = entry /\ committed' = committed
    BY <1>6 DEF Undo, At
  <2>2. entry.state # "Ready"
    BY <2>1 DEF OneInv, UnderwayIsHidden, Underway
  <2>3. Roles(w)' /\ proc'[w].op = "move" /\ proc'[w].pc = "refused"
    <3>1. Goto(w, "refused")
      BY <1>6 DEF Undo
    <3>2. Roles(w)' /\ proc'[w] = [p EXCEPT !.pc = "refused"]
      BY <2>1, <3>1, <1>0, WriterTurns
    <3> QED BY <2>1, <3>2, <1>0 DEF Proc
  <2>4. /\ ReadyIsClean' /\ UnderwayIsHidden(w)' /\ RestoredIsClean(w)' /\ SourceIsClean(w)'
        /\ CompensatesUnclean(w)' /\ WrittenIsThere(w)' /\ MovedIsCommitted(w)'
    BY <2>1, <2>2, <2>3 DEF ReadyIsClean, UnderwayIsHidden, RestoredIsClean, Untouched,
                            SourceIsClean, CompensatesUnclean, WrittenIsThere, MovedIsCommitted
  <2> QED BY <2>3, <2>4 DEF OneInv
<1>7. ASSUME NEW ttl \in Ttls, Settle(w, ttl) PROVE OneInv(w)'
  <2>1. p.op = "move" /\ p.pc = "settle" /\ data' = data /\ committed' = committed
    BY <1>7 DEF Settle, At, ladderVars
  <2>2. /\ entry.state # "Ready" /\ p.val \in committed
        /\ data[p.rung] \in {p.val, NoValue}
    BY <2>1 DEF OneInv, UnderwayIsHidden, Underway, MovedIsCommitted, WrittenIsThere
  <2>3. CASE CommitAdmits(entry, [generation |-> p.gen])
    <3>1. entry' = Committed(entry, [tier |-> p.rung], ttl) /\ End(w)
      BY <1>7, <2>3 DEF Settle
    <3>2. Roles(w)' /\ proc'[w].op = "none" /\ entry'.tier = p.rung
      BY <3>1, <1>0, WriterTurns, TierFields, SMT
    <3>3. ReadyIsClean'
      BY <3>2, <2>1, <2>2 DEF ReadyIsClean, Clean
    <3>4. /\ RestoredIsClean(w)' /\ WrittenIsThere(w)' /\ SourceIsClean(w)'
          /\ MovedIsCommitted(w)' /\ UnderwayIsHidden(w)' /\ CompensatesUnclean(w)'
      BY <3>2 DEF RestoredIsClean, Untouched, WrittenIsThere, SourceIsClean, MovedIsCommitted,
                  UnderwayIsHidden, Underway, CompensatesUnclean
    <3> QED BY <3>2, <3>3, <3>4 DEF OneInv
  <2>4. CASE ~CommitAdmits(entry, [generation |-> p.gen])
    <3> DEFINE q == [p EXCEPT !.pc = "undo", !.err = "StaleGeneration"]
    <3>1. q.op = "move" /\ q.pc = "undo"
      BY <2>1, <1>0 DEF Proc
    <3>2. Become(w, q) /\ entry' = entry
      BY <1>7, <2>4 DEF Settle
    <3> HIDE DEF q
    <3>3. Roles(w)' /\ proc'[w] = q
      BY <3>1, <3>2, <1>0, WriterTurns
    <3>4. /\ ReadyIsClean' /\ UnderwayIsHidden(w)' /\ RestoredIsClean(w)' /\ SourceIsClean(w)'
          /\ CompensatesUnclean(w)' /\ WrittenIsThere(w)' /\ MovedIsCommitted(w)'
      BY <2>1, <2>2, <3>1, <3>2, <3>3
         DEF ReadyIsClean, UnderwayIsHidden, RestoredIsClean, Untouched, SourceIsClean,
             CompensatesUnclean, WrittenIsThere, MovedIsCommitted
    <3> QED BY <3>3, <3>4 DEF OneInv
  <2> QED BY <2>3, <2>4
<1> QED BY <1>1, <1>2, <1>3, <1>4, <1>5, <1>6, <1>7

-----------------------------------------------------------------------------
(* Only w writes and moves; nobody populates.                              *)
OnlyWriter(w) ==
  \A c \in Callers :
    Ops[c] \subseteq {"get", "invalidate", "remove"} \cup IF c = w THEN {"set", "move"} ELSE {}

(* Every step keeps the invariant.                                         *)
LEMMA OneStep ==
  ASSUME NEW w \in Callers, OnlyWriter(w), TInv, OneInv(w), [Next]_vars
  PROVE  OneInv(w)'
<1>0. \A c \in Callers : proc[c].op \in Reading \cup IF c = w THEN {"set", "move"} ELSE {}
  BY DEF OneInv, Roles
<1>1. ASSUME NEW c \in Callers, Proceed(c) PROVE OneInv(w)'
  <2>1. CASE proc[c].op \in {"set", "move"}
    <3>1. c = w
      BY <2>1, <1>0 DEF Reading
    <3>2. MoveRefused(w) => OneInv(w)'
      BY OthersAreHarmless, HarmlessKeeps
    <3>3. \/ Prepare(w) \/ Write(w) \/ Compensate(w) \/ SetRefused(w) \/ Reclaim(w) \/ DropSlot(w)
          \/ (\E ttl \in Ttls : Commit(w, ttl)) \/ (\E ttl \in Ttls : Settle(w, ttl))
          \/ Yield(w) \/ Load(w) \/ Unload(w) \/ Undo(w) \/ MoveRefused(w)
      BY <1>1, <2>1, <3>1 DEF Proceed, Keep, MarkStale, Reacquire, Fetch, PopulationRefused, Scan,
           Lookup, Recheck, WaitOver, Serve, Clear, Publish, At, Populating
    <3> QED BY <3>2, <3>3, SetKeeps, MoveKeeps
  <2>2. CASE proc[c].op \in Reading
    <3>1. \/ MarkStale(c) \/ Lookup(c) \/ Recheck(c) \/ WaitOver(c) \/ Serve(c) \/ Clear(c)
      BY <1>1, <2>2 DEF Proceed, Prepare, Write, Compensate, SetRefused, Reclaim, DropSlot, Commit,
           Settle, Publish, Yield, Load, Unload, Undo, MoveRefused, Keep, Reacquire, Fetch,
           PopulationRefused, Scan, At, Populating, Reading
    <3> QED BY <3>1, OthersAreHarmless, HarmlessKeeps
  <2> QED BY <2>1, <2>2, <1>0
<1>2. ASSUME NEW c \in Callers, Begin(c) PROVE OneInv(w)'
  <2>1. ~FetchBegin(c) /\ ~RefreshBegin(c) /\ (SetBegin(c) \/ MoveBegin(c) => c = w)
    BY DEF OnlyWriter, FetchBegin, RefreshBegin, SetBegin, MoveBegin, Start
  <2>2. CASE SetBegin(c) \/ MoveBegin(c)
    BY <2>1, <2>2, SetKeeps, MoveKeeps
  <2>3. CASE GetBegin(c) \/ RemoveBegin(c) \/ Invalidate(c)
    BY <2>3, OthersAreHarmless, HarmlessKeeps
  <2> QED BY <1>2, <2>1, <2>2, <2>3 DEF Begin
<1>3. ASSUME NEW c \in Callers, Cancel(c) PROVE OneInv(w)'
  BY <1>3, OthersAreHarmless, HarmlessKeeps
<1>4. CASE ElapseTtl \/ UNCHANGED vars
  <2>1. data' = data /\ proc' = proc /\ committed' = committed
    BY <1>4 DEF ElapseTtl, vars, ladderVars
  <2>2. entry'.state = entry.state /\ entry'.tier = entry.tier /\ entry'.prev = entry.prev
    BY <1>4 DEF ElapseTtl, vars, TInv, EntryOK, Entry
  <2>3. Harmless(w)
    BY <2>1, <2>2 DEF Harmless, OneInv, Roles
  <2> QED BY <2>3, HarmlessKeeps
<1>5. ASSUME NEW t \in BoundRung, RungLoses(t) PROVE OneInv(w)'
  <2>1. \A r \in BoundRung : data'[r] \in {data[r], NoValue}
    BY <1>5 DEF RungLoses, Lose, TInv, RestOK, LadderTypeOK
  <2>2. entry' = entry /\ proc' = proc /\ committed' = committed
    BY <1>5 DEF RungLoses
  <2>3. Harmless(w)
    BY <2>1, <2>2 DEF Harmless, OneInv, Roles
  <2> QED BY <2>3, HarmlessKeeps
<1> QED BY <1>1, <1>2, <1>3, <1>4, <1>5 DEF Next

(* With one writer, what is Ready was committed, or is gone: no write that *)
(* was refused, retried, moved down, compensated for or abandoned is ever  *)
(* visible.                                                                *)
THEOREM OneWriterIsClean ==
  ASSUME NEW w \in Callers, OnlyWriter(w)
  PROVE  Spec => []ReadyIsCommitted
<1>1. Init => OneInv(w)
  <2> SUFFICES ASSUME Init PROVE OneInv(w)
    OBVIOUS
  <2>1. entry.state = "Absent" /\ \A c \in Callers : proc[c].op = "none" /\ proc[c].pc = "idle"
    BY DEF Init, NewEntry, Idle
  <2> QED BY <2>1 DEF OneInv, Roles, Reading, ReadyIsClean, RestoredIsClean, Untouched,
            WrittenIsThere, SourceIsClean, MovedIsCommitted, UnderwayIsHidden, Underway,
            CompensatesUnclean
<1>2. TInv /\ OneInv(w) /\ [Next]_vars => OneInv(w)'
  BY OneStep
<1>3. OneInv(w) => ReadyIsCommitted
  BY DEF OneInv, ReadyIsClean, Clean, ReadyIsCommitted, Visible
<1> QED BY <1>1, <1>2, <1>3, Invariance, PTL DEF Spec

-----------------------------------------------------------------------------
(* When no call is underway nothing is left half done.                     *)

(* Nobody is left waited for.                                              *)

(* A population holds the claim.                                           *)
Holding(p) == p.op \in Populating /\ p.pc \in {"fetch", "write", "publish", "refused"}

(* A move has prepared and not settled.                                    *)
Moving(p) == Underway(p) /\ p.op = "move"

(* At most one caller sets.                                                *)
OneSetter == \A c, d \in Callers : "set" \in Ops[c] /\ "set" \in Ops[d] => c = d

(* Only callers that set do, and what refused a set is an error of a rung. *)
SetterOK(c) ==
  proc[c].op = "set" => /\ "set" \in Ops[c]
                        /\ proc[c].pc \in {"compensate", "refused"} => proc[c].err \in WriteErrors

(* An InFlight entry has a population at work on it.                       *)
ClaimIsHeld == entry.state = "InFlight" => \E c \in Callers : Holding(proc[c])

(* A Prepared entry has a caller that will settle it.                      *)
PreparedIsUnderway == entry.state = "Prepared" => \E c \in Callers : Underway(proc[c])

(* Only an entry that exists is waited for.                                *)
PendingIsCreated == entry.state \in Pending => entry.created

(* What a clean abort would restore has somebody at work on it, too.       *)
InterruptedIsHeld ==
  entry.state = "Prepared" =>
    /\ entry.prev = "InFlight" => \E c \in Callers : Holding(proc[c])
    /\ OneSetter /\ entry.prev = "Prepared" => \E c \in Callers : Moving(proc[c])

(* The inductive invariant behind QuietIsSettled, together with the types. *)
SettledInv ==
  /\ ClaimIsHeld /\ PreparedIsUnderway /\ PendingIsCreated /\ InterruptedIsHeld
  /\ \A c \in Callers : SetterOK(c)

(* A step of c that settles the entry; or leaves it as it is, with c no    *)
(* less at work than before; or claims it for c.                           *)
Carried(c) ==
  /\ \A d \in Callers \ {c} : proc'[d] = proc[d]
  /\ SetterOK(c)'
  /\ \/ entry'.state \notin Pending
     \/ /\ entry'.state = entry.state /\ entry'.prev = entry.prev
        /\ entry'.created = entry.created
        /\ Holding(proc[c]) => Holding(proc'[c])
        /\ entry.state = "Prepared" =>
             /\ Underway(proc[c]) => Underway(proc'[c])
             /\ Moving(proc[c]) => Moving(proc'[c])
     \/ entry'.state = "InFlight" /\ entry'.created /\ Holding(proc'[c])

(* Such a step keeps the invariant.                                        *)
LEMMA CarriedKeeps ==
  ASSUME SettledInv, NEW c \in Callers, Carried(c)
  PROVE  SettledInv'
<1>1. \A d \in Callers : SetterOK(d)'
  BY DEF SettledInv, SetterOK, Carried
<1>2. CASE entry'.state \notin Pending
  BY <1>1, <1>2 DEF SettledInv, ClaimIsHeld, PreparedIsUnderway, PendingIsCreated,
                    InterruptedIsHeld, Pending
<1>3. CASE entry'.state = "InFlight" /\ entry'.created /\ Holding(proc'[c])
  BY <1>1, <1>3 DEF SettledInv, ClaimIsHeld, PreparedIsUnderway, PendingIsCreated,
                    InterruptedIsHeld
<1>4. CASE /\ entry'.state = entry.state /\ entry'.prev = entry.prev
           /\ entry'.created = entry.created
           /\ Holding(proc[c]) => Holding(proc'[c])
           /\ entry.state = "Prepared" =>
                /\ Underway(proc[c]) => Underway(proc'[c])
                /\ Moving(proc[c]) => Moving(proc'[c])
  <2>1. \A d \in Callers : /\ Holding(proc[d]) => Holding(proc'[d])
                           /\ entry.state = "Prepared" =>
                                /\ Underway(proc[d]) => Underway(proc'[d])
                                /\ Moving(proc[d]) => Moving(proc'[d])
    BY <1>4 DEF Carried
  <2>2. ClaimIsHeld' /\ PendingIsCreated'
    BY <1>4, <2>1 DEF SettledInv, ClaimIsHeld, PendingIsCreated
  <2>3. PreparedIsUnderway'
    BY <1>4, <2>1 DEF SettledInv, PreparedIsUnderway
  <2>4. InterruptedIsHeld'
    BY <1>4, <2>1 DEF SettledInv, InterruptedIsHeld, OneSetter
  <2> QED BY <1>1, <2>2, <2>3, <2>4 DEF SettledInv
<1> QED BY <1>2, <1>3, <1>4 DEF Carried

(* What the updates of the manager leave of a caller.                      *)
LEMMA Updates ==
  ASSUME NEW x \in Proc, NEW pc, NEW u, NEW v, NEW w
  PROVE  /\ [x EXCEPT !.pc = pc].pc = pc /\ [x EXCEPT !.pc = pc].op = x.op
         /\ [x EXCEPT !.pc = pc].err = x.err
         /\ [x EXCEPT !.pc = pc, !.gen = u].pc = pc /\ [x EXCEPT !.pc = pc, !.gen = u].op = x.op
         /\ [x EXCEPT !.pc = pc, !.gen = u, !.rung = v].pc = pc
         /\ [x EXCEPT !.pc = pc, !.gen = u, !.rung = v].op = x.op
         /\ [x EXCEPT !.err = u, !.pc = pc].pc = pc /\ [x EXCEPT !.err = u, !.pc = pc].op = x.op
         /\ [x EXCEPT !.err = u, !.pc = pc].err = u
         /\ [x EXCEPT !.pc = pc, !.err = u].pc = pc /\ [x EXCEPT !.pc = pc, !.err = u].op = x.op
         /\ [x EXCEPT !.pc = pc, !.val = u].pc = pc /\ [x EXCEPT !.pc = pc, !.val = u].op = x.op
         /\ [x EXCEPT !.pc = pc, !.val = u, !.rung = v].pc = pc
         /\ [x EXCEPT !.pc = pc, !.val = u, !.rung = v].op = x.op
         /\ [x EXCEPT !.pc = pc, !.tries = u].pc = pc
         /\ [x EXCEPT !.pc = pc, !.tries = u].op = x.op
         /\ [x EXCEPT !.pc = pc, !.rung = u].pc = pc
         /\ [x EXCEPT !.pc = pc, !.rung = u].op = x.op
         /\ [x EXCEPT !.pc = pc, !.rung = u, !.tries = v].pc = pc
         /\ [x EXCEPT !.pc = pc, !.rung = u, !.tries = v].op = x.op
         /\ [x EXCEPT !.pc = pc, !.rung = u, !.tries = v, !.passes = w].pc = pc
         /\ [x EXCEPT !.pc = pc, !.rung = u, !.tries = v, !.passes = w].op = x.op
         /\ [x EXCEPT !.rung = u].pc = x.pc /\ [x EXCEPT !.rung = u].op = x.op
BY DEF Proc

(* Where a caller is neither in a population nor in a write.               *)
Free == {"idle", "prepare", "reclaim", "dropslot", "keep", "keepmark", "stale", "acquire",
         "reacquire", "scan", "lookup", "recheck", "wait", "serve", "clear"}

(* The entry stays as it is, and c goes on from where it was free.         *)
LEMMA FreeCarries ==
  ASSUME NEW c \in Callers, proc[c].pc \in Free, entry' = entry, SetterOK(c)',
         \A d \in Callers \ {c} : proc'[d] = proc[d]
  PROVE  Carried(c)
<1>1. ~Holding(proc[c]) /\ ~Underway(proc[c])
  BY DEF Holding, Underway, Free
<1> QED BY <1>1 DEF Carried, Moving

(* How a caller that ends, goes on or becomes q is kept in view.           *)
LEMMA Onwards ==
  ASSUME TInv, SettledInv, NEW c \in Callers
  PROVE  /\ End(c) => /\ \A d \in Callers \ {c} : proc'[d] = proc[d]
                      /\ SetterOK(c)'
         /\ \A q : Become(c, q) => proc'[c] = q /\ \A d \in Callers \ {c} : proc'[d] = proc[d]
         /\ \A q : /\ Become(c, q)
                   /\ q.op = "set" => /\ proc[c].op = "set"
                                      /\ q.pc \notin {"compensate", "refused"}
                   => SetterOK(c)'
         /\ \A pc : Goto(c, pc) => Become(c, [proc[c] EXCEPT !.pc = pc])
<1>1. End(c) => proc'[c].op = "none" /\ \A d \in Callers \ {c} : proc'[d] = proc[d]
  BY Becomes, SMT DEF Idle
<1>2. \A q : Become(c, q) => proc'[c] = q /\ \A d \in Callers \ {c} : proc'[d] = proc[d]
  BY Becomes
<1>3. SetterOK(c)
  BY DEF SettledInv
<1>4. \A q : /\ Become(c, q)
             /\ q.op = "set" => proc[c].op = "set" /\ q.pc \notin {"compensate", "refused"}
             => SetterOK(c)'
  BY <1>2, <1>3 DEF SetterOK
<1>5. \A pc : Goto(c, pc) => Become(c, [proc[c] EXCEPT !.pc = pc])
  BY DEF Goto, Become
<1> QED BY <1>1, <1>2, <1>4, <1>5 DEF SetterOK

(* What begins, reads or removes leaves the entry to those at work on it.  *)
LEMMA FreeStepsCarry ==
  ASSUME TInv, SettledInv, NEW c \in Callers,
         \/ SetBegin(c) \/ MoveBegin(c) \/ RefreshBegin(c) \/ GetBegin(c) \/ RemoveBegin(c)
         \/ Keep(c) \/ Scan(c) \/ Lookup(c) \/ Recheck(c) \/ WaitOver(c) \/ Serve(c) \/ DropSlot(c)
  PROVE  Carried(c)
<1> DEFINE p == proc[c]
<1>0. p \in Proc /\ Idle \in Proc /\ Idle.op = "none"
  BY IdleIsGood DEF TInv, ProcsOK, Good, Idle
<1>1. p.pc \in Free /\ entry' = entry
  BY DEF SetBegin, MoveBegin, RefreshBegin, GetBegin, RemoveBegin, Keep, Scan, Lookup, Recheck,
         WaitOver, Serve, DropSlot, Start, At, Free
<1> DEFINE Out == SetterOK(c)' /\ \A d \in Callers \ {c} : proc'[d] = proc[d]
<1>E. End(c) => Out
  BY Onwards
<1>B. \A q : /\ Become(c, q)
             /\ q.op = "set" => p.op = "set" /\ q.pc \notin {"compensate", "refused"}
             => Out
  BY Onwards
<1>G. \A pc : /\ Goto(c, pc)
              /\ p.op = "set" => pc \notin {"compensate", "refused"}
              => Out
  <2>1. \A pc : [p EXCEPT !.pc = pc].pc = pc /\ [p EXCEPT !.pc = pc].op = p.op
    BY <1>0, Updates, SMT
  <2>2. \A pc : Goto(c, pc) => Become(c, [p EXCEPT !.pc = pc])
    BY Onwards
  <2> HIDE DEF Out
  <2> QED BY <2>1, <2>2, <1>B
<1> SUFFICES Out
  BY <1>1, FreeCarries
<1> HIDE DEF Out
<1>2. CASE SetBegin(c)
  <2>1. PICK q : /\ Become(c, q) /\ q.op = "set" /\ q.pc = "prepare"
    <3>1. PICK want \in Wants : Become(c, [Idle EXCEPT !.pc = "prepare", !.op = "set",
                 !.val = used + 1, !.want = want, !.rung = NearestBound(want)])
      BY <1>2 DEF SetBegin
    <3>2. [Idle EXCEPT !.pc = "prepare", !.op = "set", !.val = used + 1, !.want = want,
                       !.rung = NearestBound(want)].op = "set"
      BY <1>0 DEF Proc
    <3>3. [Idle EXCEPT !.pc = "prepare", !.op = "set", !.val = used + 1, !.want = want,
                       !.rung = NearestBound(want)].pc = "prepare"
      BY <1>0 DEF Proc
    <3> QED BY <3>1, <3>2, <3>3
  <2>2. "set" \in Ops[c]
    BY <1>2 DEF SetBegin, Start
  <2>3. proc'[c] = q /\ \A d \in Callers \ {c} : proc'[d] = proc[d]
    BY <2>1, Onwards
  <2> QED BY <2>1, <2>2, <2>3 DEF Out, SetterOK
<1>3. CASE MoveBegin(c)
  <2>1. PICK r : Become(c, [Idle EXCEPT !.pc = "prepare", !.op = "move", !.rung = r,
                                        !.want = entry.tier])
    BY <1>3 DEF MoveBegin
  <2>2. [Idle EXCEPT !.pc = "prepare", !.op = "move", !.rung = r, !.want = entry.tier].op = "move"
    BY <1>0 DEF Proc
  <2> QED BY <2>1, <2>2, <1>B
<1>4. CASE RefreshBegin(c)
  <2>1. PICK want, pc : Become(c, [[Idle EXCEPT !.op = "refresh", !.want = want,
                                      !.rung = entry.tier] EXCEPT !.pc = pc])
    BY <1>4 DEF RefreshBegin
  <2>2. [[Idle EXCEPT !.op = "refresh", !.want = want, !.rung = entry.tier]
           EXCEPT !.pc = pc].op = "refresh"
    BY <1>0 DEF Proc
  <2> QED BY <2>1, <2>2, <1>B
<1>5. CASE GetBegin(c)
  <2>1. PICK pc : Become(c, [Idle EXCEPT !.pc = pc, !.op = "get", !.rung = entry.tier])
    BY <1>5 DEF GetBegin
  <2>2. [Idle EXCEPT !.pc = pc, !.op = "get", !.rung = entry.tier].op = "get"
    BY <1>0 DEF Proc
  <2> QED BY <2>1, <2>2, <1>B
<1>6. CASE RemoveBegin(c)
  <2>1. [Idle EXCEPT !.pc = "clear", !.op = "remove"].op = "remove"
    BY <1>0 DEF Proc
  <2> QED BY <1>6, <2>1, <1>B DEF RemoveBegin
<1>7. CASE Keep(c)
  BY <1>7, <1>G DEF Keep
<1>8. CASE Recheck(c) \/ Serve(c)
  BY <1>8, <1>E DEF Recheck, Serve
<1>9. CASE Scan(c)
  <2>1. p.op # "set" /\ [p EXCEPT !.rung = p.rung + 1].op = p.op
    BY <1>9, <1>0, Updates, SMT DEF Scan, At
  <2> QED BY <1>9, <2>1, <1>E, <1>B DEF Scan
<1>10. CASE Lookup(c)
  <2>1. p.op # "set" /\ [p EXCEPT !.pc = "recheck", !.val = data[p.rung]].op = p.op
    BY <1>10, <1>0, Updates, SMT DEF Lookup, At
  <2> QED BY <1>10, <2>1, <1>E, <1>B, <1>G DEF Lookup
<1>11. CASE WaitOver(c)
  <2>1. p.op # "set" /\ [p EXCEPT !.pc = "serve", !.rung = entry.tier].op = p.op
    BY <1>11, <1>0, Updates, SMT DEF WaitOver, At
  <2> QED BY <1>11, <2>1, <1>E, <1>B DEF WaitOver
<1>12. CASE DropSlot(c)
  <2> DEFINE q == [p EXCEPT !.pc = "prepare", !.rung = NearestBound(p.want), !.tries = 0,
                            !.passes = p.passes + 1]
  <2>1. p.op = "set" /\ q.op = p.op /\ q.pc = "prepare"
    BY <1>12, <1>0, Updates, SMT DEF DropSlot, At
  <2>2. Goto(c, "reclaim") \/ End(c) \/ Become(c, q)
    BY <1>12 DEF DropSlot, NextPass
  <2> HIDE DEF q
  <2> QED BY <2>1, <2>2, <1>E, <1>B, <1>G
<1> QED BY <1>2, <1>3, <1>4, <1>5, <1>6, <1>7, <1>8, <1>9, <1>10, <1>11, <1>12

(* The steps of a population, from the claim to the fetch's end.           *)
LEMMA PopulationCarries ==
  ASSUME TInv, SettledInv, NEW c \in Callers,
         \/ FetchBegin(c) \/ Reacquire(c) \/ Fetch(c) \/ PopulationRefused(c) \/ MarkStale(c)
         \/ \E ttl \in Ttls : Publish(c, ttl)
  PROVE  Carried(c)
<1> DEFINE p == proc[c]
<1>0. p \in Proc /\ Idle \in Proc /\ Idle.op = "none" /\ entry \in Entry
  BY IdleIsGood DEF TInv, ProcsOK, Good, Idle, EntryOK
<1>C. entry.state \in Pending => entry.created
  BY DEF SettledInv, PendingIsCreated
<1>E. End(c) => SetterOK(c)' /\ \A d \in Callers \ {c} : proc'[d] = proc[d]
  BY Onwards
<1>B. \A q : /\ Become(c, q) /\ q.op # "set"
             => /\ SetterOK(c)' /\ proc'[c] = q
                /\ \A d \in Callers \ {c} : proc'[d] = proc[d]
  BY Onwards
<1>A. ASSUME NEW q \in Proc, q.op \in Populating, p.pc \in Free, Acquired(c, q) PROVE Carried(c)
  <2>1. \A pc, u, v : /\ [q EXCEPT !.pc = pc].op = q.op
                      /\ [q EXCEPT !.pc = pc, !.gen = u].op = q.op
                      /\ [q EXCEPT !.pc = pc, !.gen = u].pc = pc
                      /\ [q EXCEPT !.pc = pc, !.gen = u, !.rung = v].op = q.op
    BY Updates, SMT
  <2>2. q.op # "set"
    BY <1>A DEF Populating
  <2>3. CASE entry' = Claimed(entry, q.want)
             /\ Become(c, [q EXCEPT !.pc = "fetch", !.gen = NextGeneration(entry)])
    <3>1. entry'.state = "InFlight" /\ entry'.created
      BY <2>3, <1>0, ClaimedFields, CreatedStays
    <3> DEFINE z == [q EXCEPT !.pc = "fetch", !.gen = NextGeneration(entry)]
    <3>2. Holding(z) /\ z.op # "set"
      BY <2>1, <2>2, <1>A DEF Holding
    <3>3. Become(c, z)
      BY <2>3
    <3> HIDE DEF z
    <3>4. SetterOK(c)' /\ proc'[c] = z /\ \A d \in Callers \ {c} : proc'[d] = proc[d]
      BY <3>2, <3>3, <1>B
    <3> QED BY <3>1, <3>2, <3>4 DEF Carried
  <2>4. CASE UNCHANGED entry
    <3> DEFINE y(pc, u) == [q EXCEPT !.pc = pc, !.gen = u]
               z(u, v) == [q EXCEPT !.pc = "lookup", !.gen = u, !.rung = v]
               x == [q EXCEPT !.pc = "wait"]
    <3>2. /\ \A pc, u : y(pc, u).op = q.op
          /\ \A u, v : z(u, v).op = q.op
          /\ x.op = q.op
      BY <2>1, SMT
    <3>3. \/ End(c) \/ Become(c, x)
          \/ Become(c, z(entry.generation, entry.tier))
          \/ Become(c, y("fetch", NextGeneration(entry)))
          \/ Become(c, y("fetch", entry.generation)) \/ Become(c, y("stale", entry.generation))
      <4>1. \/ y(IF q.pc = "acquire" THEN "stale" ELSE "fetch", entry.generation)
                = y("fetch", entry.generation)
            \/ y(IF q.pc = "acquire" THEN "stale" ELSE "fetch", entry.generation)
                = y("stale", entry.generation)
        OBVIOUS
      <4> QED BY <4>1, <1>A, Zenon DEF Acquired
    <3> HIDE DEF x, y, z
    <3>0. End(c) \/ \E t : Become(c, t) /\ t.op = q.op
      BY <3>2, <3>3, SMTT(30)
    <3>1. SetterOK(c)' /\ \A d \in Callers \ {c} : proc'[d] = proc[d]
      BY <2>2, <3>0, <1>E, <1>B
    <3> QED BY <3>1, <2>4, <1>A, FreeCarries
  <2> QED BY <1>A, <2>3, <2>4 DEF Acquired
<1>1. CASE FetchBegin(c)
  <2>1. PICK want \in Wants :
          Acquired(c, [Idle EXCEPT !.pc = "acquire", !.op = "fetch", !.want = want])
    BY <1>1 DEF FetchBegin
  <2> DEFINE q == [Idle EXCEPT !.pc = "acquire", !.op = "fetch", !.want = want]
  <2>2. q \in Proc /\ q.op = "fetch"
    BY <1>0, WantsAreRungs, ZenonT(40) DEF Proc, Place
  <2>3. p.pc \in Free
    BY <1>1 DEF FetchBegin, Start, At, Free
  <2> QED BY <2>1, <2>2, <2>3, <1>A DEF Populating
<1>2. CASE Reacquire(c)
  BY <1>2, <1>0, <1>A DEF Reacquire, At, Free
<1>3. CASE MarkStale(c)
  <2>1. entry'.state = "Stale" /\ p.op # "set"
    BY <1>3, <1>0, MarkedStaleFields DEF MarkStale, At, Populating
  <2>2. [p EXCEPT !.pc = "reacquire"].op = p.op
    BY <1>0, Updates, SMT
  <2>3. SetterOK(c)' /\ \A d \in Callers \ {c} : proc'[d] = proc[d]
    BY <1>3, <2>1, <2>2, <1>E, <1>B, Onwards DEF MarkStale
  <2> QED BY <2>1, <2>3 DEF Carried, Pending
<1>H. ASSUME NEW q, q.op = p.op, p.op \in Populating, entry' = entry,
             q.pc \in {"fetch", "write", "publish", "refused"}, Become(c, q)
      PROVE  Carried(c)
  <2>1. /\ SetterOK(c)' /\ proc'[c] = q
        /\ \A d \in Callers \ {c} : proc'[d] = proc[d]
    BY <1>H, <1>B DEF Populating
  <2>2. Holding(q) /\ ~Underway(p)
    BY <1>H DEF Holding, Underway, Populating
  <2> QED BY <1>H, <2>1, <2>2 DEF Carried, Moving
<1>4. CASE Fetch(c)
  <2> DEFINE q == [p EXCEPT !.pc = "write", !.val = used + 1, !.rung = NearestBound(p.want)]
             z(err) == [p EXCEPT !.pc = "refused", !.err = err]
  <2>1. q.op = p.op /\ q.pc = "write" /\ \A err : z(err).op = p.op /\ z(err).pc = "refused"
    BY <1>0, Updates, SMT
  <2>2. p.op \in Populating /\ entry' = entry
    BY <1>4 DEF Fetch, At
  <2>3. Become(c, q) \/ \E err : Become(c, z(err))
    BY <1>4 DEF Fetch
  <2> HIDE DEF q, z
  <2> QED BY <2>1, <2>2, <2>3, <1>H
<1>5. CASE PopulationRefused(c)
  <2>0. p.op \in Populating
    BY <1>5 DEF PopulationRefused, At
  <2>1. CASE entry' = entry /\ Become(c, [p EXCEPT !.pc = "fetch", !.tries = p.tries + 1])
    <3>1. /\ [p EXCEPT !.pc = "fetch", !.tries = p.tries + 1].op = p.op
          /\ [p EXCEPT !.pc = "fetch", !.tries = p.tries + 1].pc = "fetch"
      BY <1>0, Updates, SMT
    <3> QED BY <2>0, <2>1, <3>1, <1>H
  <2>2. CASE /\ entry' = FailedWith(entry, p.err)
             /\ End(c) \/ Become(c, [p EXCEPT !.pc = "scan", !.rung = 0])
    <3>1. [p EXCEPT !.pc = "scan", !.rung = 0].op = p.op
      BY <1>0, Updates, SMT
    <3>2. SetterOK(c)' /\ \A d \in Callers \ {c} : proc'[d] = proc[d]
      BY <2>0, <2>2, <3>1, <1>E, <1>B DEF Populating
    <3>3. entry'.state \notin Pending
      BY <2>2, <1>0, <1>C, FailedFields DEF Pending
    <3> QED BY <3>2, <3>3 DEF Carried
  <2> QED BY <1>5, <2>1, <2>2 DEF PopulationRefused
<1>6. ASSUME NEW ttl \in Ttls, Publish(c, ttl) PROVE Carried(c)
  <2>0. p.op \in Populating
    BY <1>6 DEF Publish, At
  <2>1. CASE entry' = Published(entry, p.rung, ttl) /\ End(c)
    BY <2>1, <1>0, <1>E, PublishedFields DEF Carried, Pending
  <2>2. CASE entry' = entry /\ Become(c, [p EXCEPT !.pc = "refused", !.err = "StaleGeneration"])
    <3>1. /\ [p EXCEPT !.pc = "refused", !.err = "StaleGeneration"].op = p.op
          /\ [p EXCEPT !.pc = "refused", !.err = "StaleGeneration"].pc = "refused"
      BY <1>0, Updates, SMT
    <3> QED BY <2>0, <2>2, <3>1, <1>H
  <2> QED BY <1>6, <2>1, <2>2 DEF Publish
<1> QED BY <1>1, <1>2, <1>3, <1>4, <1>5, <1>6

(* The steps of a write and of a move that have an abort or a commit to    *)
(* answer for.                                                             *)
LEMMA WritesCarry ==
  ASSUME TInv, SettledInv, NEW c \in Callers,
         \/ Write(c) \/ Compensate(c) \/ Reclaim(c) \/ Yield(c) \/ Load(c) \/ Unload(c)
         \/ Undo(c) \/ MoveRefused(c)
         \/ \E ttl \in Ttls : Commit(c, ttl) \/ Settle(c, ttl)
  PROVE  Carried(c)
<1> DEFINE p == proc[c]
<1>0. p \in Proc /\ entry \in Entry /\ SetterOK(c)
  BY DEF TInv, ProcsOK, Good, EntryOK, SettledInv
<1>E. End(c) => SetterOK(c)' /\ \A d \in Callers \ {c} : proc'[d] = proc[d]
  BY Onwards
<1>B. \A q : Become(c, q) => proc'[c] = q /\ \A d \in Callers \ {c} : proc'[d] = proc[d]
  BY Onwards
<1>S. \A q : /\ Become(c, q)
             /\ q.op = "set" => p.op = "set" /\ q.pc \notin {"compensate", "refused"}
             => SetterOK(c)'
  BY Onwards
<1>G. \A pc : /\ Goto(c, pc) => Become(c, [p EXCEPT !.pc = pc])
              /\ [p EXCEPT !.pc = pc].pc = pc /\ [p EXCEPT !.pc = pc].op = p.op
              /\ [p EXCEPT !.pc = pc].err = p.err
  BY <1>0, Updates, Onwards, SMT
<1>M. ASSUME NEW q, Become(c, q), entry' = entry, p.op = "move", q.op = "move",
             q.pc \in {"load", "write", "unload", "settle", "undo", "refused"}
      PROVE  Carried(c)
  <2>1. ~Holding(p) /\ Underway(q) /\ Moving(q)
    BY <1>M DEF Holding, Populating, Underway, Moving
  <2> QED BY <1>M, <2>1, <1>B, <1>S DEF Carried
<1>W. ASSUME NEW q, Become(c, q), entry' = entry, p.op = "set", q.op = "set",
             q.pc \in {"write", "compensate", "refused", "commit", "yield"},
             q.pc \in {"compensate", "refused"} => q.err \in WriteErrors
      PROVE  Carried(c)
  <2>1. ~Holding(p) /\ Underway(q) /\ ~Moving(p)
    BY <1>W DEF Holding, Populating, Underway, Moving
  <2>2. SetterOK(c)'
    BY <1>W, <1>B, <1>0 DEF SetterOK
  <2> QED BY <1>W, <2>1, <2>2, <1>B DEF Carried
<1>P. ASSUME NEW q, Become(c, q), entry' = entry, p.op \in Populating, q.op = p.op,
             q.pc \in {"publish", "refused"}
      PROVE  Carried(c)
  <2>1. Holding(q) /\ ~Underway(p) /\ q.op # "set"
    BY <1>P DEF Holding, Populating, Underway
  <2> QED BY <1>P, <2>1, <1>B, <1>S DEF Carried, Moving
(* An abort settles a Prepared entry and leaves any other alone.           *)
<1>A. ASSUME NEW err, entry' = Aborted(entry, err), p.op \in {"set", "move"}, SetterOK(c)',
             \A d \in Callers \ {c} : proc'[d] = proc[d]
      PROVE  Carried(c)
  <2>1. ~Holding(p)
    BY <1>A DEF Holding, Populating
  <2>2. CASE entry.state = "Prepared"
    BY <2>2, <1>A, <1>0, AbortedFields DEF Carried, Pending
  <2>3. CASE entry.state # "Prepared"
    <3>1. entry' = entry
      BY <2>3, <1>A, <1>0, AbortedFields
    <3> QED BY <3>1, <2>1, <2>3, <1>A DEF Carried
  <2> QED BY <2>2, <2>3
<1>1. CASE Write(c)
  <2>0. p.pc = "write" /\ p.op \in {"set", "move", "fetch", "refresh"} /\ entry' = entry
    BY <1>1 DEF Write, At, Populating
  <2>1. CASE Goto(c, AfterWrite(p.op))
    <3> DEFINE q == [p EXCEPT !.pc = AfterWrite(p.op)]
    <3>1. Become(c, q) /\ q.op = p.op /\ q.pc = AfterWrite(p.op)
      BY <2>1, <1>G
    <3> HIDE DEF q
    <3>2. q.pc = CASE p.op = "set" -> "commit" [] p.op = "move" -> "unload" [] OTHER -> "publish"
      BY <3>1 DEF AfterWrite
    <3>3. CASE p.op = "set"
      BY <3>1, <3>2, <3>3, <2>0, <1>W
    <3>4. CASE p.op = "move"
      BY <3>1, <3>2, <3>4, <2>0, <1>M
    <3>5. CASE p.op \in {"fetch", "refresh"}
      BY <3>1, <3>2, <3>5, <2>0, <1>P DEF Populating
    <3> QED BY <2>0, <3>3, <3>4, <3>5
  <2>2. ASSUME NEW err \in WriteErrors,
               Become(c, [p EXCEPT !.err = err,
                   !.pc = IF p.op = "set" /\ err = "WriteIndeterminate"
                          THEN "compensate" ELSE "refused"])
        PROVE  Carried(c)
    <3> DEFINE pc == IF p.op = "set" /\ err = "WriteIndeterminate"
                     THEN "compensate" ELSE "refused"
               q == [p EXCEPT !.err = err, !.pc = pc]
    <3>1. pc \in {"compensate", "refused"} /\ (p.op # "set" => pc = "refused")
      OBVIOUS
    <3>2. Become(c, q)
      BY <2>2
    <3> HIDE DEF pc
    <3>3. q.op = p.op /\ q.pc = pc /\ q.err = err
      BY <1>0, Updates, SMT
    <3> HIDE DEF q
    <3>4. CASE p.op = "set"
      BY <3>1, <3>2, <3>3, <3>4, <2>0, <1>W
    <3>5. CASE p.op = "move"
      BY <3>1, <3>2, <3>3, <3>5, <2>0, <1>M
    <3>6. CASE p.op \in {"fetch", "refresh"}
      BY <3>1, <3>2, <3>3, <3>6, <2>0, <1>P DEF Populating
    <3> QED BY <2>0, <3>4, <3>5, <3>6
  <2> QED BY <1>1, <2>1, <2>2 DEF Write
<1>2. CASE Compensate(c)
  <2>1. p.op = "set" /\ p.pc = "compensate" /\ entry' = entry /\ Goto(c, "refused")
    BY <1>2 DEF Compensate, At
  <2>2. p.err \in WriteErrors
    BY <2>1, <1>0 DEF SetterOK
  <2> QED BY <2>1, <2>2, <1>G, <1>W
<1>3. CASE Reclaim(c)
  <2>0. p.op = "set" /\ p.pc = "reclaim"
    BY <1>3 DEF Reclaim, At
  <2> DEFINE q == [p EXCEPT !.pc = "prepare", !.rung = NearestBound(p.want), !.tries = 0,
                            !.passes = p.passes + 1]
             z(r) == [p EXCEPT !.pc = "dropslot", !.rung = r]
  <2>1. q.op = p.op /\ q.pc = "prepare" /\ \A r : z(r).op = p.op /\ z(r).pc = "dropslot"
    BY <1>0, Updates, SMT
  <2>2. \/ entry' = entry /\ (End(c) \/ Become(c, q))
        \/ entry' = Evicted(entry) /\ \E r : Become(c, z(r))
    BY <1>3 DEF Reclaim, NextPass
  <2> HIDE DEF q, z
  <2>3. SetterOK(c)' /\ \A d \in Callers \ {c} : proc'[d] = proc[d]
    BY <2>0, <2>1, <2>2, <1>E, <1>B, <1>S
  <2>4. CASE entry' = entry
    BY <2>0, <2>3, <2>4, FreeCarries DEF Free
  <2>5. CASE entry' = Evicted(entry)
    BY <2>3, <2>5, <1>0, EvictedFields DEF Carried, Pending
  <2> QED BY <2>2, <2>4, <2>5
<1>4. CASE Yield(c)
  <2>1. p.op = "set" /\ entry' = Aborted(entry, "Cancelled") /\ Goto(c, "prepare")
    BY <1>4 DEF Yield, At
  <2> DEFINE q == [p EXCEPT !.pc = "prepare"]
  <2>3. Become(c, q) /\ q.op = "set" /\ q.pc = "prepare"
    BY <2>1, <1>G
  <2> HIDE DEF q
  <2>2. SetterOK(c)' /\ \A d \in Callers \ {c} : proc'[d] = proc[d]
    BY <2>1, <2>3, <1>B, <1>S
  <2> QED BY <2>1, <2>2, <1>A
<1>5. CASE Load(c)
  <2>0. p.op = "move" /\ entry' = entry
    BY <1>5 DEF Load, At
  <2> DEFINE q(err) == [p EXCEPT !.pc = "refused", !.err = err]
             z(val) == [p EXCEPT !.pc = "write", !.val = val]
  <2>1. /\ \A err : q(err).op = p.op /\ q(err).pc = "refused"
        /\ \A val : z(val).op = p.op /\ z(val).pc = "write"
    BY <1>0, Updates, SMT
  <2>2. (\E err : Become(c, q(err))) \/ \E val : Become(c, z(val))
    BY <1>5 DEF Load
  <2> HIDE DEF q, z
  <2> QED BY <2>0, <2>1, <2>2, <1>M
<1>6. CASE Unload(c) \/ Undo(c)
  <2>1. p.op = "move" /\ entry' = entry /\ (Goto(c, "settle") \/ Goto(c, "refused"))
    BY <1>6 DEF Unload, Undo, At
  <2> DEFINE q(pc) == [p EXCEPT !.pc = pc]
  <2>2. \A pc : (Goto(c, pc) => Become(c, q(pc))) /\ q(pc).op = p.op /\ q(pc).pc = pc
    BY <1>G
  <2> HIDE DEF q
  <2> QED BY <2>1, <2>2, <1>M
<1>7. CASE MoveRefused(c)
  BY <1>7, <1>E, <1>A DEF MoveRefused, At
<1>8. ASSUME NEW ttl \in Ttls, Commit(c, ttl) PROVE Carried(c)
  <2>0. p.op = "set"
    BY <1>8 DEF Commit, At
  <2> DEFINE q == [p EXCEPT !.pc = "yield", !.tries = p.tries + 1]
  <2>1. q.op = p.op /\ q.pc = "yield"
    BY <1>0, Updates, SMT
  <2>2. \/ entry' = Committed(entry, [tier |-> p.rung], ttl) /\ End(c)
        \/ entry' = entry /\ Become(c, q)
        \/ entry' = Aborted(entry, "Cancelled") /\ End(c)
    BY <1>8 DEF Commit
  <2> HIDE DEF q
  <2>3. CASE entry' = Committed(entry, [tier |-> p.rung], ttl) /\ End(c)
    BY <2>3, <1>0, <1>E, CommittedFields DEF Carried, Pending
  <2> QED BY <2>0, <2>1, <2>2, <2>3, <1>E, <1>A, <1>W
<1>9. ASSUME NEW ttl \in Ttls, Settle(c, ttl) PROVE Carried(c)
  <2>0. p.op = "move"
    BY <1>9 DEF Settle, At
  <2> DEFINE q == [p EXCEPT !.pc = "undo", !.err = "StaleGeneration"]
  <2>1. q.op = p.op /\ q.pc = "undo"
    BY <1>0, Updates, SMT
  <2>2. \/ entry' = Committed(entry, [tier |-> p.rung], ttl) /\ End(c)
        \/ entry' = entry /\ Become(c, q)
    BY <1>9 DEF Settle
  <2> HIDE DEF q
  <2>3. CASE entry' = Committed(entry, [tier |-> p.rung], ttl) /\ End(c)
    BY <2>3, <1>0, <1>E, CommittedFields DEF Carried, Pending
  <2> QED BY <2>0, <2>1, <2>2, <2>3, <1>M
<1> QED BY <1>1, <1>2, <1>3, <1>4, <1>5, <1>6, <1>7, <1>8, <1>9

(* invalidate, remove and a cancellation: whoever leaves settles what it   *)
(* was at work on.                                                         *)
LEMMA LeavingCarries ==
  ASSUME TInv, SettledInv, NEW c \in Callers, Invalidate(c) \/ Clear(c) \/ Cancel(c)
  PROVE  Carried(c)
<1> DEFINE p == proc[c]
<1>0. p \in Proc /\ entry \in Entry /\ SetterOK(c) /\ (entry.state \in Pending => entry.created)
  BY DEF TInv, ProcsOK, Good, EntryOK, SettledInv, PendingIsCreated
<1>E. End(c) => SetterOK(c)' /\ \A d \in Callers \ {c} : proc'[d] = proc[d]
  BY Onwards
<1>I. Invalidated(entry).state \notin Pending
  BY <1>0, InvalidatedFields DEF Pending
<1>1. CASE Invalidate(c)
  BY <1>1, <1>0, <1>I DEF Invalidate, Carried, SetterOK
<1>2. CASE Clear(c)
  <2>0. p.op = "remove" /\ p.pc \in Free
    BY <1>2 DEF Clear, At, Free
  <2>1. CASE entry' = Invalidated(entry) /\ End(c)
    BY <2>1, <1>E, <1>I DEF Carried
  <2>2. CASE entry' = entry /\ Become(c, [p EXCEPT !.rung = p.rung + 1])
    <3>1. [p EXCEPT !.rung = p.rung + 1].op = p.op
      BY <1>0, Updates, SMT
    <3> QED BY <2>0, <2>2, <3>1, FreeCarries, Onwards
  <2> QED BY <1>2, <2>1, <2>2 DEF Clear
<1>3. CASE Cancel(c)
  <2>1. SetterOK(c)' /\ \A d \in Callers \ {c} : proc'[d] = proc[d]
    BY <1>3, <1>E DEF Cancel
  <2>2. HoldsClaim(c) <=> Holding(p)
    BY DEF HoldsClaim, Holding, At
  <2>3. CASE p.op \in {"set", "move"}
    <3>0. ~Holding(p)
      BY <2>3 DEF Holding, Populating
    <3>1. entry' = Aborted(entry, "Cancelled") /\ ~Holding(p)
      BY <1>3, <2>2, <2>3, <3>0 DEF Cancel
    <3>2. entry.state = "Prepared" => entry'.state = "Failed"
      BY <3>1, <1>0, AbortedFields
    <3>3. entry.state # "Prepared" => entry' = entry
      BY <3>1, <1>0, AbortedFields
    <3> QED BY <2>1, <3>1, <3>2, <3>3 DEF Carried, Pending
  <2>4. CASE p.op \notin {"set", "move"} /\ Holding(p)
    <3>1. entry' = FailedWith(entry, "Cancelled")
      BY <1>3, <2>2, <2>4 DEF Cancel
    <3>2. entry'.state \notin Pending
      BY <3>1, <1>0, FailedFields DEF Pending
    <3> QED BY <2>1, <3>2 DEF Carried
  <2>5. CASE p.op \notin {"set", "move"} /\ ~Holding(p)
    <3>1. entry' = entry /\ ~Underway(p)
      BY <1>3, <2>2, <2>5 DEF Cancel, Underway
    <3> QED BY <2>1, <2>5, <3>1 DEF Carried, Moving
  <2> QED BY <2>3, <2>4, <2>5
<1> QED BY <1>1, <1>2, <1>3

(* prepare interrupts whatever it finds, and whoever was at work still is. *)
LEMMA PrepareKeeps ==
  ASSUME TInv, SettledInv, NEW c \in Callers, Prepare(c)
  PROVE  SettledInv'
<1> DEFINE p == proc[c]
           q == [p EXCEPT !.pc = IF p.op = "set" THEN "write" ELSE "load",
                          !.gen = entry.generation]
<1>0. p \in Proc /\ entry \in Entry /\ \A d \in Callers : SetterOK(d)
  BY DEF TInv, ProcsOK, Good, EntryOK, SettledInv
<1>1. p.pc = "prepare" /\ p.op \in {"set", "move"} /\ Become(c, q)
  BY DEF Prepare, At
<1>2. q.op = p.op /\ q.pc = IF p.op = "set" THEN "write" ELSE "load"
  BY <1>0, Updates, SMT
<1> HIDE DEF q
<1>3. Underway(q) /\ ~Underway(p) /\ ~Holding(p) /\ (p.op = "move" => Moving(q))
  BY <1>1, <1>2 DEF Underway, Holding, Moving, Populating
<1>4. proc'[c] = q /\ \A d \in Callers \ {c} : proc'[d] = proc[d]
  BY <1>1, Onwards
<1>5. \A d \in Callers : SetterOK(d)'
  BY <1>0, <1>1, <1>2, <1>4 DEF SetterOK
<1>6. entry'.state = "Prepared" /\ entry'.prev = entry.state /\ entry'.created
  BY <1>0, PreparedFields, CreatedStays, SMT DEF Prepare
<1>7. entry.state = "InFlight" => \E d \in Callers : Holding(proc'[d])
  BY <1>3, <1>4 DEF SettledInv, ClaimIsHeld
<1>8. ASSUME OneSetter, entry.state = "Prepared" PROVE \E d \in Callers : Moving(proc'[d])
  <2>1. CASE p.op = "move"
    BY <2>1, <1>3, <1>4
  <2>2. CASE p.op = "set"
    <3>1. PICK d \in Callers : Underway(proc[d])
      BY <1>8 DEF SettledInv, PreparedIsUnderway
    <3>2. d # c /\ proc[d].op # "set"
      BY <3>1, <2>2, <1>0, <1>3, <1>8 DEF OneSetter, SetterOK
    <3>3. Moving(proc[d])
      BY <3>1, <3>2 DEF Moving, Underway
    <3> QED BY <3>2, <3>3, <1>4
  <2> QED BY <1>1, <2>1, <2>2
<1>9. ClaimIsHeld' /\ PreparedIsUnderway' /\ PendingIsCreated'
  BY <1>3, <1>4, <1>6 DEF ClaimIsHeld, PreparedIsUnderway, PendingIsCreated
<1>10. InterruptedIsHeld'
  BY <1>6, <1>7, <1>8 DEF InterruptedIsHeld, OneSetter
<1> QED BY <1>5, <1>9, <1>10 DEF SettledInv

(* A refused set aborts, or restores what it interrupted; with one setter  *)
(* that is settled, or somebody else is at work on it.                     *)
LEMMA RefusedKeeps ==
  ASSUME WriteErrors \cap ProvablyClean = {} \/ OneSetter,
         TInv, SettledInv, NEW c \in Callers, SetRefused(c)
  PROVE  SettledInv'
<1> DEFINE p == proc[c]
           q == [p EXCEPT !.pc = "prepare", !.rung = p.rung - 1, !.tries = 0]
<1>0. p \in Proc /\ entry \in Entry /\ \A d \in Callers : SetterOK(d)
  BY DEF TInv, ProcsOK, Good, EntryOK, SettledInv
<1>1. p.pc = "refused" /\ p.op = "set" /\ p.err \in WriteErrors
  BY <1>0 DEF SetRefused, At, SetterOK
<1>2. SetterOK(c)' /\ \A d \in Callers \ {c} : proc'[d] = proc[d]
  <2>1. q.op = p.op /\ q.pc = "prepare"
    BY <1>0, Updates, SMT
  <2>2. /\ [p EXCEPT !.pc = "reclaim"].op = p.op
        /\ [p EXCEPT !.pc = "reclaim"].pc = "reclaim"
    BY <1>0, Updates, SMT
  <2>3. Become(c, q) \/ Goto(c, "reclaim") \/ End(c)
    BY DEF SetRefused
  <2> HIDE DEF q
  <2>4. Become(c, q) \/ Become(c, [p EXCEPT !.pc = "reclaim"]) \/ End(c)
    BY <2>3, Onwards
  <2> QED BY <1>1, <2>1, <2>2, <2>4, Onwards
<1>3. ~Holding(p) /\ ~Moving(p)
  BY <1>1 DEF Holding, Moving, Populating
<1>4. CASE entry.state # "Prepared"
  <2>1. entry' = entry
    BY <1>0, <1>4, AbortedFields, AbortedCleanFields DEF SetRefused
  <2>2. Carried(c)
    BY <1>2, <1>3, <1>4, <2>1 DEF Carried
  <2> QED BY <2>2, CarriedKeeps
<1>5. CASE entry.state = "Prepared" /\ p.err \notin ProvablyClean
  <2>1. entry'.state = "Failed"
    BY <1>0, <1>5, AbortedFields DEF SetRefused
  <2>2. Carried(c)
    BY <1>2, <2>1 DEF Carried, Pending
  <2> QED BY <2>2, CarriedKeeps
<1>6. CASE entry.state = "Prepared" /\ p.err \in ProvablyClean
  <2>0. OneSetter /\ OneSetter'
    BY <1>1, <1>6 DEF OneSetter
  <2>1. entry' = AbortedClean(entry, p.err)
    BY <1>6 DEF SetRefused
  <2>2. entry'.state = entry.prev /\ entry'.prev = entry.prev
    BY <2>1, <1>0, <1>6, AbortedCleanFields
  <2>3. entry'.created
    BY <2>1, <1>0, <1>6, CreatedStays DEF SettledInv, PendingIsCreated, Pending
  <2>4. entry.prev = "InFlight" => \E d \in Callers : Holding(proc'[d])
    BY <1>2, <1>3, <1>6 DEF SettledInv, InterruptedIsHeld
  <2>5. entry.prev = "Prepared" => \E d \in Callers : Moving(proc'[d])
    BY <1>2, <1>3, <1>6, <2>0 DEF SettledInv, InterruptedIsHeld
  <2>6. \A d \in Callers : SetterOK(d)'
    BY <1>0, <1>2 DEF SetterOK
  <2>7. ClaimIsHeld' /\ PendingIsCreated'
    BY <2>2, <2>3, <2>4 DEF ClaimIsHeld, PendingIsCreated
  <2>8. PreparedIsUnderway' /\ InterruptedIsHeld'
    BY <2>2, <2>4, <2>5 DEF PreparedIsUnderway, InterruptedIsHeld, Moving
  <2> QED BY <2>6, <2>7, <2>8 DEF SettledInv
<1> QED BY <1>4, <1>5, <1>6

(* Every step keeps somebody at work on what is pending.                   *)
LEMMA SettledStep ==
  ASSUME WriteErrors \cap ProvablyClean = {} \/ OneSetter, TInv, SettledInv, [Next]_vars
  PROVE  SettledInv'
<1>1. ASSUME NEW c \in Callers, Proceed(c) PROVE SettledInv'
  <2>1. CASE Prepare(c)
    BY <2>1, PrepareKeeps
  <2>2. CASE SetRefused(c)
    BY <2>2, RefusedKeeps
  <2>3. CASE ~Prepare(c) /\ ~SetRefused(c)
    <3>1. Carried(c)
      BY <1>1, <2>3, FreeStepsCarry, PopulationCarries, WritesCarry, LeavingCarries DEF Proceed
    <3> QED BY <3>1, CarriedKeeps
  <2> QED BY <2>1, <2>2, <2>3
<1>2. ASSUME NEW c \in Callers, Begin(c) \/ Cancel(c) PROVE SettledInv'
  <2>1. Carried(c)
    BY <1>2, FreeStepsCarry, PopulationCarries, LeavingCarries DEF Begin
  <2> QED BY <2>1, CarriedKeeps
<1>3. CASE ElapseTtl \/ UNCHANGED vars \/ \E r \in BoundRung : RungLoses(r)
  <2>1. /\ entry'.state = entry.state /\ entry'.prev = entry.prev
        /\ entry'.created = entry.created /\ proc' = proc
    <3>1. entry \in Entry
      BY DEF TInv, EntryOK
    <3> QED BY <1>3, <3>1 DEF ElapseTtl, RungLoses, vars, Entry
  <2> QED BY <2>1 DEF SettledInv, ClaimIsHeld, PreparedIsUnderway, PendingIsCreated,
                      InterruptedIsHeld, SetterOK, OneSetter
<1> QED BY <1>1, <1>2, <1>3 DEF Next

(* With one setter, or where no refusal of a rung proves that nothing was  *)
(* stored: when every operation has returned or been cancelled, nobody     *)
(* waits for an operation that is gone (IntentGuard, PopulationGuard and   *)
(* the aborts of set and move_entry, src/src/manager.rs).                  *)
THEOREM QuietStaysSettled ==
  ASSUME WriteErrors \cap ProvablyClean = {} \/ OneSetter
  PROVE  Spec => []QuietIsSettled
<1>1. Init => SettledInv
  <2>1. Init => entry.state = "Absent" /\ \A c \in Callers : proc[c].op = "none"
    BY SMT DEF Init, NewEntry, Idle
  <2> QED BY <2>1 DEF SettledInv, ClaimIsHeld, PreparedIsUnderway, PendingIsCreated, Pending,
                      InterruptedIsHeld, SetterOK
<1>2. TInv /\ SettledInv /\ [Next]_vars => SettledInv'
  BY SettledStep
<1>3. SettledInv => QuietIsSettled
  BY DEF SettledInv, ClaimIsHeld, PreparedIsUnderway, Holding, Underway, QuietIsSettled, Quiet,
         Pending
<1> QED BY <1>1, <1>2, <1>3, Invariance, PTL DEF Spec

=============================================================================
