------------------------------- MODULE FrontDoor -------------------------------
(***************************************************************************)
(* What CacheManager does with a request before and around the control     *)
(* plane (src/src/manager.rs): it authenticates the caller, frames the key *)
(* with the tenant (src/src/key.rs), asks the policy, routes the call of a *)
(* rung, records the call and counts failures in a row for the circuit     *)
(* breaker.  The protocol with the control plane is Manager; here of an    *)
(* entry only its rung is kept and whether it is Ready, it may be lost at  *)
(* any time, and a commit or a publish may be refused.                     *)
(*                                                                         *)
(* Bytes are numbers and strings sequences of them, since the frame of a   *)
(* key is what the tenants are kept apart by.  An operation runs without   *)
(* interruption up to its call of a rung, and again from the answer on.    *)
(*                                                                         *)
(* The operators whose names end in Mutant are mutants of the one each     *)
(* precedes; nothing uses them.                                            *)
(***************************************************************************)
EXTENDS Policy, Telemetry, FiniteSetsExt

CONSTANTS
  Tenants,        \* the tenants of the callers
  AppKeys,        \* the keys applications use, as encoded
  MaxKeySize,     \* bytes of the longest frame (512 in the code)
  BoundRungs,     \* number of bound rungs: L0 .. L(BoundRungs-1)
  RungErrors,     \* the errors a rung, or the origin, may answer with
  RingCap,        \* capacity of the telemetry ring
  Requesters,
  Cases           \* what is exercised: a policy, the requests it meets, the latencies
                  \* a call may have and a bound on the records ever emitted

ASSUME BytesAreNat == Tenants \subseteq Seq(Nat) /\ AppKeys \subseteq Seq(Nat)

VARIABLES
  offered,    \* the one of Cases exercised: [policy, requests, latencies, records]
  calls,      \* the call of a rung each caller waits for, or NoRequest
  at,         \* the rung each entry of the control plane names, by frame
  ready,      \* the frames whose entry is Ready
  touched,    \* the tenants whose admitted requests reached an entry, by frame
  failing,    \* consecutive failures of each rung, up to the threshold
  ring,       \* the telemetry ring
  emitted     \* every record there ever was

doorVars == <<offered, calls, at, ready, touched, failing, ring, emitted>>

RequestOp == {"get", "get_or_fetch", "set", "refresh", "invalidate", "remove", "exists",
              "promote", "demote"}

Request == [op : RequestOp, tenant : Tenants, authenticated : BOOLEAN, key : AppKeys]

ASSUME CasesAreTyped ==
  \A case \in Cases : /\ case.policy \in {"default", "strict", "custom"}
                      /\ case.requests \subseteq Request
                      /\ case.latencies \subseteq Nat

ASSUME SomeRungIsBound == BoundRungs \in Nat \ {0}

ASSUME RingCapIsNat == RingCap \in Nat

NoRequest == [kind |-> "idle"]

-----------------------------------------------------------------------------
TENANT_SEPARATOR == 0

(* frame_tenant_key.                                                       *)
Frame(t, k) == t \o <<TENANT_SEPARATOR>> \o k

FramesUncheckedMutant(t, k) == Len(t) + 1 + Len(k) <= MaxKeySize

Frames(t, k) ==
  /\ \A i \in 1..Len(t) : t[i] # TENANT_SEPARATOR
  /\ Len(t) + 1 + Len(k) <= MaxKeySize

(* encode_key: the key is encoded into a buffer of the same size first.    *)
Encodes(q) == Len(q.key) <= MaxKeySize /\ Frames(q.tenant, q.key)

FrameOf(q) == Frame(q.tenant, q.key)

(* The gates of each operation, in its order.                              *)
Gates(op) ==
  CASE op = "get" -> <<"encode", "auth", "policy">>
    [] op \in {"get_or_fetch", "set", "refresh"} -> <<"auth", "encode", "policy">>
    [] OTHER -> <<"auth", "policy", "encode">>

Passes(gate, q, decision) ==
  CASE gate = "auth"   -> q.authenticated
    [] gate = "encode" -> Encodes(q)
    [] gate = "policy" -> decision.authorized

Refusing(q, decision) == {i \in 1..3 : ~Passes(Gates(q.op)[i], q, decision)}

RefusedAt(q, decision) == Gates(q.op)[Min(Refusing(q, decision))]

PolicyOp(op) ==
  CASE op \in {"get", "get_or_fetch"} -> "Get"
    [] op = "set"        -> "Set"
    [] op = "refresh"    -> "Refresh"
    [] op = "invalidate" -> "Invalidate"
    [] op = "remove"     -> "Remove"
    [] op = "exists"     -> "Exists"
    [] op = "promote"    -> "Promote"
    [] op = "demote"     -> "Demote"

(* resolve, and resolve_with_snapshot, which only set uses: the rung of an *)
(* entry the control plane does not know is L0.                            *)
HealthOf(r) ==
  [failures |-> IF r \in DOMAIN failing THEN failing[r] ELSE 0, available |-> TRUE]

RungOf(f) == IF f \in DOMAIN at THEN at[f] ELSE 0

StateFor(q) ==
  IF q.op = "set" /\ Encodes(q)
  THEN [tier |-> RungOf(FrameOf(q)), health |-> HealthOf(RungOf(FrameOf(q)))]
  ELSE NewState

Resolved(q) == Decisions(offered.policy, PolicyOp(q.op), StateFor(q), q.authenticated)

-----------------------------------------------------------------------------
DoorInit ==
  /\ offered \in Cases
  /\ calls = [c \in Requesters |-> NoRequest]
  /\ at = <<>>
  /\ ready = {}
  /\ touched = {}
  /\ failing = [r \in 0..(BoundRungs - 1) |-> 0]
  /\ ring = <<>>
  /\ emitted = <<>>

(* emit, for the records of one step.                                      *)
Emit(records) ==
  LET cap == RingSize(RingCap)
  IN  /\ Len(emitted) + Len(records) <= offered.records
      /\ emitted' = emitted \o records
      /\ ring' = IF Len(records) = 1 THEN Retained(ring, cap, records[1])
                 ELSE Retained(Retained(ring, cap, records[1]), cap, records[2])

Silent == UNCHANGED <<ring, emitted>>

(* record_outcome and record_read.                                         *)
CountOk(r) == failing' = [failing EXCEPT ![r] = 0]

CountErr(r, err) ==
  failing' = IF err = "TierUnavailable" /\ failing[r] < OpensAt
             THEN [failing EXCEPT ![r] = @ + 1] ELSE failing

(* Where a write wanted at a cache rung goes first: nearest_bound_rung,    *)
(* and the walk of set over rungs that are not bound.                      *)
BoundFrom(want) == IF want < BoundRungs THEN want ELSE BoundRungs - 1

IsBound(r) == r < BoundRungs

(* tier: the rung the policy chose, or the source of a move.  was: whether *)
(* the entry was Ready when the operation observed or prepared it.         *)
Call(kind, op, f, r, tier, was) ==
  [kind |-> kind, op |-> op, frame |-> f, rung |-> r, tier |-> tier, was |-> was]

Goes(c, call) == calls' = [calls EXCEPT ![c] = call]

Finishes(c) == Goes(c, NoRequest)

(* The call of caller c turns into one of another kind, at another rung.   *)
Onward(c, kind, r) ==
  LET call == calls[c]
  IN  Goes(c, Call(kind, call.op, call.frame, r, call.tier, call.was))

Named(f, r) == [g \in DOMAIN at \cup {f} |-> IF g = f THEN r ELSE at[g]]

(* What the control plane does: acquire, when it grants the claim; prepare *)
(* (the entry keeps its rung and is not Ready); commit and publish;        *)
(* fail_with_error, invalidate and release.  An abort changes neither rung *)
(* nor readiness.                                                          *)
Claims(f, tier) == at' = Named(f, tier) /\ ready' = ready \ {f}

Prepares(f) == at' = Named(f, RungOf(f)) /\ ready' = ready \ {f}

Lands(f, r) == at' = Named(f, r) /\ ready' = ready \cup {f}

Fails(f) == at' = at /\ ready' = ready \ {f}

Keeps == UNCHANGED <<at, ready>>

(* Somebody populates, writes or moves the entry, which may be InFlight or *)
(* Prepared.                                                               *)
Busy(f) ==
  \E e \in Requesters :
    calls[e].kind \in {"fetch", "source", "write", "clear"} /\ calls[e].frame = f

-----------------------------------------------------------------------------
(* A refused request.  Only a denied get leaves a trace: its key is framed *)
(* before the caller is authenticated so that the denial can be recorded.  *)
Refuse(q, d) ==
  /\ q.op = "get" /\ Refusing(q, d) # {} /\ RefusedAt(q, d) # "encode"
  /\ \E l \in offered.latencies :
       Emit(<<OperationRecord("get", FrameOf(q), IF RefusedAt(q, d) = "auth" THEN 0 ELSE d.tier,
                              "Denied", l)>>)
  /\ UNCHANGED <<offered, calls, at, ready, touched, failing>>

Admitted(c, q, d) ==
  /\ calls[c] = NoRequest /\ Refusing(q, d) = {}
  /\ touched' = touched \cup {<<FrameOf(q), q.tenant>>}
  /\ UNCHANGED <<offered, failing>>

(* get: a Ready entry is read where it is, anything else is a miss, except *)
(* that a pending one may be waited for.  A Ready entry always names a     *)
(* bound rung, so the refusals of an unbound one are left out.             *)
Get(c, q, d) ==
  LET f == FrameOf(q)
  IN  /\ q.op = "get" /\ Admitted(c, q, d) /\ Keeps
      /\ \/ /\ f \in ready /\ Silent
            /\ Goes(c, Call("read", "get", f, at[f], 0, TRUE))
         \/ /\ f \notin ready /\ UNCHANGED calls
            /\ \E l \in offered.latencies :
                 Emit(<<OperationRecord("get", f, RungOf(f), "Miss", l)>>)
         \/ /\ f \notin ready /\ Busy(f) /\ Silent
            /\ Goes(c, Call("wait", "get", f, 0, 0, FALSE))

SetToAuthorityMutant(c, q, d) ==
  LET f == FrameOf(q)
  IN  /\ q.op = "set" /\ Admitted(c, q, d)
      /\ Goes(c, Call("write", "set", f, d.tier, d.tier, f \in ready))
      /\ Prepares(f) /\ Silent

(* set: whatever the policy says, never at the authority.                  *)
Set(c, q, d) ==
  LET f == FrameOf(q)
  IN  /\ q.op = "set" /\ Admitted(c, q, d) /\ d.tier # AuthorityTier
      /\ Goes(c, Call("write", "set", f, BoundFrom(d.tier), d.tier, f \in ready))
      /\ Prepares(f) /\ Silent

(* get_or_fetch: a Ready entry is looked at where it is; any other is      *)
(* claimed and fetched, or, when pending, waited for.                      *)
GetOrFetch(c, q, d) ==
  LET f == FrameOf(q)
  IN  /\ q.op = "get_or_fetch" /\ Admitted(c, q, d) /\ Silent
      /\ \/ f \in ready /\ Goes(c, Call("look", q.op, f, at[f], d.tier, TRUE)) /\ Keeps
         \/ f \notin ready /\ Goes(c, Call("fetch", q.op, f, 0, d.tier, FALSE)) /\ Claims(f, d.tier)
         \/ /\ f \notin ready /\ Busy(f) /\ Keeps
            /\ Goes(c, Call("wait", q.op, f, 0, d.tier, FALSE))

(* refresh first reads the current value, unrecorded.  was: Ready and not  *)
(* expired.                                                                *)
Refresh(c, q, d) ==
  LET f == FrameOf(q)
  IN  /\ q.op = "refresh" /\ Admitted(c, q, d) /\ Keeps /\ Silent
      /\ \E fresh \in {FALSE, (f \in ready)} :
           Goes(c, Call("current", q.op, f, RungOf(f), d.tier, fresh))

(* promote and demote: the entry is prepared and its source read, but an   *)
(* unbound destination ends it there.  An entry that is not Ready, or at   *)
(* the end of the ladder, stays.                                           *)
Movable(op, r) == IsCacheRung(r) /\ IF op = "promote" THEN r > 0 ELSE r < LastCacheTier

Move(c, q, d) ==
  LET f    == FrameOf(q)
      dest == IF q.op = "promote" THEN at[f] - 1 ELSE at[f] + 1
  IN  /\ q.op \in {"promote", "demote"} /\ Admitted(c, q, d) /\ Silent
      /\ IF f \in ready /\ Movable(q.op, at[f])
         THEN /\ Prepares(f)
              /\ IF IsBound(dest) THEN Goes(c, Call("source", "promote", f, dest, at[f], TRUE))
                 ELSE UNCHANGED calls
         ELSE Keeps /\ UNCHANGED calls

(* invalidate and remove take the entry away, exists only looks.           *)
Drop(c, q, d) ==
  /\ q.op \in {"invalidate", "remove", "exists"} /\ Admitted(c, q, d)
  /\ IF q.op = "exists" THEN Keeps ELSE Fails(FrameOf(q))
  /\ UNCHANGED calls /\ Silent

Arrive(c, q) ==
  \E d \in Resolved(q) :
    \/ Refuse(q, d) \/ Get(c, q, d) \/ Set(c, q, d) \/ GetOrFetch(c, q, d) \/ Refresh(c, q, d)
    \/ Move(c, q, d) \/ Drop(c, q, d)

-----------------------------------------------------------------------------
(* The errors that make set try the next rung, those of a write that       *)
(* stored nothing, and those a population tries again after.               *)
RungLevel == {"CapacityExhausted", "TierUnavailable", "Timeout", "Corrupted",
              "SerializationFailed", "WriteIndeterminate"}

StoredNothing == {"SerializationFailed", "CapacityExhausted"}

RetryableErrors == {"TierUnavailable", "Timeout", "PopulationFailed"}

(* A population, whoever wants it, records itself as get_or_fetch.         *)
RecordedOp(op) == IF op = "refresh" THEN "get_or_fetch" ELSE op

RecordAt(call, r, outcome, l) ==
  OperationRecord(RecordedOp(call.op), call.frame, r, outcome, l)

CallRecord(call, outcome, l) == RecordAt(call, call.rung, outcome, l)

(* The wait for a pending entry is over, or has taken too long.  What get  *)
(* then reads is Ready, what get_or_fetch reads may have gone stale.       *)
WaitEnds(c) ==
  LET call == calls[c]
      f    == call.frame
  IN  /\ call.kind = "wait"
      /\ \/ Finishes(c)
         \/ /\ f \in DOMAIN at /\ IsBound(at[f]) /\ (call.op = "get" => f \in ready)
            /\ Onward(c, "read", at[f])
      /\ UNCHANGED <<offered, at, ready, touched, failing, ring, emitted>>

(* refresh marks the entry stale if it was Ready, whatever it is by now,   *)
(* and claims it, unless somebody else is at work or has published.        *)
Revalidate(c) ==
  LET call == calls[c]
      f    == call.frame
  IN  /\ call.kind = "current"
      /\ \/ (call.was \/ f \notin ready) /\ Claims(f, call.tier) /\ Onward(c, "fetch", 0)
         \/ ~call.was /\ (f \in ready \/ Busy(f)) /\ Keeps /\ Finishes(c)
      /\ UNCHANGED <<offered, touched, failing, ring, emitted>>

(* A move has read its source, and writes; without a value it aborts.      *)
SourceRead(c) ==
  /\ calls[c].kind = "source"
  /\ Onward(c, "write", calls[c].rung) \/ Finishes(c)
  /\ UNCHANGED <<offered, at, ready, touched, failing, ring, emitted>>

(* The origin answers a population with a value to write, or fails.  For a *)
(* rung beyond the ladder there is nowhere to write.  The last failure is  *)
(* recorded; the ones before it leave no trace.                            *)
Populate(c) ==
  LET call == calls[c]
  IN  /\ call.kind = "fetch"
      /\ \/ IsCacheRung(call.tier) /\ Onward(c, "write", BoundFrom(call.tier)) /\ Keeps /\ Silent
         \/ /\ \E err \in RungErrors \cup {"TierUnavailable"}, l \in offered.latencies :
                 Emit(<<RecordAt(call, call.tier, OutcomeOf(err), l)>>)
            /\ Fails(call.frame) /\ Onward(c, "fall back", 0)
      /\ UNCHANGED <<offered, touched, failing>>

(* A rung answers a read.  get_or_fetch does not count its read for the    *)
(* circuit breaker, and goes on to populate, with no claim, when the rung  *)
(* it looked at has nothing.                                               *)
ReadAnswered(c) ==
  LET call == calls[c]
      counts == call.op = "get"
  IN  /\ call.kind \in {"read", "look"}
      /\ \E l \in offered.latencies :
           \/ \E outcome \in {"Served", "Miss"} :
                /\ Emit(<<CallRecord(call, outcome, l)>>)
                /\ IF counts THEN CountOk(call.rung) ELSE UNCHANGED failing
                /\ IF outcome = "Miss" /\ call.kind = "look" THEN Onward(c, "fetch", 0) ELSE Finishes(c)
           \/ \E err \in RungErrors :
                /\ Emit(<<CallRecord(call, OutcomeOf(err), l)>>)
                /\ IF counts THEN CountErr(call.rung, err) ELSE UNCHANGED failing
                /\ Finishes(c)
      /\ UNCHANGED <<offered, at, ready, touched>>

(* The next attempt of a set, at rung r.                                   *)
WritesAgain(c, r, restored) ==
  LET f == calls[c].frame
  IN  /\ Goes(c, Call("write", "set", f, r, calls[c].tier, restored \/ f \in ready))
      /\ Prepares(f)

(* A rung accepts a write of set, which commits, gives up, or has lost the *)
(* race and prepares and writes again.                                     *)
SetAccepted(c) ==
  LET call == calls[c]
  IN  /\ call.kind = "write" /\ call.op = "set" /\ CountOk(call.rung)
      /\ \E l \in offered.latencies : Emit(<<CallRecord(call, "Populated", l)>>)
      /\ \/ Lands(call.frame, call.rung) /\ Finishes(c)
         \/ Keeps /\ Finishes(c)
         \/ WritesAgain(c, call.rung, FALSE)
      /\ UNCHANGED <<offered, touched>>

(* A rung refuses a write of set, which restores the entry if nothing can  *)
(* have been stored, and walks on towards L0, preparing the entry again.   *)
(* When even L0 is full it evicts, if it can, and walks again.             *)
SetRejected(c) ==
  LET call == calls[c]
      f    == call.frame
  IN  /\ call.kind = "write" /\ call.op = "set"
      /\ \E err \in RungErrors, l \in offered.latencies,
            restored \in {FALSE, call.was /\ IsBound(RungOf(f))} :
           /\ Emit(<<CallRecord(call, OutcomeOf(err), l)>>)
           /\ CountErr(call.rung, err)
           /\ restored => err \in StoredNothing
           /\ \/ err \in RungLevel /\ call.rung > 0 /\ WritesAgain(c, call.rung - 1, restored)
              \/ /\ err = "CapacityExhausted" /\ call.rung = 0
                 /\ WritesAgain(c, BoundFrom(call.tier), restored)
              \/ /\ call.rung = 0 \/ err \notin RungLevel
                 /\ IF restored THEN Lands(f, RungOf(f)) ELSE Keeps
                 /\ Finishes(c)
      /\ UNCHANGED <<offered, touched>>

Population == {"get_or_fetch", "refresh"}

(* A rung accepts the value of a population.  If it cannot be published    *)
(* that is recorded too, and only refresh has something to fall back on.   *)
PopulationAccepted(c) ==
  LET call == calls[c]
  IN  /\ call.kind = "write" /\ call.op \in Population /\ CountOk(call.rung)
      /\ \E l, m \in offered.latencies :
           LET written == CallRecord(call, "Populated", l)
           IN  \/ Emit(<<written>>) /\ Lands(call.frame, call.rung) /\ Finishes(c)
               \/ /\ Emit(<<written, RecordAt(call, call.tier, OutcomeOf("StaleGeneration"), m)>>)
                  /\ Fails(call.frame)
                  /\ IF call.op = "refresh" THEN Onward(c, "fall back", 0) ELSE Finishes(c)
      /\ UNCHANGED <<offered, touched>>

(* A rung refuses the value of a population, which fetches again, or gives *)
(* up, records that as well and falls back.                                *)
PopulationRejected(c) ==
  LET call == calls[c]
  IN  /\ call.kind = "write" /\ call.op \in Population
      /\ \E err \in RungErrors, l, m \in offered.latencies :
           LET refused == CallRecord(call, OutcomeOf(err), l)
           IN  /\ CountErr(call.rung, err)
               /\ \/ /\ err \in RetryableErrors /\ Emit(<<refused>>)
                     /\ Keeps /\ Onward(c, "fetch", 0)
                  \/ /\ Emit(<<refused, RecordAt(call, call.tier, OutcomeOf(err), m)>>)
                     /\ Fails(call.frame) /\ Onward(c, "fall back", 0)
      /\ UNCHANGED <<offered, touched>>

(* The destination of a move answers its write, which is recorded as       *)
(* promote in either direction.                                            *)
MoveAnswered(c) ==
  LET call == calls[c]
  IN  /\ call.kind = "write" /\ call.op = "promote"
      /\ \E l \in offered.latencies :
           \/ /\ Emit(<<CallRecord(call, "Populated", l)>>)
              /\ CountOk(call.rung) /\ Onward(c, "clear", call.rung)
           \/ \E err \in RungErrors :
                /\ Emit(<<CallRecord(call, OutcomeOf(err), l)>>)
                /\ CountErr(call.rung, err) /\ Finishes(c)
      /\ UNCHANGED <<offered, at, ready, touched>>

(* The source of a move answers the removal, which is counted but not      *)
(* recorded; whatever it answers, the move commits or is refused.          *)
SourceCleared(c) ==
  LET call == calls[c]
  IN  /\ call.kind = "clear"
      /\ CountOk(call.tier) \/ \E err \in RungErrors : CountErr(call.tier, err)
      /\ Lands(call.frame, call.rung) \/ Keeps
      /\ Finishes(c)
      /\ UNCHANGED <<offered, touched, ring, emitted>>

(* get_or_fetch looks for the value on the other rungs, but asks none      *)
(* whose circuit is open; refresh serves the value it read before.  Only   *)
(* what is found is recorded.                                              *)
FallBack(c) ==
  LET call == calls[c]
      rungs == IF call.op = "refresh" THEN {call.tier}
               ELSE {r \in DOMAIN failing : IsCacheRung(r) /\ ~CircuitOpen(HealthOf(r))}
  IN  /\ call.kind = "fall back"
      /\ \/ \E r \in rungs, l \in offered.latencies :
              Emit(<<OperationRecord(call.op, call.frame, r, "FellBack", l)>>)
         \/ Silent
      /\ Finishes(c)
      /\ UNCHANGED <<offered, at, ready, touched, failing>>

(* An entry stops being Ready: it expires, or is evicted.                  *)
Lapse(f) ==
  /\ Fails(f)
  /\ UNCHANGED <<offered, calls, touched, failing, ring, emitted>>

Proceeds(c) ==
  \/ WaitEnds(c) \/ Revalidate(c) \/ SourceRead(c) \/ Populate(c) \/ ReadAnswered(c)
  \/ SetAccepted(c) \/ SetRejected(c) \/ PopulationAccepted(c) \/ PopulationRejected(c)
  \/ MoveAnswered(c) \/ SourceCleared(c) \/ FallBack(c)

DoorNext ==
  \/ \E c \in Requesters : Proceeds(c) \/ \E q \in offered.requests : Arrive(c, q)
  \/ \E f \in ready : Lapse(f)

DoorSpec == DoorInit /\ [][DoorNext]_doorVars

-----------------------------------------------------------------------------
(* continuity_of, what the manager reports of a rung.                      *)
ContinuityOf(r) ==
  CASE r >= BoundRungs         -> "Unavailable"
    [] failing[r] = 0          -> "Healthy"
    [] failing[r] >= OpensAt   -> "Unavailable"
    [] OTHER                   -> "Degraded"

(* No two tenants ever reach one entry of the control plane, although they *)
(* use the same keys and a tenant may begin like another's frame: what     *)
(* encode_key frames the tenant into the key for.                          *)
TenantIsolation == \A p, q \in touched : p[1] = q[1] => p[2] = q[2]

(* Whatever the policy, also one of the application's own, no set, no      *)
(* population and no move ever writes at the authority rung or beyond the  *)
(* ladder, and each goes to a rung that is bound.                          *)
AuthorityIsNeverWritten ==
  \A c \in Requesters : calls[c].kind = "write" =>
    IsCacheRung(calls[c].rung) /\ calls[c].rung \in 0..(BoundRungs - 1)

(* The report and the routing agree (manager.rs, continuity): a write of   *)
(* an entry is routed away from the rung the policy prefers exactly when   *)
(* the entry is there and the rung is reported Unavailable.                *)
ReportMatchesRouting ==
  \A r \in DOMAIN failing :
    (DefaultSelect("Set", [tier |-> r, health |-> HealthOf(r)]).tier # 1)
      <=> (r = 1 /\ ContinuityOf(r) = "Unavailable")

(* The telemetry ring holds the most recent records, oldest first, however *)
(* the operations of the callers interleave.                               *)
RingIsRecent ==
  LET cap == RingSize(RingCap)
      n   == Len(emitted)
  IN  ring = IF n <= cap THEN emitted ELSE SubSeq(emitted, n - cap + 1, n)

(* The percentiles computed by sorting and ranking are quantiles: each is  *)
(* the least latency retained that enough of the retained ones stay within.*)
PercentilesAreQuantiles ==
  LET samples == [i \in DOMAIN ring |-> ring[i].latency]
      p == Percentiles(samples)
  IN  ring # <<>> => /\ IsQuantile(p.p50, 50, 100, samples)
                     /\ IsQuantile(p.p95, 95, 100, samples)
                     /\ IsQuantile(p.p99, 99, 100, samples)
                     /\ IsQuantile(p.p999, 999, 1000, samples)
                     /\ IsQuantile(p.max, 1, 1, samples)

=============================================================================
