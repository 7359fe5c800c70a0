-------------------------- MODULE FrontDoorProofs --------------------------
(***************************************************************************)
(* The front door for every set of tenants and keys, every policy, every   *)
(* number of bound rungs and every capacity of the telemetry ring.         *)
(***************************************************************************)
EXTENDS FrontDoor, SequenceTheorems, FiniteSetTheorems, TLAPS

(* A leaf goes to Zenon unless it names another prover: most are first-    *)
(* order, and those with arithmetic or several updates of a record say SMT.*)
USE Zenon

(* The rungs a write may go to.                                            *)
Writable == {r \in 0..(BoundRungs - 1) : IsCacheRung(r)}

AnyRung == 0..AuthorityTier

-----------------------------------------------------------------------------
(* The byte after the tenant is the first separator of a frame.            *)
LEMMA FrameShape ==
  ASSUME NEW t \in Seq(Nat), NEW k \in Seq(Nat)
  PROVE  /\ Len(Frame(t, k)) = Len(t) + 1 + Len(k)
         /\ \A i \in 1..Len(t) : Frame(t, k)[i] = t[i]
         /\ Frame(t, k)[Len(t) + 1] = TENANT_SEPARATOR
         /\ \A i \in 1..Len(k) : Frame(t, k)[Len(t) + 1 + i] = k[i]
BY SMT DEF Frame, TENANT_SEPARATOR

(* Frames of tenants without a separator are equal only if the tenants and *)
(* the keys are: the bytes up to the first separator are the tenant.       *)
LEMMA FrameIsInjective ==
  ASSUME NEW t1 \in Seq(Nat), NEW k1 \in Seq(Nat), NEW t2 \in Seq(Nat), NEW k2 \in Seq(Nat),
         \A i \in 1..Len(t1) : t1[i] # TENANT_SEPARATOR,
         \A i \in 1..Len(t2) : t2[i] # TENANT_SEPARATOR,
         Frame(t1, k1) = Frame(t2, k2)
  PROVE  t1 = t2 /\ k1 = k2
<1>1. Len(t1) \in Nat /\ Len(t2) \in Nat /\ Len(k1) \in Nat /\ Len(k2) \in Nat
  BY SMT
<1> DEFINE F == Frame(t1, k1)
<1>a. /\ Len(F) = Len(t1) + 1 + Len(k1)
      /\ \A i \in 1..Len(t1) : F[i] = t1[i]
      /\ F[Len(t1) + 1] = TENANT_SEPARATOR
      /\ \A i \in 1..Len(k1) : F[Len(t1) + 1 + i] = k1[i]
  BY FrameShape
<1>b. /\ Len(Frame(t2, k2)) = Len(t2) + 1 + Len(k2)
      /\ \A i \in 1..Len(t2) : Frame(t2, k2)[i] = t2[i]
      /\ Frame(t2, k2)[Len(t2) + 1] = TENANT_SEPARATOR
      /\ \A i \in 1..Len(k2) : Frame(t2, k2)[Len(t2) + 1 + i] = k2[i]
  BY FrameShape
<1>c. F = Frame(t2, k2)
  OBVIOUS
<1> HIDE DEF F
<1>2. ~(Len(t1) < Len(t2))
  <2>1. SUFFICES ASSUME Len(t1) < Len(t2) PROVE FALSE
    OBVIOUS
  <2>2. Len(t1) + 1 \in 1..Len(t2)
    BY <1>1, <2>1, SMT
  <2> QED BY <1>a, <1>b, <1>c, <2>2
<1>3. ~(Len(t2) < Len(t1))
  <2>1. SUFFICES ASSUME Len(t2) < Len(t1) PROVE FALSE
    OBVIOUS
  <2>2. Len(t2) + 1 \in 1..Len(t1)
    BY <1>1, <2>1, SMT
  <2> QED BY <1>a, <1>b, <1>c, <2>2
<1>4. Len(t1) = Len(t2) /\ Len(k1) = Len(k2)
  BY <1>1, <1>2, <1>3, <1>a, <1>b, <1>c, SMT
<1>5. \A i \in 1..Len(t1) : t1[i] = t2[i]
  BY <1>4, <1>a, <1>b, <1>c
<1>6. \A i \in 1..Len(k1) : k1[i] = k2[i]
  BY <1>4, <1>a, <1>b, <1>c
<1>7. t1 = t2
  BY <1>4, <1>5, SeqEqual
<1>8. k1 = k2
  BY <1>4, <1>6, SeqEqual
<1> QED BY <1>7, <1>8

(* A request that no gate refuses is authenticated, allowed and frames.    *)
LEMMA AdmittedFrames ==
  ASSUME NEW c, NEW q \in Request, NEW d, Admitted(c, q, d)
  PROVE  Frames(q.tenant, q.key) /\ d.authorized
<1>1. \E i \in 1..3 : Gates(q.op)[i] = "encode"
  BY SMT DEF Gates, Request, RequestOp
<1>2. \E i \in 1..3 : Gates(q.op)[i] = "policy"
  BY SMT DEF Gates, Request, RequestOp
<1>3. \A i \in 1..3 : Passes(Gates(q.op)[i], q, d)
  BY DEF Admitted, Refusing
<1>4. Passes("encode", q, d) /\ Passes("policy", q, d)
  BY <1>1, <1>2, <1>3
<1> QED BY <1>4 DEF Passes, Encodes

-----------------------------------------------------------------------------
(* Whoever reached an entry did so with a tenant that frames.              *)
Framed ==
  \A p \in touched :
    \E t \in Tenants, k \in AppKeys : p = <<Frame(t, k), t>> /\ Frames(t, k)

OfferedOK == offered \in Cases

(* An arrival adds its own frame, and nothing else touches an entry.       *)
LEMMA ArrivalTouches ==
  ASSUME OfferedOK, NEW c \in Requesters, NEW q \in offered.requests, Arrive(c, q)
  PROVE  \/ touched' = touched
         \/ /\ q \in Request /\ Frames(q.tenant, q.key)
            /\ touched' = touched \cup {<<Frame(q.tenant, q.key), q.tenant>>}
<1>1. q \in Request
  BY CasesAreTyped DEF OfferedOK
<1>2. PICK d \in Resolved(q) :
        \/ Refuse(q, d) \/ Get(c, q, d) \/ Set(c, q, d) \/ GetOrFetch(c, q, d)
        \/ Refresh(c, q, d) \/ Move(c, q, d) \/ Drop(c, q, d)
  BY DEF Arrive
<1>3. CASE Refuse(q, d)
  BY <1>3 DEF Refuse
<1>4. CASE Admitted(c, q, d)
  <2>1. Frames(q.tenant, q.key)
    BY <1>1, <1>4, AdmittedFrames
  <2> QED BY <1>1, <1>4, <2>1 DEF Admitted, FrameOf
<1> QED BY <1>2, <1>3, <1>4 DEF Get, Set, GetOrFetch, Refresh, Move, Drop

(* No two tenants ever reach one entry, whatever tenants and keys there    *)
(* are: frame_tenant_key is injective on the tenants it accepts, and every *)
(* operation that reaches the control plane went through it.               *)
THEOREM TenantsAreIsolated == DoorSpec => []TenantIsolation
<1> DEFINE Inv == OfferedOK /\ Framed
<1>1. DoorInit => Inv
  BY DEF DoorInit, OfferedOK, Framed
<1>2. Inv /\ [DoorNext]_doorVars => Inv'
  <2> SUFFICES ASSUME Inv, [DoorNext]_doorVars PROVE Inv'
    OBVIOUS
  <2>1. CASE touched' = touched /\ offered' = offered
    BY <2>1 DEF OfferedOK, Framed
  <2>2. ASSUME NEW c \in Requesters, NEW q \in offered.requests, Arrive(c, q)
        PROVE  Inv'
    <3>1. offered' = offered
      BY <2>2 DEF Arrive, Refuse, Get, Set, GetOrFetch, Refresh, Move, Drop, Admitted
    <3>2. CASE touched' = touched
      BY <2>1, <3>1, <3>2
    <3>3. CASE /\ q \in Request /\ Frames(q.tenant, q.key)
               /\ touched' = touched \cup {<<Frame(q.tenant, q.key), q.tenant>>}
      <4>1. q.tenant \in Tenants /\ q.key \in AppKeys
        BY <3>3 DEF Request
      <4>2. Framed'
        <5> SUFFICES ASSUME NEW p \in touched'
                     PROVE  \E t \in Tenants, k \in AppKeys :
                              p = <<Frame(t, k), t>> /\ Frames(t, k)
          BY DEF Framed
        <5> QED BY <3>3, <4>1 DEF Framed
      <4> QED BY <3>1, <4>2 DEF OfferedOK
    <3> QED BY <2>2, <3>2, <3>3, ArrivalTouches
  <2>3. CASE UNCHANGED doorVars
    BY <2>1, <2>3 DEF doorVars
  <2>4. ASSUME NEW c \in Requesters, Proceeds(c) PROVE Inv'
    BY <2>1, <2>4 DEF Proceeds, WaitEnds, Revalidate, SourceRead, Populate, ReadAnswered,
       SetAccepted, SetRejected, PopulationAccepted, PopulationRejected, MoveAnswered,
       SourceCleared, FallBack
  <2>5. ASSUME NEW f \in ready, Lapse(f) PROVE Inv'
    BY <2>1, <2>5 DEF Lapse
  <2> QED BY <2>2, <2>3, <2>4, <2>5 DEF DoorNext
<1>3. Inv => TenantIsolation
  <2> SUFFICES ASSUME Inv, NEW p \in touched, NEW q \in touched, p[1] = q[1]
               PROVE  p[2] = q[2]
    BY DEF TenantIsolation
  <2>1. PICK t1 \in Tenants, k1 \in AppKeys : p = <<Frame(t1, k1), t1>> /\ Frames(t1, k1)
    BY DEF Framed
  <2>2. PICK t2 \in Tenants, k2 \in AppKeys : q = <<Frame(t2, k2), t2>> /\ Frames(t2, k2)
    BY DEF Framed
  <2>3. t1 \in Seq(Nat) /\ t2 \in Seq(Nat) /\ k1 \in Seq(Nat) /\ k2 \in Seq(Nat)
    BY BytesAreNat
  <2>4. t1 = t2
    BY <2>1, <2>2, <2>3, FrameIsInjective DEF Frames
  <2> QED BY <2>1, <2>2, <2>4
<1> QED BY <1>1, <1>2, <1>3, PTL DEF DoorSpec

-----------------------------------------------------------------------------
(* A write under way, or to come once a move has read its source, is at a  *)
(* rung that may be written.  The rung the policy chose may be the         *)
(* authority, but not that of a set.                                       *)
CallOK(call) ==
  \/ call = NoRequest
  \/ /\ call.kind # "idle"
     /\ call.tier \in AnyRung
     /\ call.op = "set" => IsCacheRung(call.tier)
     /\ call.kind \in {"source", "write", "clear"} => call.rung \in Writable

CallsOK ==
  /\ calls = [c \in Requesters |-> calls[c]]
  /\ \A c \in Requesters : CallOK(calls[c])

(* A Ready entry names a rung that is bound.                               *)
EntriesOK ==
  /\ \A f \in DOMAIN at : at[f] \in AnyRung
  /\ \A f \in ready : f \in DOMAIN at /\ IsBound(at[f])

RungsOK == offered \in Cases /\ CallsOK /\ EntriesOK

(* Every policy answers with a rung of the ladder or with the authority.   *)
LEMMA DecisionsNameRungs ==
  ASSUME RungsOK, NEW q \in Request, NEW d \in Resolved(q)
  PROVE  d.tier \in AnyRung
<1>1. offered.policy \in {"default", "strict", "custom"}
  BY CasesAreTyped DEF RungsOK
<1>2. StateFor(q).tier \in AnyRung
  BY SMT DEF StateFor, NewState, RungOf, RungsOK, EntriesOK, AnyRung, AuthorityTier
<1>3. ASSUME NEW op PROVE DefaultSelect(op, StateFor(q)).tier \in AnyRung
  <2>1. BaseTier(op, StateFor(q).tier) \in AnyRung
    BY <1>2, SMT DEF BaseTier, AnyRung, AuthorityTier
  <2>2. PICK h : h = HealthyFallback(BaseTier(op, StateFor(q).tier), StateFor(q))
    OBVIOUS
  <2>3. h \in AnyRung
    BY <2>1, <2>2, SMT DEF HealthyFallback, LastCacheTier, AnyRung, AuthorityTier
  <2>4. CapacityFallback(h, StateFor(q)) \in AnyRung
    BY <2>3, SMT DEF CapacityFallback, LastCacheTier, AnyRung, AuthorityTier
  <2> QED BY <2>2, <2>3, <2>4 DEF DefaultSelect, Allow
<1>4. CASE offered.policy = "default"
  BY <1>3, <1>4 DEF Resolved, Decisions, AnyRung, LastCacheTier, AuthorityTier
<1>5. CASE offered.policy = "strict"
  BY <1>3, <1>5, SMT DEF Resolved, Decisions, StrictSelect, Deny, AnyRung, LastCacheTier, AuthorityTier
<1>6. CASE offered.policy = "custom"
  BY <1>6, CustomTiersAreRungs, SMT DEF Resolved, Decisions, Deny, Allow, AnyRung, AuthorityTier
<1> QED BY <1>1, <1>4, <1>5, <1>6

(* nearest_bound_rung stays on the ladder.                                 *)
LEMMA BoundIsWritable ==
  ASSUME NEW want \in AnyRung, IsCacheRung(want)
  PROVE  BoundFrom(want) \in Writable
BY SomeRungIsBound, SMT DEF BoundFrom, Writable, IsCacheRung, AnyRung, LastCacheTier, AuthorityTier

(* A new call leaves the calls of the other callers alone.                 *)
LEMMA GoesKeeps ==
  ASSUME CallsOK, NEW c \in Requesters, NEW call, Goes(c, call), CallOK(call)
  PROVE  CallsOK'
BY DEF Goes, CallsOK

(* A call that finishes leaves the calls well-formed.                      *)
LEMMA FinishKeeps ==
  ASSUME CallsOK, NEW c \in Requesters, Finishes(c)
  PROVE  CallsOK'
BY GoesKeeps DEF Finishes, CallOK

(* A call is well formed if its parts are.                                 *)
LEMMA CallIsOK ==
  ASSUME NEW kind, NEW op, NEW f, NEW r, NEW tier \in AnyRung, NEW was, kind # "idle",
         op = "set" => IsCacheRung(tier),
         kind \in {"source", "write", "clear"} => r \in Writable
  PROVE  CallOK(Call(kind, op, f, r, tier, was))
<1>1. PICK call : call = Call(kind, op, f, r, tier, was)
  OBVIOUS
<1>2. /\ call.kind = kind /\ call.op = op /\ call.frame = f
      /\ call.rung = r /\ call.tier = tier /\ call.was = was
  BY <1>1 DEF Call
<1>3. CallOK(call)
  BY <1>1, <1>2 DEF CallOK
<1> QED BY <1>1, <1>3

(* So does one that goes on, provided that it writes where it may.         *)
LEMMA OnwardKeeps ==
  ASSUME CallsOK, NEW c \in Requesters, calls[c].kind # "idle", NEW kind, NEW r, kind # "idle",
         kind \in {"source", "write", "clear"} => r \in Writable, Onward(c, kind, r)
  PROVE  CallsOK'
<1>1. CallOK(calls[c]) /\ calls[c] # NoRequest
  BY SMT DEF CallsOK, NoRequest
<1>2. /\ calls[c].tier \in AnyRung
      /\ calls[c].op = "set" => IsCacheRung(calls[c].tier)
  BY <1>1 DEF CallOK
<1> QED BY <1>2, CallIsOK, GoesKeeps DEF Onward

(* What the control plane does leaves every Ready entry on a bound rung.   *)
LEMMA EntriesKeep ==
  ASSUME EntriesOK, NEW f
  PROVE  /\ \A tier \in AnyRung : Claims(f, tier) => EntriesOK'
         /\ Prepares(f) => EntriesOK'
         /\ \A r \in Writable : Lands(f, r) => EntriesOK'
         /\ IsBound(RungOf(f)) /\ Lands(f, RungOf(f)) => EntriesOK'
         /\ Fails(f) => EntriesOK'
         /\ Keeps => EntriesOK'
<1>1. ASSUME NEW tier \in AnyRung, Claims(f, tier) PROVE EntriesOK'
  BY <1>1 DEF Claims, Named, EntriesOK
<1>2. RungOf(f) \in AnyRung
  BY SMT DEF RungOf, EntriesOK, AnyRung, AuthorityTier
<1>3. ASSUME Prepares(f) PROVE EntriesOK'
  BY <1>2, <1>3 DEF Prepares, Named, EntriesOK
<1>4. ASSUME NEW r \in Writable, Lands(f, r) PROVE EntriesOK'
  <2>1. r \in AnyRung /\ IsBound(r)
    BY SomeRungIsBound, SMT DEF Writable, AnyRung, IsBound, IsCacheRung, LastCacheTier, AuthorityTier
  <2> QED BY <1>4, <2>1 DEF Lands, Named, EntriesOK
<1>5. (Fails(f) \/ Keeps) => EntriesOK'
  BY DEF Fails, Keeps, EntriesOK
<1>6. ASSUME IsBound(RungOf(f)), Lands(f, RungOf(f)) PROVE EntriesOK'
  BY <1>2, <1>6 DEF Lands, Named, EntriesOK
<1> QED BY <1>1, <1>3, <1>4, <1>5, <1>6

(* The next attempt of a set writes on the ladder.                         *)
LEMMA AgainKeeps ==
  ASSUME CallsOK, EntriesOK, NEW c \in Requesters, calls[c].kind = "write", calls[c].op = "set",
         NEW r \in Writable, NEW restored, WritesAgain(c, r, restored)
  PROVE  CallsOK' /\ EntriesOK'
<1>1. CallOK(calls[c]) /\ calls[c] # NoRequest
  BY SMT DEF CallsOK, NoRequest
<1>2. calls[c].tier \in AnyRung /\ IsCacheRung(calls[c].tier)
  BY <1>1 DEF CallOK
<1>3. ASSUME NEW was PROVE CallOK(Call("write", "set", calls[c].frame, r, calls[c].tier, was))
  BY <1>2, CallIsOK
<1>4. CallsOK'
  BY <1>3, GoesKeeps DEF WritesAgain
<1> QED BY <1>4, EntriesKeep DEF WritesAgain

(* Every arrival keeps the writes on the ladder.                           *)
LEMMA ArrivalRungs ==
  ASSUME RungsOK, NEW c \in Requesters, NEW q \in offered.requests, Arrive(c, q)
  PROVE  RungsOK'
<1> DEFINE f == FrameOf(q)
<1>1. q \in Request
  BY CasesAreTyped DEF RungsOK
<1>2. PICK d \in Resolved(q) :
        \/ Refuse(q, d) \/ Get(c, q, d) \/ Set(c, q, d) \/ GetOrFetch(c, q, d)
        \/ Refresh(c, q, d) \/ Move(c, q, d) \/ Drop(c, q, d)
  BY DEF Arrive
<1>3. d.tier \in AnyRung
  BY <1>1, DecisionsNameRungs
<1>4. offered' = offered
  BY <1>2 DEF Refuse, Get, Set, GetOrFetch, Refresh, Move, Drop, Admitted
<1>5. CallsOK /\ EntriesOK
  BY DEF RungsOK
<1>6. CASE Refuse(q, d)
  BY <1>6 DEF Refuse, RungsOK, CallsOK, EntriesOK
<1>7. ASSUME NEW kind, NEW op, NEW r, NEW tier \in AnyRung, NEW was, kind # "idle", op # "set",
             kind \in {"source", "write", "clear"} => r \in Writable
      PROVE  CallOK(Call(kind, op, f, r, tier, was))
  BY <1>7, CallIsOK
<1>8. 0 \in AnyRung
  BY SMT DEF AnyRung, AuthorityTier
<1>9. CASE Get(c, q, d)
  <2>1. EntriesOK'
    BY <1>5, <1>9, EntriesKeep DEF Get
  <2>2. CASE calls' = calls
    BY <1>4, <1>5, <2>1, <2>2 DEF RungsOK, CallsOK
  <2>3. CASE \E call : Goes(c, call) /\ CallOK(call)
    BY <1>4, <1>5, <2>1, <2>3, GoesKeeps DEF RungsOK
  <2>4. /\ CallOK(Call("read", "get", f, at[f], 0, TRUE))
        /\ CallOK(Call("wait", "get", f, 0, 0, FALSE))
    BY <1>7, <1>8
  <2> QED BY <1>9, <2>2, <2>3, <2>4 DEF Get
<1>10. CASE Set(c, q, d)
  <2>1. IsCacheRung(d.tier) /\ BoundFrom(d.tier) \in Writable
    BY <1>3, <1>10, BoundIsWritable, SMT DEF Set, AnyRung, IsCacheRung, LastCacheTier, AuthorityTier
  <2>2. ASSUME NEW was PROVE CallOK(Call("write", "set", f, BoundFrom(d.tier), d.tier, was))
    BY <1>3, <2>1, CallIsOK
  <2> QED BY <1>4, <1>5, <1>10, <2>2, GoesKeeps, EntriesKeep DEF Set, RungsOK
<1>11. CASE GetOrFetch(c, q, d)
  <2>1. /\ CallOK(Call("look", q.op, f, at[f], d.tier, TRUE))
        /\ CallOK(Call("fetch", q.op, f, 0, d.tier, FALSE))
        /\ CallOK(Call("wait", q.op, f, 0, d.tier, FALSE))
    BY <1>3, <1>7, <1>11 DEF GetOrFetch
  <2>2. PICK call : Goes(c, call) /\ CallOK(call)
    BY <1>11, <2>1 DEF GetOrFetch
  <2>3. EntriesOK'
    BY <1>3, <1>5, <1>11, EntriesKeep DEF GetOrFetch
  <2> QED BY <1>4, <1>5, <2>2, <2>3, GoesKeeps DEF RungsOK
<1>12. CASE Refresh(c, q, d)
  <2>1. ASSUME NEW was PROVE CallOK(Call("current", q.op, f, RungOf(f), d.tier, was))
    BY <1>3, <1>7, <1>12 DEF Refresh
  <2>2. PICK call : Goes(c, call) /\ CallOK(call)
    BY <1>12, <2>1 DEF Refresh
  <2>3. EntriesOK'
    BY <1>5, <1>12, EntriesKeep DEF Refresh
  <2> QED BY <1>4, <1>5, <2>2, <2>3, GoesKeeps DEF RungsOK
<1>13. CASE Move(c, q, d)
  <2>1. EntriesOK'
    BY <1>5, <1>13, EntriesKeep DEF Move
  <2>2. CASE calls' = calls
    BY <1>4, <1>5, <2>1, <2>2 DEF RungsOK, CallsOK
  <2>3. ASSUME NEW dest, dest = (IF q.op = "promote" THEN at[f] - 1 ELSE at[f] + 1),
               f \in ready, Movable(q.op, at[f]), IsBound(dest),
               Goes(c, Call("source", "promote", f, dest, at[f], TRUE))
        PROVE  RungsOK'
    <3>1. at[f] \in AnyRung
      BY <1>5, <2>3 DEF EntriesOK
    <3>2. dest \in Writable
      BY <2>3, <3>1, SomeRungIsBound, SMT
         DEF Movable, IsBound, Writable, IsCacheRung, LastCacheTier, AnyRung, AuthorityTier
    <3>3. CallOK(Call("source", "promote", f, dest, at[f], TRUE))
      BY <1>7, <3>1, <3>2
    <3> QED BY <1>4, <1>5, <2>1, <2>3, <3>3, GoesKeeps DEF RungsOK
  <2> QED BY <1>13, <2>2, <2>3 DEF Move
<1>14. CASE Drop(c, q, d)
  <2>1. EntriesOK' /\ calls' = calls
    BY <1>5, <1>14, EntriesKeep DEF Drop
  <2> QED BY <1>4, <1>5, <2>1 DEF RungsOK, CallsOK
<1> QED BY <1>2, <1>6, <1>9, <1>10, <1>11, <1>12, <1>13, <1>14

(* So does every step of an operation that has arrived.                    *)
LEMMA ProceedRungs ==
  ASSUME RungsOK, NEW c \in Requesters, Proceeds(c)
  PROVE  RungsOK'
<1> DEFINE call == calls[c]
<1>1. CallsOK /\ EntriesOK /\ CallOK(call)
  BY DEF RungsOK, CallsOK
<1>2. offered' = offered
  BY DEF Proceeds, WaitEnds, Revalidate, SourceRead, Populate, ReadAnswered, SetAccepted,
     SetRejected, PopulationAccepted, PopulationRejected, MoveAnswered, SourceCleared, FallBack
<1>3. SUFFICES CallsOK' /\ EntriesOK'
  BY <1>2 DEF RungsOK
<1>4. call.kind # "idle" => call.tier \in AnyRung
  BY <1>1, SMT DEF CallOK, NoRequest
<1>5. call.kind \in {"source", "write", "clear"} => call.rung \in Writable
  BY <1>1, SMT DEF CallOK, NoRequest
<1>6. UNCHANGED <<at, ready>> => EntriesOK'
  BY <1>1 DEF EntriesOK
<1>7. CASE WaitEnds(c)
  <2>1. CallsOK'
    BY <1>1, <1>7, FinishKeeps, OnwardKeeps DEF WaitEnds
  <2> QED BY <1>6, <1>7, <2>1 DEF WaitEnds
<1>8. CASE Revalidate(c)
  <2>1. CallsOK'
    BY <1>1, <1>8, FinishKeeps, OnwardKeeps DEF Revalidate
  <2>2. EntriesOK'
    BY <1>1, <1>4, <1>8, EntriesKeep DEF Revalidate
  <2> QED BY <2>1, <2>2
<1>9. CASE SourceRead(c)
  <2>1. CallsOK'
    BY <1>1, <1>5, <1>9, FinishKeeps, OnwardKeeps DEF SourceRead
  <2> QED BY <1>6, <1>9, <2>1 DEF SourceRead
<1>10. CASE Populate(c)
  <2>1. IsCacheRung(call.tier) => BoundFrom(call.tier) \in Writable
    BY <1>4, <1>10, BoundIsWritable DEF Populate
  <2>2. CallsOK'
    BY <1>1, <1>10, <2>1, OnwardKeeps DEF Populate
  <2>3. EntriesOK'
    BY <1>1, <1>10, EntriesKeep DEF Populate
  <2> QED BY <2>2, <2>3
<1>11. CASE ReadAnswered(c)
  <2>1. CallsOK'
    BY <1>1, <1>11, FinishKeeps, OnwardKeeps DEF ReadAnswered
  <2> QED BY <1>6, <1>11, <2>1 DEF ReadAnswered
<1>12. CASE SetAccepted(c)
  <2>1. call.kind = "write" /\ call.op = "set" /\ call.rung \in Writable
    BY <1>5, <1>12 DEF SetAccepted
  <2>2. CASE WritesAgain(c, call.rung, FALSE)
    BY <1>1, <2>1, <2>2, AgainKeeps
  <2>3. CASE (Lands(call.frame, call.rung) \/ Keeps) /\ Finishes(c)
    BY <1>1, <2>1, <2>3, FinishKeeps, EntriesKeep
  <2> QED BY <1>12, <2>2, <2>3 DEF SetAccepted
<1>13. CASE SetRejected(c)
  <2>1. /\ call.kind = "write" /\ call.op = "set" /\ call.rung \in Writable
        /\ IsCacheRung(call.tier)
    <3>1. call.kind = "write" /\ call.op = "set"
      BY <1>13 DEF SetRejected
    <3>2. call # NoRequest
      BY <3>1, SMT DEF NoRequest
    <3> HIDE DEF call
    <3> QED BY <1>1, <1>5, <3>1, <3>2 DEF CallOK
  <2>2. BoundFrom(call.tier) \in Writable
    BY <1>4, <2>1, BoundIsWritable
  <2>3. call.rung > 0 => call.rung - 1 \in Writable
    BY <2>1, SomeRungIsBound, SMT DEF Writable, IsCacheRung, LastCacheTier
  <2>4. PICK restored \in {FALSE, call.was /\ IsBound(RungOf(call.frame))} :
          \/ call.rung > 0 /\ WritesAgain(c, call.rung - 1, restored)
          \/ WritesAgain(c, BoundFrom(call.tier), restored)
          \/ /\ IF restored THEN Lands(call.frame, RungOf(call.frame)) ELSE Keeps
             /\ Finishes(c)
    BY <1>13 DEF SetRejected
  <2>5. CASE \E r \in Writable : WritesAgain(c, r, restored)
    BY <1>1, <2>1, <2>5, AgainKeeps
  <2>6. CASE /\ IF restored THEN Lands(call.frame, RungOf(call.frame)) ELSE Keeps
             /\ Finishes(c)
    <3>1. CallsOK'
      BY <1>1, <2>6, FinishKeeps
    <3>2. CASE restored
      BY <1>1, <2>4, <2>6, <3>1, <3>2, EntriesKeep
    <3>3. CASE ~restored
      BY <1>1, <2>6, <3>1, <3>3, EntriesKeep
    <3> QED BY <3>2, <3>3
  <2> QED BY <2>2, <2>3, <2>4, <2>5, <2>6
<1>14. CASE PopulationAccepted(c)
  <2>1. call.kind = "write" /\ call.rung \in Writable
    BY <1>5, <1>14 DEF PopulationAccepted
  <2>2. CallsOK'
    BY <1>1, <1>14, FinishKeeps, OnwardKeeps DEF PopulationAccepted
  <2>3. EntriesOK'
    BY <1>1, <1>14, <2>1, EntriesKeep DEF PopulationAccepted
  <2> QED BY <2>2, <2>3
<1>15. CASE PopulationRejected(c)
  <2>1. CallsOK'
    BY <1>1, <1>15, OnwardKeeps DEF PopulationRejected
  <2>2. EntriesOK'
    BY <1>1, <1>15, EntriesKeep DEF PopulationRejected
  <2> QED BY <2>1, <2>2
<1>16. CASE MoveAnswered(c)
  <2>1. CallsOK'
    BY <1>1, <1>5, <1>16, FinishKeeps, OnwardKeeps DEF MoveAnswered
  <2> QED BY <1>6, <1>16, <2>1 DEF MoveAnswered
<1>17. CASE SourceCleared(c)
  <2>1. call.rung \in Writable
    BY <1>5, <1>17 DEF SourceCleared
  <2> QED BY <1>1, <1>17, <2>1, FinishKeeps, EntriesKeep DEF SourceCleared
<1>18. CASE FallBack(c)
  BY <1>1, <1>6, <1>18, FinishKeeps DEF FallBack
<1> QED BY <1>7, <1>8, <1>9, <1>10, <1>11, <1>12, <1>13, <1>14, <1>15, <1>16, <1>17, <1>18
        DEF Proceeds

(* Every step of the front door keeps its calls and its entries in range.  *)
LEMMA RungsStep == RungsOK /\ [DoorNext]_doorVars => RungsOK'
<1> SUFFICES ASSUME RungsOK, [DoorNext]_doorVars PROVE RungsOK'
  OBVIOUS
<1>1. ASSUME NEW f \in ready, Lapse(f) PROVE RungsOK'
  BY <1>1, EntriesKeep DEF Lapse, RungsOK, CallsOK
<1>2. CASE UNCHANGED doorVars
  BY <1>2 DEF doorVars, RungsOK, CallsOK, EntriesOK
<1> QED BY <1>1, <1>2, ArrivalRungs, ProceedRungs DEF DoorNext

(* No operation ever writes at the authority or at a rung that is not      *)
(* bound, whichever rungs the application's policy names: set refuses the  *)
(* authority, and every other write goes through nearest_bound_rung, which *)
(* does not leave the ladder.                                              *)
THEOREM AuthorityStaysUnwritten == DoorSpec => []AuthorityIsNeverWritten
<1>1. DoorInit => RungsOK
  <2> SUFFICES ASSUME DoorInit PROVE RungsOK
    OBVIOUS
  <2>1. \A c \in Requesters : CallOK(calls[c])
    BY DEF DoorInit, CallOK, NoRequest
  <2>2. DOMAIN at = {} /\ ready = {}
    BY SMT DEF DoorInit
  <2> QED BY <2>1, <2>2 DEF DoorInit, RungsOK, CallsOK, EntriesOK
<1>2. RungsOK => AuthorityIsNeverWritten
  BY SMT DEF RungsOK, CallsOK, CallOK, NoRequest, Writable, AuthorityIsNeverWritten
<1> QED BY <1>1, <1>2, RungsStep, PTL DEF DoorSpec

-----------------------------------------------------------------------------
FailuresOK == failing \in [0..(BoundRungs - 1) -> 0..OpensAt]

(* The number of failures in a row never passes the threshold.             *)
LEMMA FailuresStep == FailuresOK /\ [DoorNext]_doorVars => FailuresOK'
<1> SUFFICES ASSUME FailuresOK, [DoorNext]_doorVars PROVE FailuresOK'
  OBVIOUS
<1>1. CASE failing' = failing
  BY <1>1 DEF FailuresOK
<1>2. ASSUME NEW r, CountOk(r) PROVE FailuresOK'
  <2>1. 0 \in 0..OpensAt
    BY OpensAtIsPositive, SMT
  <2> QED BY <1>2, <2>1 DEF CountOk, FailuresOK
<1>3. ASSUME NEW r, NEW err, CountErr(r, err) PROVE FailuresOK'
  <2>1. CASE r \in 0..(BoundRungs - 1)
    BY <1>3, <2>1, OpensAtIsPositive, SMT DEF CountErr, FailuresOK
  <2>2. CASE r \notin 0..(BoundRungs - 1)
    BY <1>3, <2>2 DEF CountErr, FailuresOK
  <2> QED BY <2>1, <2>2
<1>4. ASSUME NEW c \in Requesters, NEW q \in offered.requests, Arrive(c, q) PROVE FailuresOK'
  <2>1. PICK d \in Resolved(q) :
          \/ Refuse(q, d) \/ Get(c, q, d) \/ Set(c, q, d) \/ GetOrFetch(c, q, d)
          \/ Refresh(c, q, d) \/ Move(c, q, d) \/ Drop(c, q, d)
    BY <1>4 DEF Arrive
  <2> QED BY <1>1, <2>1 DEF Refuse, Get, Set, GetOrFetch, Refresh, Move, Drop, Admitted
<1>5. ASSUME NEW c \in Requesters, Proceeds(c) PROVE FailuresOK'
  <2>1. CASE WaitEnds(c) \/ Revalidate(c) \/ SourceRead(c) \/ Populate(c) \/ FallBack(c)
    BY <1>1, <2>1 DEF WaitEnds, Revalidate, SourceRead, Populate, FallBack
  <2>2. CASE ReadAnswered(c)
    BY <1>1, <1>2, <1>3, <2>2 DEF ReadAnswered
  <2>3. CASE SetAccepted(c) \/ PopulationAccepted(c)
    BY <1>2, <2>3 DEF SetAccepted, PopulationAccepted
  <2>4. CASE SetRejected(c) \/ PopulationRejected(c)
    BY <1>3, <2>4 DEF SetRejected, PopulationRejected
  <2>5. CASE MoveAnswered(c) \/ SourceCleared(c)
    BY <1>2, <1>3, <2>5 DEF MoveAnswered, SourceCleared
  <2> QED BY <1>5, <2>1, <2>2, <2>3, <2>4, <2>5 DEF Proceeds
<1>6. ASSUME NEW f \in ready, Lapse(f) PROVE FailuresOK'
  BY <1>1, <1>6 DEF Lapse
<1>7. CASE UNCHANGED doorVars
  BY <1>1, <1>7 DEF doorVars
<1> QED BY <1>4, <1>5, <1>6, <1>7 DEF DoorNext

(* The report of a rung and the routing of writes agree, for every         *)
(* threshold: continuity compares with it, and so does the circuit breaker.*)
THEOREM ReportsAgree == DoorSpec => []ReportMatchesRouting
<1>1. DoorInit => FailuresOK
  BY OpensAtIsPositive, SMT DEF DoorInit, FailuresOK
<1>2. FailuresOK => ReportMatchesRouting
  <2> SUFFICES ASSUME FailuresOK, NEW r \in DOMAIN failing
               PROVE  (DefaultSelect("Set", [tier |-> r, health |-> HealthOf(r)]).tier # 1)
                        <=> (r = 1 /\ ContinuityOf(r) = "Unavailable")
    BY DEF ReportMatchesRouting
  <2>1. r \in 0..(BoundRungs - 1) /\ failing[r] \in 0..OpensAt
        /\ HealthOf(r) = [failures |-> failing[r], available |-> TRUE]
    BY DEF FailuresOK, HealthOf
  <2>2. (ContinuityOf(r) = "Unavailable") <=> failing[r] >= OpensAt
    BY <2>1, OpensAtIsPositive, SomeRungIsBound, SMT DEF ContinuityOf
  <2>3. DefaultSelect("Set", [tier |-> r, health |-> HealthOf(r)]).tier
          = IF r = 1 /\ failing[r] >= OpensAt THEN LastCacheTier ELSE 1
    BY <2>1, OpensAtIsPositive, SMT
       DEF DefaultSelect, HealthyFallback, CapacityFallback, BaseTier, Allow,
           CircuitOpen, LastCacheTier
  <2> QED BY <2>2, <2>3, SMT DEF LastCacheTier
<1> QED BY <1>1, <1>2, FailuresStep, PTL DEF DoorSpec

-----------------------------------------------------------------------------
(* The last cap elements of a sequence.                                    *)
Recent(s, cap) == IF Len(s) <= cap THEN s ELSE SubSeq(s, Len(s) - cap + 1, Len(s))

(* Recording one more keeps a ring the most recent part of all there were. *)
LEMMA RetainedIsRecent ==
  ASSUME NEW S, NEW s \in Seq(S), NEW x \in S, NEW cap \in Nat \ {0}
  PROVE  Retained(Recent(s, cap), cap, x) = Recent(Append(s, x), cap)
<1>1. Len(s) \in Nat /\ Len(Append(s, x)) = Len(s) + 1 /\ Append(s, x) \in Seq(S)
  BY SMT
<1>2. CASE Len(s) < cap
  <2>1. Recent(s, cap) = s /\ Recent(Append(s, x), cap) = Append(s, x)
    BY <1>1, <1>2, SMT DEF Recent
  <2> QED BY <1>1, <1>2, <2>1, SMT DEF Retained
<1>3. CASE Len(s) = cap
  <2>1. Recent(s, cap) = s
    BY <1>3, SMT DEF Recent
  <2>2. Recent(Append(s, x), cap) = SubSeq(Append(s, x), 2, cap + 1)
    BY <1>1, <1>3, SMT DEF Recent
  <2>3. Append(Tail(s), x) = SubSeq(Append(s, x), 2, cap + 1)
    BY <1>1, <1>3, SMT
  <2> QED BY <1>3, <2>1, <2>2, <2>3 DEF Retained
<1>4. CASE Len(s) > cap
  <2>1. PICK r : r = SubSeq(s, Len(s) - cap + 1, Len(s))
    OBVIOUS
  <2>2. r \in Seq(S) /\ Len(r) = cap /\ \A j \in 1..cap : r[j] = s[Len(s) - cap + j]
    BY <1>1, <1>4, <2>1, SMT
  <2>a. PICK u : u = Append(s, x)
    OBVIOUS
  <2>b. u \in Seq(S) /\ Len(u) = Len(s) + 1
    BY <1>1, <2>a
  <2>3. PICK b : b = SubSeq(u, Len(s) - cap + 2, Len(s) + 1)
    OBVIOUS
  <2>4. b \in Seq(S) /\ Len(b) = cap /\ \A j \in 1..cap : b[j] = u[Len(s) - cap + 1 + j]
    BY <1>1, <1>4, <2>b, <2>3, SMT
  <2>5. Recent(s, cap) = r /\ Recent(Append(s, x), cap) = b
    <3>1. Recent(s, cap) = r
      BY <1>1, <1>4, <2>1, SMT DEF Recent
    <3>2. Len(u) - cap + 1 = Len(s) - cap + 2 /\ ~(Len(u) <= cap)
      BY <1>1, <1>4, <2>b, SMT
    <3>3. Recent(u, cap) = b
      BY <2>b, <2>3, <3>2 DEF Recent
    <3> QED BY <2>a, <3>1, <3>3
  <2>6. PICK t : t = Tail(r)
    OBVIOUS
  <2>7. t \in Seq(S) /\ Len(t) = cap - 1 /\ \A j \in 1..(cap - 1) : t[j] = r[j + 1]
    BY <2>2, <2>6, SMT
  <2>8. PICK a : a = Append(t, x)
    OBVIOUS
  <2>9. a \in Seq(S) /\ Len(a) = cap /\ a[cap] = x /\ \A j \in 1..(cap - 1) : a[j] = t[j]
    BY <2>7, <2>8, SMT
  <2>10. ASSUME NEW i \in 1..cap PROVE a[i] = b[i]
    <3>1. CASE i = cap
      BY <1>1, <1>4, <2>a, <2>4, <2>9, <3>1, SMT
    <3>2. CASE i < cap
      <4>1. i \in 1..(cap - 1) /\ i + 1 \in 1..cap
        BY <3>2, SMT
      <4>2. a[i] = s[Len(s) - cap + 1 + i]
        BY <1>1, <2>2, <2>7, <2>9, <4>1, SMT
      <4>3. Len(s) - cap + 1 + i \in 1..Len(s)
        BY <1>1, <1>4, <4>1, SMT
      <4>4. Append(s, x)[Len(s) - cap + 1 + i] = s[Len(s) - cap + 1 + i]
        BY <1>1, <4>3, SMT
      <4> QED BY <2>a, <2>4, <4>2, <4>4
    <3> QED BY <3>1, <3>2, SMT
  <2>11. a = b
    BY <2>4, <2>9, <2>10, SeqEqual
  <2> QED BY <2>2, <2>5, <2>6, <2>8, <2>11 DEF Retained
<1> QED BY <1>1, <1>2, <1>3, <1>4, SMT

RingOK ==
  /\ \E S : emitted \in Seq(S)
  /\ ring = Recent(emitted, RingSize(RingCap))

(* emit keeps the ring the recent part of what was emitted, whether it     *)
(* records one call or, with the failure of a population, two.             *)
LEMMA EmitKeepsRing ==
  ASSUME RingOK, NEW records, Emit(records),
         (\E x : records = <<x>>) \/ (\E x, y : records = <<x, y>>)
  PROVE  RingOK'
<1> DEFINE cap == RingSize(RingCap)
<1>1. cap \in Nat \ {0}
  BY RingCapIsNat, SMT DEF RingSize
<1>2. PICK S0 : emitted \in Seq(S0)
  BY DEF RingOK
<1> HIDE DEF cap
<1>3. CASE \E x : records = <<x>>
  <2>1. PICK x : records = <<x>>
    BY <1>3
  <2> DEFINE S == S0 \cup {x}
  <2>2. emitted \in Seq(S)
    BY <1>2, SMT
  <2>3. emitted' = Append(emitted, x) /\ ring' = Retained(ring, cap, x)
    BY <2>1, <2>2, SMT DEF Emit, cap
  <2>4. ring' = Recent(emitted', cap)
    BY <1>1, <2>2, <2>3, RetainedIsRecent, SMT DEF RingOK, cap
  <2>5. emitted' \in Seq(S)
    BY <2>2, <2>3, SMT
  <2> QED BY <2>4, <2>5 DEF RingOK, cap
<1>4. CASE \E x, y : records = <<x, y>>
  <2>1. PICK x, y : records = <<x, y>>
    BY <1>4
  <2> DEFINE S == S0 \cup {x, y}
  <2>e. PICK e : e = Append(emitted, x)
    OBVIOUS
  <2>2. emitted \in Seq(S) /\ e \in Seq(S)
    BY <1>2, <2>e, SMT
  <2>3. emitted' = Append(e, y) /\ ring' = Retained(Retained(ring, cap, x), cap, y)
    BY <2>1, <2>2, <2>e, SMT DEF Emit, cap
  <2>4. Retained(ring, cap, x) = Recent(e, cap)
    BY <1>1, <2>2, <2>e, RetainedIsRecent, SMT DEF RingOK, cap
  <2>5. ring' = Recent(emitted', cap)
    BY <1>1, <2>2, <2>3, <2>4, RetainedIsRecent, SMT
  <2>6. emitted' \in Seq(S)
    BY <2>2, <2>3, SMT
  <2> QED BY <2>5, <2>6 DEF RingOK, cap
<1> QED BY <1>3, <1>4

(* The telemetry ring holds the most recent records, in their order, for   *)
(* every capacity it is made with, 0 included.                             *)
THEOREM RingStaysRecent == DoorSpec => []RingIsRecent
<1>1. DoorInit => RingOK
  <2> SUFFICES ASSUME DoorInit PROVE RingOK
    OBVIOUS
  <2>1. emitted = <<>> /\ ring = <<>>
    BY DEF DoorInit
  <2>2. emitted \in Seq(Nat) /\ Len(emitted) = 0
    BY <2>1, SMT
  <2>3. RingSize(RingCap) \in Nat
    BY RingCapIsNat DEF RingSize
  <2> QED BY <2>1, <2>2, <2>3, SMT DEF RingOK, Recent
<1>2. RingOK /\ [DoorNext]_doorVars => RingOK'
  <2> SUFFICES ASSUME RingOK, [DoorNext]_doorVars PROVE RingOK'
    OBVIOUS
  <2>1. CASE ring' = ring /\ emitted' = emitted
    BY <2>1 DEF RingOK
  <2>2. ASSUME NEW x, Emit(<<x>>) PROVE RingOK'
    BY <2>2, EmitKeepsRing
  <2>3. ASSUME NEW x, NEW y, Emit(<<x, y>>) PROVE RingOK'
    BY <2>3, EmitKeepsRing
  <2>4. ASSUME NEW c \in Requesters, NEW q \in offered.requests, Arrive(c, q) PROVE RingOK'
    BY <2>1, <2>2, <2>4 DEF Arrive, Refuse, Get, Set, GetOrFetch, Refresh, Move, Drop, Silent
  <2>5. ASSUME NEW c \in Requesters, Proceeds(c) PROVE RingOK'
    <3>1. CASE WaitEnds(c) \/ Revalidate(c) \/ SourceRead(c) \/ SourceCleared(c)
      BY <2>1, <3>1 DEF WaitEnds, Revalidate, SourceRead, SourceCleared
    <3>2. CASE Populate(c) \/ FallBack(c)
      BY <2>1, <2>2, <3>2 DEF Populate, FallBack, Silent
    <3>3. CASE ReadAnswered(c) \/ MoveAnswered(c)
      BY <2>2, <3>3 DEF ReadAnswered, MoveAnswered
    <3>4. CASE SetAccepted(c) \/ SetRejected(c)
      BY <2>2, <3>4 DEF SetAccepted, SetRejected
    <3>5. CASE PopulationAccepted(c) \/ PopulationRejected(c)
      BY <2>2, <2>3, <3>5 DEF PopulationAccepted, PopulationRejected
    <3> QED BY <2>5, <3>1, <3>2, <3>3, <3>4, <3>5 DEF Proceeds
  <2>6. ASSUME NEW f \in ready, Lapse(f) PROVE RingOK'
    BY <2>1, <2>6 DEF Lapse
  <2>7. CASE UNCHANGED doorVars
    BY <2>1, <2>7 DEF doorVars
  <2> QED BY <2>4, <2>5, <2>6, <2>7 DEF DoorNext
<1>3. RingOK => RingIsRecent
  BY DEF RingOK, RingIsRecent, Recent
<1> QED BY <1>1, <1>2, <1>3, PTL DEF DoorSpec

-----------------------------------------------------------------------------
(* The telemetry: percentiles over the samples that were kept.             *)

-----------------------------------------------------------------------------
(* The first m positive numbers are m.                                     *)
LEMMA UpToIs ==
  ASSUME NEW m \in Nat
  PROVE  IsFiniteSet(1..m) /\ Cardinality(1..m) = m
BY FS_Interval, SMT

(* p arranges the samples s in ascending order.                            *)
Arranges(p, s, n) ==
  /\ p \in Bijection(1..n, 1..n)
  /\ \A i, j \in 1..n : i < j => s[p[i]] <= s[p[j]]

(* The samples that stay within w.                                         *)
Within(s, n, w) == {i \in 1..n : s[i] <= w}

(* v is the least sample that r samples stay within.                       *)
LeastOf(s, n, v, r) ==
  /\ \E i \in 1..n : s[i] = v
  /\ \A w : Cardinality(Within(s, n, w)) \in Nat
  /\ Cardinality(Within(s, n, v)) >= r
  /\ \A i \in 1..n : s[i] < v => Cardinality(Within(s, n, s[i])) < r

(* Samples can be sorted: the number of samples no later than one, equal   *)
(* ones in the order they were taken, is its place.                        *)
LEMMA ArrangementExists ==
  ASSUME NEW n \in Nat, NEW s \in [1..n -> Nat]
  PROVE  \E p : Arranges(p, s, n)
<1> DEFINE I == 1..n
           Before(j, i) == s[j] < s[i] \/ (s[j] = s[i] /\ j <= i)
           Below(i) == {j \in I : Before(j, i)}
           place == [i \in I |-> Cardinality(Below(i))]
<1>1. IsFiniteSet(I) /\ Cardinality(I) = n
  BY FS_Interval, SMT
<1>2. \A i \in I : s[i] \in Nat /\ i \in Nat
  BY SMT
<1>3. /\ \A i \in I : Before(i, i)
      /\ \A i, j \in I : i # j => Before(i, j) \/ Before(j, i)
      /\ \A i, j \in I : i # j /\ Before(i, j) => ~Before(j, i)
      /\ \A i, j, k \in I : Before(i, j) /\ Before(j, k) => Before(i, k)
      /\ \A i, j \in I : s[i] < s[j] => Before(i, j) /\ i # j
  BY <1>2, SMT
<1>a. \A i \in I : Below(i) = {j \in I : Before(j, i)}
  OBVIOUS
<1> HIDE DEF Before, Below
<1>4. ASSUME NEW i \in I
      PROVE  /\ IsFiniteSet(Below(i)) /\ Cardinality(Below(i)) \in I
  <2>1. Below(i) \subseteq I /\ i \in Below(i)
    BY <1>3, <1>a
  <2>2. IsFiniteSet(Below(i)) /\ Cardinality(Below(i)) <= n /\ Cardinality(Below(i)) \in Nat
    BY <1>1, <2>1, FS_Subset, FS_CardinalityType, SMT
  <2>3. Cardinality(Below(i)) # 0
    BY <2>1, <2>2, FS_EmptySet
  <2> QED BY <2>2, <2>3, SMT
<1>5. ASSUME NEW i \in I, NEW j \in I, i # j, Before(i, j)
      PROVE  place[i] < place[j]
  <2>1. Below(i) \subseteq Below(j) /\ j \in Below(j) /\ j \notin Below(i)
    BY <1>3, <1>5, <1>a, SMT
  <2>2. Below(i) # Below(j)
    BY <2>1
  <2>3. /\ Cardinality(Below(i)) <= Cardinality(Below(j))
        /\ Cardinality(Below(i)) # Cardinality(Below(j))
    BY <1>4, <2>1, <2>2, FS_Subset
  <2>4. Cardinality(Below(i)) \in Nat /\ Cardinality(Below(j)) \in Nat
    BY <1>4, SMT
  <2> QED BY <2>3, <2>4, SMT
<1>6. place \in [I -> I]
  BY <1>4
<1> HIDE DEF place
<1>7. ASSUME NEW i \in I, NEW j \in I, place[i] = place[j] PROVE i = j
  <2>1. place[i] \in Nat /\ place[j] \in Nat
    BY <1>6, SMT
  <2> QED BY <1>3, <1>5, <1>7, <2>1, SMT
<1>8. place \in Injection(I, I)
  BY <1>6, <1>7 DEF Injection, IsInjective
<1>9. place \in Surjection(I, I)
  BY <1>1, <1>8, FS_Injection
<1>10. \A k \in I : \E i \in I : place[i] = k
  BY <1>9 DEF Surjection
<1> DEFINE p == [k \in I |-> CHOOSE i \in I : place[i] = k]
<1>11. \A k \in I : p[k] \in I /\ place[p[k]] = k
  BY <1>10
<1>12. p \in [I -> I]
  BY <1>11
<1> HIDE DEF p
<1>13. \A i \in I : p[place[i]] = i
  BY <1>6, <1>7, <1>11
<1>14. p \in Bijection(I, I)
  <2>1. \A a, b \in I : p[a] = p[b] => a = b
    BY <1>11
  <2>2. \A i \in I : \E k \in I : p[k] = i
    BY <1>6, <1>13
  <2> QED BY <1>12, <2>1, <2>2 DEF Bijection, Injection, Surjection, IsInjective
<1>15. ASSUME NEW i \in I, NEW j \in I, i < j PROVE s[p[i]] <= s[p[j]]
  <2>1. p[i] \in I /\ p[j] \in I /\ place[p[i]] = i /\ place[p[j]] = j
    BY <1>11
  <2>2. CASE s[p[j]] < s[p[i]]
    <3>1. j < i
      BY <1>3, <1>5, <2>1, <2>2, SMT
    <3> QED BY <1>15, <3>1, SMT
  <2> QED BY <1>2, <2>1, <2>2, SMT
<1> QED BY <1>14, <1>15 DEF Arranges

(* Sorting rearranges the samples in ascending order.                      *)
LEMMA SortedIs ==
  ASSUME NEW n \in Nat, NEW s \in [1..n -> Nat]
  PROVE  \E p : Arranges(p, s, n) /\ Sorted(s) = [i \in 1..n |-> s[p[i]]]
<1> DEFINE P(p) == \A i, j \in 1..n : i < j => s[p[i]] <= s[p[j]]
           B == Bijection(1..n, 1..n)
           a == CHOOSE p \in B : P(p)
<1>1. \E p \in B : P(p)
  BY ArrangementExists DEF Arranges
<1>2. a \in B /\ P(a)
  BY <1>1
<1>3. DOMAIN s = 1..n
  OBVIOUS
<1>4. Sorted(s) = [i \in 1..n |-> s[a[i]]]
  BY <1>3, SMT DEF Sorted
<1> HIDE DEF a
<1> QED BY <1>2, <1>4 DEF Arranges

(* The rank of a quantile is the least number of samples that is enough.   *)
LEMMA RankIs ==
  ASSUME NEW num \in Nat \ {0}, NEW den \in Nat, num <= den, NEW n \in Nat \ {0}
  PROVE  /\ Rank(num, den, n) \in 1..n
         /\ \A u \in Nat : den * u >= num * n <=> u >= Rank(num, den, n)
<1> DEFINE A == num * n
           b == A + den - 1
           q == b \div den
           m == b % den
<1>1. A \in Nat /\ A >= 1 /\ den \in Nat /\ den >= 1
  BY SMT
<1>2. b \in Nat
  BY <1>1, SMT
<1>a. A = num * n /\ b = A + den - 1
  OBVIOUS
<1> HIDE DEF A, b
<1>3. q \in Nat /\ m \in Nat /\ m < den /\ b = den * q + m
  BY <1>1, <1>2, SMT
<1>4. \A u, v \in Nat : u < v => den * u + den <= den * v
  <2> SUFFICES ASSUME NEW u \in Nat, NEW v \in Nat, u < v
               PROVE  den * u + den <= den * v
    OBVIOUS
  <2>1. PICK w \in Nat : v = u + 1 + w
    <3>1. v - u - 1 \in Nat /\ v = u + 1 + (v - u - 1)
      BY SMT
    <3> QED BY <3>1
  <2>2. den * v = den * u + den + den * w
    BY <1>1, <2>1, SMT
  <2>3. den * w \in Nat /\ den * u \in Nat
    BY <1>1, SMT
  <2> QED BY <2>2, <2>3, SMT
<1> HIDE DEF q, m
<1>5. den * q >= A /\ den * q <= b /\ den * q \in Nat
  BY <1>1, <1>3, <1>a, SMT
<1>6. ASSUME NEW u \in Nat PROVE den * u >= A <=> u >= q
  <2>0. den * u \in Nat
    BY <1>1, SMT
  <2>1. CASE u = q
    BY <2>1, <1>5, SMT
  <2>2. CASE u < q
    <3>1. den * u + den <= den * q
      BY <1>3, <1>4, <2>2
    <3> QED BY <1>1, <1>3, <1>5, <1>a, <2>0, <2>2, <3>1, SMT
  <2>3. CASE q < u
    <3>1. den * q + den <= den * u
      BY <1>3, <1>4, <2>3
    <3> QED BY <1>1, <1>3, <1>5, <2>0, <2>3, <3>1, SMT
  <2> QED BY <1>3, <2>1, <2>2, <2>3, SMT
<1>7. q >= 1
  <2>1. den * 0 = 0
    BY <1>1, SMT
  <2> QED BY <1>1, <1>3, <1>5, <2>1, SMT
<1>8. q <= n
  <2>1. den * n >= A
    <3>1. PICK w \in Nat : den = num + w
      <4>1. den - num \in Nat /\ den = num + (den - num)
        BY SMT
      <4> QED BY <4>1
    <3>2. den * n = num * n + w * n
      BY <3>1, SMT
    <3>3. w * n \in Nat /\ num * n \in Nat
      BY SMT
    <3> QED BY <1>a, <3>2, <3>3, SMT
  <2> QED BY <1>6, <2>1
<1>9. Rank(num, den, n) = q
  BY <1>3, <1>7, <1>8, SMT DEF Rank, q, b, A
<1> QED BY <1>3, <1>6, <1>7, <1>8, <1>9, <1>a, SMT

(* The sample at the rank of a quantile is the least one that enough       *)
(* samples stay within: r samples do, and fewer than r within a lesser one.*)
LEMMA RankedIsLeast ==
  ASSUME NEW n \in Nat \ {0}, NEW s \in [1..n -> Nat], NEW p, Arranges(p, s, n),
         NEW r \in 1..n
  PROVE  LeastOf(s, n, s[p[r]], r)
<1> DEFINE I == 1..n
           v == s[p[r]]
<1>a. \A w : Within(s, n, w) = {i \in I : s[i] <= w}
  BY DEF Within
<1>1. r \in I
  OBVIOUS
<1>2. /\ s \in [I -> Nat] /\ p \in [I -> I]
      /\ \A i, j \in I : p[i] = p[j] => i = j
      /\ \A i \in I : \E k \in I : p[k] = i
      /\ \A i, j \in I : i < j => s[p[i]] <= s[p[j]]
  <2>1. s \in [I -> Nat]
    OBVIOUS
  <2>2. p \in Bijection(I, I) /\ \A i, j \in I : i < j => s[p[i]] <= s[p[j]]
    BY DEF Arranges
  <2>3. /\ p \in [I -> I]
        /\ \A i, j \in I : p[i] = p[j] => i = j
        /\ \A i \in I : \E k \in I : p[k] = i
    BY <2>2 DEF Bijection, Injection, Surjection, IsInjective
  <2> QED BY <2>1, <2>2, <2>3
<1>3. r \in Nat /\ p[r] \in I /\ v \in Nat /\ \A i \in I : s[i] \in Nat /\ p[i] \in I
  <2>1. \A i \in I : s[i] \in Nat /\ p[i] \in I
    BY <1>2
  <2>2. p[r] \in I
    BY <1>1, <2>1
  <2>3. v \in Nat
    BY <2>1, <2>2
  <2> QED BY <2>1, <2>2, <2>3, SMT
<1>4. IsFiniteSet(I)
  BY FS_Interval, SMT
<1>5. \A w : IsFiniteSet(Within(s, n, w)) /\ Cardinality(Within(s, n, w)) \in Nat
  <2> SUFFICES ASSUME NEW w PROVE IsFiniteSet(Within(s, n, w)) /\ Cardinality(Within(s, n, w)) \in Nat
    OBVIOUS
  <2>1. Within(s, n, w) \subseteq I
    BY <1>a
  <2> QED BY <1>4, <2>1, FS_Subset, FS_CardinalityType
<1>6. Cardinality(Within(s, n, v)) >= r
  <2> DEFINE f == [k \in 1..r |-> p[k]]
  <2>1. 1..r \subseteq I
    BY <1>1, <1>3, SMT
  <2>2. \A k \in 1..r : p[k] \in Within(s, n, v)
    <3> SUFFICES ASSUME NEW k \in 1..r PROVE s[p[k]] <= v
      BY <1>3, <1>a, <2>1
    <3>1. k \in I /\ (k = r \/ k < r) /\ s[p[k]] \in Nat
      BY <1>3, <2>1, SMT
    <3>2. k < r => s[p[k]] <= s[p[r]]
      BY <1>1, <1>2, <3>1
    <3> QED BY <1>3, <3>1, <3>2, SMT
  <2>3. f \in Injection(1..r, Within(s, n, v))
    BY <1>2, <2>1, <2>2 DEF Injection, IsInjective
  <2>4. Cardinality(1..r) <= Cardinality(Within(s, n, v))
    BY <1>5, <2>3, FS_Injection, SMT
  <2>5. Cardinality(1..r) = r
    BY <1>1, <1>3, FS_Interval, SMT
  <2> QED BY <1>3, <1>5, <2>4, <2>5
<1>7. ASSUME NEW i \in I, s[i] < v PROVE Cardinality(Within(s, n, s[i])) < r
  <2> DEFINE T == Within(s, n, s[i])
             f == [j \in T |-> CHOOSE k \in I : p[k] = j]
  <2>0. \A j \in T : j \in I /\ s[j] <= s[i]
    BY <1>a
  <2>1. \A j \in T : f[j] \in I /\ p[f[j]] = j
    BY <1>2, <2>0
  <2>2. ASSUME NEW j \in T PROVE f[j] \in 1..(r - 1)
    <3>1. f[j] \in I /\ s[p[f[j]]] <= s[i]
      BY <2>0, <2>1
    <3>a. s[i] \in Nat /\ s[i] < v /\ v \in Nat
      BY <1>3, <1>7
    <3>2. CASE f[j] = r
      <4>1. s[p[f[j]]] = v
        BY <3>2
      <4> QED BY <3>1, <3>a, <4>1, SMT
    <3>3. CASE r < f[j]
      <4>1. v <= s[p[f[j]]]
        BY <1>1, <1>2, <3>1, <3>3
      <4>2. s[p[f[j]]] \in Nat
        BY <1>3, <3>1
      <4> HIDE DEF f, v
      <4> QED BY <3>1, <3>a, <4>1, <4>2, SMT
    <3> QED BY <1>3, <3>1, <3>2, <3>3, SMT
  <2>b. f \in [T -> 1..(r - 1)]
    BY <2>2
  <2> HIDE DEF T, f
  <2>3. f \in Injection(T, 1..(r - 1))
    BY <2>1, <2>b, SMT DEF Injection, IsInjective
  <2>4. IsFiniteSet(1..(r - 1)) /\ Cardinality(1..(r - 1)) = r - 1
    <3>1. PICK m \in Nat : m = r - 1
      BY <1>1, <1>3, SMT
    <3>2. IsFiniteSet(1..m) /\ Cardinality(1..m) = m
      BY UpToIs
    <3> QED BY <3>1, <3>2
  <2>5. Cardinality(T) <= r - 1
    BY <2>3, <2>4, FS_Injection, SMT
  <2>6. Cardinality(T) \in Nat
    BY <1>5 DEF T
  <2> QED BY <1>3, <2>5, <2>6, SMT DEF T
<1>8. \E i \in I : s[i] = v
  BY <1>3
<1> QED BY <1>5, <1>6, <1>7, <1>8 DEF LeastOf

(* The sample at the rank of a quantile is the quantile.                   *)
LEMMA RankedIsQuantile ==
  ASSUME NEW n \in Nat \ {0}, NEW s \in Seq(Nat), Len(s) = n, NEW p, Arranges(p, s, n),
         NEW num \in Nat \ {0}, NEW den \in Nat, num <= den
  PROVE  IsQuantile(s[p[Rank(num, den, n)]], num, den, s)
<1> DEFINE r == Rank(num, den, n)
           v == s[p[r]]
<1>1. r \in 1..n /\ \A u \in Nat : den * u >= num * n <=> u >= r
  BY RankIs
<1>2. s \in [1..n -> Nat] /\ DOMAIN s = 1..n
  BY SMT
<1> HIDE DEF r, v
<1>a. v = s[p[r]]
  BY DEF v
<1>3. /\ \E i \in 1..n : s[i] = v
      /\ \A w : Cardinality(Within(s, n, w)) \in Nat
      /\ Cardinality(Within(s, n, v)) >= r
      /\ \A i \in 1..n : s[i] < v => Cardinality(Within(s, n, s[i])) < r
  <2>1. LeastOf(s, n, s[p[r]], r)
    BY <1>1, <1>2, RankedIsLeast, Zenon
  <2> QED BY <2>1, <1>a, Zenon DEF LeastOf
<1>4. den * Cardinality(Within(s, n, v)) >= num * n
  BY <1>1, <1>3
<1>5. ASSUME NEW i \in 1..n, s[i] < v PROVE ~(den * Cardinality(Within(s, n, s[i])) >= num * n)
  <2>1. Cardinality(Within(s, n, s[i])) \in Nat /\ Cardinality(Within(s, n, s[i])) < r /\ r \in Nat
    BY <1>1, <1>3, <1>5, SMT
  <2>2. ~(Cardinality(Within(s, n, s[i])) >= r)
    BY <2>1, SMT
  <2> QED BY <1>1, <2>1, <2>2
<1> QED BY <1>2, <1>3, <1>4, <1>5 DEF IsQuantile, Within, r, v

(* Every percentile of from_samples is the quantile it is named for.       *)
LEMMA PercentilesAre ==
  ASSUME NEW s \in Seq(Nat), s # <<>>
  PROVE  LET p == Percentiles(s)
         IN  /\ IsQuantile(p.p50, 50, 100, s)
             /\ IsQuantile(p.p95, 95, 100, s)
             /\ IsQuantile(p.p99, 99, 100, s)
             /\ IsQuantile(p.p999, 999, 1000, s)
             /\ IsQuantile(p.max, 1, 1, s)
<1>1. PICK n \in Nat \ {0} : n = Len(s)
  BY SMT
<1>2. s \in [1..n -> Nat] /\ n \in Nat
  BY <1>1, SMT
<1>3. PICK p : Arranges(p, s, n) /\ Sorted(s) = [i \in 1..n |-> s[p[i]]]
  BY <1>2, SortedIs
<1>4. Len(Sorted(s)) = n
  <2>1. p \in [1..n -> 1..n]
    BY <1>3 DEF Arranges, Bijection, Injection
  <2>2. [i \in 1..n |-> s[p[i]]] \in [1..n -> Nat]
    BY <1>2, <2>1
  <2>3. PICK t : t = [i \in 1..n |-> s[p[i]]]
    OBVIOUS
  <2>4. t \in Seq(Nat) /\ Len(t) = n
    BY <1>2, <2>2, <2>3, SMT
  <2> QED BY <1>3, <2>3, <2>4
<1>5. ASSUME NEW num \in Nat \ {0}, NEW den \in Nat, num <= den
      PROVE  IsQuantile(Sorted(s)[Rank(num, den, Len(Sorted(s)))], num, den, s)
  <2>1. Rank(num, den, n) \in 1..n
    BY <1>5, RankIs
  <2>2. Sorted(s)[Rank(num, den, n)] = s[p[Rank(num, den, n)]]
    BY <1>3, <2>1
  <2>3. IsQuantile(s[p[Rank(num, den, n)]], num, den, s)
    BY <1>1, <1>3, <1>5, RankedIsQuantile
  <2> QED BY <1>4, <2>2, <2>3
<1>6. Rank(1, 1, n) = n
  BY <1>2, SMT DEF Rank
<1>7. /\ IsQuantile(Sorted(s)[Rank(50, 100, Len(Sorted(s)))], 50, 100, s)
      /\ IsQuantile(Sorted(s)[Rank(95, 100, Len(Sorted(s)))], 95, 100, s)
      /\ IsQuantile(Sorted(s)[Rank(99, 100, Len(Sorted(s)))], 99, 100, s)
      /\ IsQuantile(Sorted(s)[Rank(999, 1000, Len(Sorted(s)))], 999, 1000, s)
      /\ IsQuantile(Sorted(s)[Rank(1, 1, Len(Sorted(s)))], 1, 1, s)
  BY <1>5, SMT
<1>8. IsQuantile(Sorted(s)[Len(Sorted(s))], 1, 1, s)
  BY <1>4, <1>6, <1>7, SMT
<1> QED BY <1>7, <1>8, SMT DEF Percentiles

(* The records in the ring have latencies.                                 *)
Timed(S) == \A x \in S : x.latency \in Nat

(* The ring holds nothing but records with a latency.                      *)
RingTimed ==
  /\ OfferedOK
  /\ \E S : Timed(S) /\ ring \in Seq(S)

(* Retaining a record that has a latency leaves such records.              *)
LEMMA RetainedTimed ==
  ASSUME NEW S, NEW s \in Seq(S), NEW x \in S
  PROVE  Retained(s, RingSize(RingCap), x) \in Seq(S)
<1>1. RingSize(RingCap) \in Nat \ {0}
  BY RingCapIsNat, SMT DEF RingSize
<1>2. Len(s) = RingSize(RingCap) => Tail(s) \in Seq(S)
  BY <1>1, SMT
<1> QED BY <1>2, SMT DEF Retained

(* emit retains the records of one step.                                   *)
LEMMA EmitTimed ==
  ASSUME RingTimed, NEW x, NEW y, x.latency \in Nat, y.latency \in Nat,
         Emit(<<x>>) \/ Emit(<<x, y>>), offered' = offered
  PROVE  RingTimed'
<1>1. PICK S0 : Timed(S0) /\ ring \in Seq(S0)
  BY DEF RingTimed
<1> DEFINE S == S0 \cup {x, y}
           cap == RingSize(RingCap)
<1>2. Timed(S) /\ ring \in Seq(S) /\ x \in S /\ y \in S
  BY <1>1, SMT DEF Timed
<1> HIDE DEF S
<1>3. Retained(ring, cap, x) \in Seq(S)
  BY <1>2, RetainedTimed
<1>4. Retained(Retained(ring, cap, x), cap, y) \in Seq(S)
  BY <1>2, <1>3, RetainedTimed
<1>5. \/ ring' = Retained(ring, cap, x)
      \/ ring' = Retained(Retained(ring, cap, x), cap, y)
  <2>1. Len(<<x>>) = 1 /\ Len(<<x, y>>) = 2 /\ <<x>>[1] = x /\ <<x, y>>[1] = x /\ <<x, y>>[2] = y
    OBVIOUS
  <2> QED BY <2>1 DEF Emit
<1> QED BY <1>2, <1>3, <1>4, <1>5 DEF RingTimed, OfferedOK

(* Every record of every operation has the latency of its call.            *)
LEMMA TimedStep == RingTimed /\ [DoorNext]_doorVars => RingTimed'
<1> SUFFICES ASSUME RingTimed, [DoorNext]_doorVars PROVE RingTimed'
  OBVIOUS
<1>0. \A l \in offered.latencies : l \in Nat
  BY CasesAreTyped DEF RingTimed, OfferedOK
<1>a. /\ \A op, k, r, o, l : OperationRecord(op, k, r, o, l).latency = l
      /\ \A call, r, o, l : RecordAt(call, r, o, l).latency = l
      /\ \A call, o, l : CallRecord(call, o, l).latency = l
  BY DEF OperationRecord, RecordAt, CallRecord
<1>1. CASE ring' = ring /\ offered' = offered
  BY <1>1 DEF RingTimed, OfferedOK
<1>2. ASSUME NEW x, x.latency \in offered.latencies, Emit(<<x>>), offered' = offered
      PROVE  RingTimed'
  BY <1>0, <1>2, EmitTimed
<1>3. ASSUME NEW x, NEW y, x.latency \in offered.latencies, y.latency \in offered.latencies,
             Emit(<<x, y>>), offered' = offered
      PROVE  RingTimed'
  BY <1>0, <1>3, EmitTimed
<1>b. ASSUME offered' = offered
      PROVE  \A l \in offered.latencies :
               /\ \A op, k, r, o : Emit(<<OperationRecord(op, k, r, o, l)>>) => RingTimed'
               /\ \A call, r, o : Emit(<<RecordAt(call, r, o, l)>>) => RingTimed'
               /\ \A call, o : Emit(<<CallRecord(call, o, l)>>) => RingTimed'
               /\ \A m \in offered.latencies : \A call, r, o, n :
                    Emit(<<CallRecord(call, o, l), RecordAt(call, r, n, m)>>) => RingTimed'
  <2> SUFFICES ASSUME NEW l \in offered.latencies
               PROVE  /\ \A op, k, r, o : Emit(<<OperationRecord(op, k, r, o, l)>>) => RingTimed'
                      /\ \A call, r, o : Emit(<<RecordAt(call, r, o, l)>>) => RingTimed'
                      /\ \A call, o : Emit(<<CallRecord(call, o, l)>>) => RingTimed'
                      /\ \A m \in offered.latencies : \A call, r, o, n :
                           Emit(<<CallRecord(call, o, l), RecordAt(call, r, n, m)>>) => RingTimed'
    OBVIOUS
  <2>1. ASSUME NEW op, NEW k, NEW r, NEW o, Emit(<<OperationRecord(op, k, r, o, l)>>)
        PROVE  RingTimed'
    <3>1. OperationRecord(op, k, r, o, l).latency \in offered.latencies
      BY <1>a, SMT
    <3> QED BY <1>b, <2>1, <3>1, <1>2
  <2>2. ASSUME NEW call, NEW r, NEW o, Emit(<<RecordAt(call, r, o, l)>>)
        PROVE  RingTimed'
    <3>1. RecordAt(call, r, o, l).latency \in offered.latencies
      BY <1>a, SMT
    <3> QED BY <1>b, <2>2, <3>1, <1>2
  <2>3. ASSUME NEW call, NEW o, Emit(<<CallRecord(call, o, l)>>)
        PROVE  RingTimed'
    <3>1. CallRecord(call, o, l).latency \in offered.latencies
      BY <1>a, SMT
    <3> QED BY <1>b, <2>3, <3>1, <1>2
  <2>4. ASSUME NEW m \in offered.latencies, NEW call, NEW r, NEW o, NEW n,
               Emit(<<CallRecord(call, o, l), RecordAt(call, r, n, m)>>)
        PROVE  RingTimed'
    <3>1. /\ CallRecord(call, o, l).latency \in offered.latencies
          /\ RecordAt(call, r, n, m).latency \in offered.latencies
      BY <1>a, SMT
    <3> QED BY <1>b, <2>4, <3>1, <1>3
  <2> QED BY <2>1, <2>2, <2>3, <2>4
<1>4. ASSUME NEW c \in Requesters, NEW q \in offered.requests, Arrive(c, q) PROVE RingTimed'
  <2>1. PICK d \in Resolved(q) :
          \/ Refuse(q, d) \/ Get(c, q, d) \/ Set(c, q, d) \/ GetOrFetch(c, q, d)
          \/ Refresh(c, q, d) \/ Move(c, q, d) \/ Drop(c, q, d)
    BY <1>4 DEF Arrive
  <2>2. offered' = offered
    BY <2>1 DEF Refuse, Get, Set, GetOrFetch, Refresh, Move, Drop, Admitted
  <2>3. CASE Refuse(q, d)
    BY <1>b, <2>2, <2>3 DEF Refuse
  <2>4. CASE Get(c, q, d)
    BY <1>b, <1>1, <2>2, <2>4 DEF Get, Silent
  <2> QED BY <1>1, <2>1, <2>2, <2>3, <2>4 DEF Set, GetOrFetch, Refresh, Move, Drop, Silent
<1>5. ASSUME NEW c \in Requesters, Proceeds(c) PROVE RingTimed'
  <2>1. CASE WaitEnds(c) \/ Revalidate(c) \/ SourceRead(c) \/ SourceCleared(c)
    BY <1>1, <2>1 DEF WaitEnds, Revalidate, SourceRead, SourceCleared
  <2>2. CASE Populate(c) \/ FallBack(c)
    BY <1>b, <1>1, <2>2 DEF Populate, FallBack, Silent
  <2>3. CASE ReadAnswered(c) \/ MoveAnswered(c)
    BY <1>b, <2>3 DEF ReadAnswered, MoveAnswered
  <2>4. CASE SetAccepted(c) \/ SetRejected(c)
    BY <1>b, <2>4 DEF SetAccepted, SetRejected
  <2>5. CASE PopulationAccepted(c) \/ PopulationRejected(c)
    BY <1>b, <2>5 DEF PopulationAccepted, PopulationRejected
  <2> QED BY <1>5, <2>1, <2>2, <2>3, <2>4, <2>5 DEF Proceeds
<1>6. ASSUME NEW f \in ready, Lapse(f) PROVE RingTimed'
  BY <1>1, <1>6 DEF Lapse
<1>7. CASE UNCHANGED doorVars
  BY <1>1, <1>7 DEF doorVars
<1> QED BY <1>4, <1>5, <1>6, <1>7 DEF DoorNext

(* The percentiles that are computed over the ring by sorting and ranking  *)
(* are quantiles of the latencies in it, whatever those are and however    *)
(* many the ring holds.                                                    *)
THEOREM PercentilesStayQuantiles == DoorSpec => []PercentilesAreQuantiles
<1>1. DoorInit => RingTimed
  <2> SUFFICES ASSUME DoorInit PROVE RingTimed
    OBVIOUS
  <2>1. Timed({}) /\ ring \in Seq({})
    BY SMT DEF DoorInit, Timed
  <2> QED BY <2>1 DEF DoorInit, RingTimed, OfferedOK
<1>2. RingTimed => PercentilesAreQuantiles
  <2> SUFFICES ASSUME RingTimed, ring # <<>>
               PROVE  LET samples == [i \in DOMAIN ring |-> ring[i].latency]
                          p == Percentiles(samples)
                      IN  /\ IsQuantile(p.p50, 50, 100, samples)
                          /\ IsQuantile(p.p95, 95, 100, samples)
                          /\ IsQuantile(p.p99, 99, 100, samples)
                          /\ IsQuantile(p.p999, 999, 1000, samples)
                          /\ IsQuantile(p.max, 1, 1, samples)
    BY DEF PercentilesAreQuantiles
  <2> DEFINE samples == [i \in DOMAIN ring |-> ring[i].latency]
  <2>1. PICK S : Timed(S) /\ ring \in Seq(S)
    BY DEF RingTimed
  <2>2. DOMAIN ring = 1..Len(ring) /\ Len(ring) \in Nat \ {0} /\ \A i \in DOMAIN ring : ring[i] \in S
    BY <2>1, SMT
  <2>3. samples \in [1..Len(ring) -> Nat]
    BY <2>1, <2>2 DEF Timed
  <2> HIDE DEF samples
  <2>4. samples \in Seq(Nat) /\ samples # <<>>
    BY <2>2, <2>3, SMT
  <2>5. LET p == Percentiles(samples)
        IN  /\ IsQuantile(p.p50, 50, 100, samples)
            /\ IsQuantile(p.p95, 95, 100, samples)
            /\ IsQuantile(p.p99, 99, 100, samples)
            /\ IsQuantile(p.p999, 999, 1000, samples)
            /\ IsQuantile(p.max, 1, 1, samples)
    BY <2>4, PercentilesAre, SMT
  <2> QED BY <2>5, Zenon DEF samples
<1> QED BY <1>1, <1>2, TimedStep, PTL DEF DoorSpec

=============================================================================
