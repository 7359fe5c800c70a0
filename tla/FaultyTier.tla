------------------------------ MODULE FaultyTier ------------------------------
(***************************************************************************)
(* The rung that injects faults (FaultyTier of src/testkit/src/lib.rs over *)
(* the plans and the ledger of src/src/fault.rs), called by several tasks. *)
(* A plan is a queue of faults; a call takes the first one for its kind of *)
(* operation.  A fault that is to let n calls pass first is looked at in a *)
(* second critical section, and put back while its window is open: between *)
(* the two the plan is without it.                                         *)
(*                                                                         *)
(* The inner rung does not fail; what a call did to it is whether a set    *)
(* stored its value.  A fault's amount is the n above; that of a latency   *)
(* only delays.                                                            *)
(*                                                                         *)
(* The operators whose names end in Mutant are mutants of the one each     *)
(* precedes; nothing uses them.                                            *)
(***************************************************************************)
EXTENDS Naturals, Sequences, FiniteSets

CONSTANTS
  Tasks,
  Plans,          \* the plans that may be armed
  MaxCalls,       \* bound on the calls
  MaxArms         \* bound on the plans armed at runtime

OpKind == {"get", "set", "remove", "contains"}

FaultClass ==
  {"Latency", "Timeout", "Hang", "ReadFailure", "WriteFailure", "MetadataFailure", "Corruption",
   "Disconnect", "CapacityExhaustion", "FailureAfterN", "Cancellation", "PartialWrite"}

Fault == [op : OpKind, class : FaultClass, amount : Nat]

ASSUME PlansAreOfFaults == Plans \subseteq Seq(Fault)

ASSUME TasksAreFinite == IsFiniteSet(Tasks)

(* FaultClass::applies_to.                                                 *)
AppliesTo(class) ==
  CASE class \in {"Latency", "Hang", "Disconnect", "Cancellation", "FailureAfterN"} -> OpKind
    [] class \in {"Timeout", "ReadFailure", "Corruption"} -> {"get", "contains"}
    [] class \in {"WriteFailure", "CapacityExhaustion", "PartialWrite"} -> {"set", "remove"}
    [] class = "MetadataFailure" -> {"get", "set"}

IsScheduledFailure(class) ==
  class \in {"Timeout", "ReadFailure", "WriteFailure", "MetadataFailure", "Corruption",
             "Disconnect", "CapacityExhaustion", "Cancellation"}

(* error_for.                                                              *)
ErrorForMutant(class) == "TierUnavailable"

ErrorFor(class) ==
  CASE class \in {"Timeout", "Latency"} -> "Timeout"
    [] class = "CapacityExhaustion"     -> "CapacityExhausted"
    [] class = "Corruption"             -> "Corrupted"
    [] class = "Cancellation"           -> "Cancelled"
    [] class = "PartialWrite"           -> "WriteIndeterminate"
    [] OTHER                            -> "TierUnavailable"

(* What FaultPlan::push, push_after_n and from_seed arm.                   *)
Armed(op, class, amount) == [op |-> op, class |-> class, amount |-> amount]

WellFormed(plan) ==
  \A i \in DOMAIN plan : /\ plan[i].op \in AppliesTo(plan[i].class)
                         /\ plan[i].amount > 0 => \/ IsScheduledFailure(plan[i].class)
                                                  \/ plan[i].class \in {"Latency", "FailureAfterN"}

Windowed(fault) == fault.amount > 0 /\ IsScheduledFailure(fault.class)

VARIABLES
  plan,          \* the queue of armed faults
  remainingOk,   \* calls the open window still lets pass
  windowArmed,   \* whether a window was opened since the plan was armed
  corruptNext,   \* whether the next clean set is to be damaged
  corruptor,     \* whether a way to damage a value was supplied
  arming,        \* how far a plan being armed at runtime has got
  ledger,        \* the faults recorded as fired, in order
  observed,      \* calls observed
  task,          \* what each task is doing
  issued,        \* history: every fault ever armed
  discarded,     \* history: faults of plans that were replaced
  passed,        \* history: calls that each fault let pass
  arms           \* history: plans armed at runtime

faultVars == <<plan, remainingOk, windowArmed, corruptNext, corruptor, arming, ledger,
               observed, task, issued, discarded, passed, arms>>

Resting == [at |-> "rest", result |-> "ok", stored |-> FALSE]

Taking(op, fault) == [at |-> "took", op |-> op, fault |-> fault]

(* A call that knows its fault, or that there is none.                     *)
Calling(op, class) == [at |-> "calls", op |-> op, class |-> class]

FaultInit ==
  /\ plan \in Plans /\ WellFormed(plan)
  /\ remainingOk = 0 /\ windowArmed = FALSE
  /\ corruptNext = FALSE /\ corruptor \in BOOLEAN
  /\ arming = "done"
  /\ ledger = <<>> /\ observed = 0
  /\ task = [t \in Tasks |-> Resting]
  /\ issued = plan /\ discarded = <<>>
  /\ passed = 0 /\ arms = 0

Does(t, s) == task' = [task EXCEPT ![t] = s]

(* What only arming a plan changes.                                        *)
Kept == UNCHANGED <<corruptor, arming, issued, discarded, arms>>

(* What corrupt_next_write has the ledger record; no plan holds it.        *)
Damage == Armed("set", "Corruption", 0)

-----------------------------------------------------------------------------
(* The queue after its remove(i).                                          *)
Without(queue, i) == SubSeq(queue, 1, i - 1) \o SubSeq(queue, i + 1, Len(queue))

(* next_fault, first part: take_for.                                       *)
TakeFor(t, op) ==
  LET mine == {i \in DOMAIN plan : plan[i].op = op}
      i    == CHOOSE j \in mine : \A k \in mine : j <= k
  IN  /\ task[t].at = "rest" /\ observed < MaxCalls
      /\ observed' = observed + 1
      /\ IF mine = {} THEN Does(t, Calling(op, "none")) /\ UNCHANGED <<plan, ledger>>
         ELSE /\ plan' = Without(plan, i)
              /\ IF Windowed(plan[i]) THEN Does(t, Taking(op, plan[i])) /\ UNCHANGED ledger
                 ELSE Does(t, Calling(op, plan[i].class)) /\ ledger' = Append(ledger, plan[i])
      /\ UNCHANGED <<remainingOk, windowArmed, corruptNext>> /\ Kept /\ UNCHANGED passed

WindowNotOpenedMutant(t) ==
  LET fault == task[t].fault
  IN  /\ task[t].at = "took"
      /\ IF remainingOk > 0
         THEN /\ remainingOk' = remainingOk - 1
              /\ plan' = <<fault>> \o plan
              /\ passed' = passed + 1
              /\ Does(t, Calling(fault.op, "none")) /\ UNCHANGED ledger
         ELSE /\ ledger' = Append(ledger, fault)
              /\ Does(t, Calling(fault.op, fault.class)) /\ UNCHANGED <<plan, remainingOk, passed>>
      /\ UNCHANGED <<windowArmed, corruptNext, observed>> /\ Kept

NotPutBackMutant(t) ==
  LET fault == task[t].fault
  IN  /\ task[t].at = "took"
      /\ IF ~windowArmed \/ remainingOk > 0
         THEN /\ windowArmed' = TRUE
              /\ remainingOk' = IF windowArmed THEN remainingOk - 1 ELSE fault.amount - 1
              /\ passed' = passed + 1
              /\ Does(t, Calling(fault.op, "none")) /\ UNCHANGED <<plan, ledger>>
         ELSE /\ ledger' = Append(ledger, fault)
              /\ Does(t, Calling(fault.op, fault.class))
              /\ UNCHANGED <<plan, remainingOk, windowArmed, passed>>
      /\ UNCHANGED <<corruptNext, observed>> /\ Kept

(* next_fault, second part: the window.  The call that opens it is the     *)
(* first it lets pass.                                                     *)
Window(t) ==
  LET fault == task[t].fault
  IN  /\ task[t].at = "took"
      /\ IF ~windowArmed \/ remainingOk > 0
         THEN /\ windowArmed' = TRUE
              /\ remainingOk' = IF windowArmed THEN remainingOk - 1 ELSE fault.amount - 1
              /\ plan' = <<fault>> \o plan
              /\ passed' = passed + 1
              /\ Does(t, Calling(fault.op, "none")) /\ UNCHANGED ledger
         ELSE /\ ledger' = Append(ledger, fault)
              /\ Does(t, Calling(fault.op, fault.class))
              /\ UNCHANGED <<plan, remainingOk, windowArmed, passed>>
      /\ UNCHANGED <<corruptNext, observed>> /\ Kept

(* The call itself.  A hang never ends; a latency and a partial write call *)
(* the inner rung (a latency only of a get or a set), and the latter fails *)
(* all the same.                                                           *)
Reaches(op, class) ==
  \/ class = "none"
  \/ class = "Latency" /\ op \in {"get", "set"}
  \/ class = "PartialWrite" /\ op = "set"

Ends(t) ==
  LET op      == task[t].op
      class   == task[t].class
      reaches == Reaches(op, class)
      clean   == op = "set" /\ class = "none"
      damages == clean /\ corruptNext /\ corruptor
  IN  /\ task[t].at = "calls" /\ class # "Hang"
      /\ corruptNext' = (corruptNext /\ ~clean)
      /\ ledger' = IF damages THEN Append(ledger, Damage) ELSE ledger
      /\ Does(t, [at     |-> "rest",
                  result |-> IF reaches /\ class # "PartialWrite" THEN "ok" ELSE ErrorFor(class),
                  stored |-> reaches /\ op = "set"])
      /\ UNCHANGED <<plan, remainingOk, windowArmed, observed, passed>> /\ Kept

(* arm: the plan is replaced under its lock, the window is reset after it. *)
Arm(new) ==
  /\ arming = "done" /\ arms < MaxArms /\ WellFormed(new)
  /\ arming' = "remaining"
  /\ plan' = new
  /\ issued' = issued \o new /\ discarded' = discarded \o plan
  /\ arms' = arms + 1
  /\ UNCHANGED <<remainingOk, windowArmed, corruptNext, corruptor, ledger, observed, task, passed>>

ArmResets ==
  /\ arming # "done"
  /\ arming' = IF arming = "remaining" THEN "window" ELSE "done"
  /\ IF arming = "remaining" THEN remainingOk' = 0 /\ UNCHANGED windowArmed
     ELSE windowArmed' = FALSE /\ UNCHANGED remainingOk
  /\ UNCHANGED <<plan, corruptNext, corruptor, ledger, observed, task, issued, discarded, passed, arms>>

CorruptNextWrite ==
  /\ ~corruptNext
  /\ corruptNext' = TRUE
  /\ UNCHANGED <<plan, remainingOk, windowArmed, ledger, observed, task, passed>> /\ Kept

(* A task whose call hangs is cancelled by the time limit of its caller.   *)
CancelHung(t) ==
  /\ task[t].at = "calls" /\ task[t].class = "Hang"
  /\ Does(t, Resting)
  /\ UNCHANGED <<plan, remainingOk, windowArmed, corruptNext, ledger, observed, passed>> /\ Kept

FaultNext ==
  \/ \E t \in Tasks :
       \/ \E op \in OpKind : TakeFor(t, op)
       \/ Window(t) \/ Ends(t) \/ CancelHung(t)
  \/ \E new \in Plans : Arm(new)
  \/ ArmResets
  \/ CorruptNextWrite

FaultSpec == FaultInit /\ [][FaultNext]_faultVars

-----------------------------------------------------------------------------
Occurrences(f, s) == Cardinality({i \in DOMAIN s : s[i] = f})

(* Every fault that was armed is accounted for: it is in the plan, in the  *)
(* hands of one call, recorded as fired once, or was replaced with its     *)
(* plan.  No fault fires twice, and none is lost by being put back while   *)
(* another call takes the next one or a new plan is armed.                 *)
FaultsAreConserved ==
  LET all == issued \o plan \o ledger \o discarded
  IN  \A f \in {all[i] : i \in DOMAIN all} \ {Damage} :
        Occurrences(f, issued) =
          Occurrences(f, plan) + Occurrences(f, ledger) + Occurrences(f, discarded)
            + Cardinality({t \in Tasks : task[t].at = "took" /\ task[t].fault = f})

(* Succeed n times, then fail (FaultPlan::push_after_n): a fault with a    *)
(* window fires only after it let that many calls pass, however the calls  *)
(* of the tasks overlap.  For plans with one such fault, and not after a   *)
(* plan was replaced while calls were under way.                           *)
WindowsAreHonoured ==
  arms = 0 => \A i \in DOMAIN ledger : Windowed(ledger[i]) => passed >= ledger[i].amount

(* A set that ends in any error but WriteIndeterminate stored nothing: by  *)
(* this error alone the manager decides whether to clean up after a write. *)
CleanErrorsAreClean ==
  \A t \in Tasks : task[t].at = "rest" /\ task[t].stored =>
    task[t].result \in {"ok", "WriteIndeterminate"}

=============================================================================
