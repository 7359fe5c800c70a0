------------------------------- MODULE Telemetry -------------------------------
(***************************************************************************)
(* The ring of operation records and the latency percentiles computed over *)
(* it (src/src/telemetry.rs).  A record keeps what the properties tell     *)
(* apart: the operation, the key it is about, the rung, the outcome and    *)
(* the latency; the digest of a key identifies it.                         *)
(***************************************************************************)
EXTENDS Naturals, Sequences, FiniteSets, Functions

(* Outcome::from_error.                                                    *)
OutcomeOf(err) ==
  CASE err \in {"Unauthenticated", "Unauthorized", "PolicyDenied"} -> "Denied"
    [] err = "Cancelled" -> "Cancelled"
    [] err = "Miss"      -> "Miss"
    [] OTHER             -> "Failed"

OperationRecord(op, key, rung, outcome, latency) ==
  [op |-> op, key |-> key, rung |-> rung, outcome |-> outcome, latency |-> latency]

(* RingTelemetry::record: the oldest makes room.  A ring keeps at least 1. *)
Retained(ring, cap, record) ==
  Append(IF Len(ring) = cap THEN Tail(ring) ELSE ring, record)

RingSize(cap) == IF cap = 0 THEN 1 ELSE cap

-----------------------------------------------------------------------------
RankMutant(num, den, len) == IF (num * len) \div den < 1 THEN 1 ELSE (num * len) \div den

(* The rank of a quantile num/den among len samples: the ceiling of        *)
(* num * len / den, within 1..len.                                         *)
Rank(num, den, len) ==
  LET ceil == (num * len + den - 1) \div den
  IN  IF ceil < 1 THEN 1 ELSE IF ceil > len THEN len ELSE ceil

(* sort_unstable: the samples rearranged in ascending order.               *)
Sorted(samples) ==
  LET I   == DOMAIN samples
      arr == CHOOSE p \in Bijection(I, I) :
               \A i, j \in I : i < j => samples[p[i]] <= samples[p[j]]
  IN  [i \in I |-> samples[arr[i]]]

(* LatencyPercentiles::from_samples, for samples that are not empty.       *)
Percentiles(samples) ==
  LET sorted == Sorted(samples)
      At(num, den) == sorted[Rank(num, den, Len(sorted))]
  IN  [p50 |-> At(50, 100), p95 |-> At(95, 100), p99 |-> At(99, 100),
       p999 |-> At(999, 1000), max |-> sorted[Len(sorted)]]

(* What a quantile is, without sorting: the least sample v such that at    *)
(* least num/den of all samples are no greater.                            *)
IsQuantile(v, num, den, samples) ==
  LET I == DOMAIN samples
      UpTo(w) == Cardinality({i \in I : samples[i] <= w})
      Enough(w) == den * UpTo(w) >= num * Len(samples)
  IN  /\ \E i \in I : samples[i] = v
      /\ Enough(v)
      /\ \A i \in I : samples[i] < v => ~Enough(samples[i])

=============================================================================
