------------------------------- MODULE Latency -------------------------------
(* The percentiles of latency.py.  A percentile is given in hundredths of  *)
(* the unit of the samples, p in hundredths, so that interpolation between *)
(* two samples is exact; the 1000 and the rounding of the log are left out.*)
EXTENDS Integers, Filter

(* record: one more sample, the values being kept in order.                *)
Recorded(sorted, value) ==
  InsertAt(sorted, Len(Kept(sorted, 0..value)) + 1, value)

(* The upper neighbour is taken for the lower one.                         *)
PercentileFaulty(sorted, p) ==
  LET k  == (Len(sorted) - 1) * p
      lo == k \div 100
      hi == Min({lo + 1, Len(sorted) - 1})
  IN  100 * sorted[hi + 1] + (sorted[hi + 1] - sorted[lo + 1]) * (k % 100)

(* percentile: linear interpolation between the two nearest samples.       *)
Percentile(sorted, p) ==
  LET k  == (Len(sorted) - 1) * p
      lo == k \div 100
      hi == Min({lo + 1, Len(sorted) - 1})
  IN  100 * sorted[lo + 1] + (sorted[hi + 1] - sorted[lo + 1]) * (k % 100)

(* snapshot, of one hop                                                    *)
Summary(sorted) ==
  [count |-> Len(sorted), p50 |-> Percentile(sorted, 50),
   p95 |-> Percentile(sorted, 95), max |-> 100 * Last(sorted)]
=============================================================================
