----------------------------- MODULE Scheduler -----------------------------
(***************************************************************************)
(* WeightedHeterogeneousStrategy: the node the assign loop gives a task    *)
(* to.  The weights of the code times 51200, which makes all of them       *)
(* integers; rounding of doubles is left out.                              *)
(***************************************************************************)
EXTENDS Integers, Sequences

ScoreMutantLoadAttracts(m) ==
  76800 * m.cpuCores + 50 * m.ramMb + 92160 * m.performanceScore + 102400 * m.throughputHistory
    - 256000 * m.failureRate + 61440 * m.currentLoad - 512 * m.avgLatencyMs

(* calculateScore *)
Score(m) ==
  76800 * m.cpuCores + 50 * m.ramMb + 92160 * m.performanceScore + 102400 * m.throughputHistory
    - 256000 * m.failureRate - 61440 * m.currentLoad - 512 * m.avgLatencyMs

(* selectNode: the index of the first of the best rows; 0 if there is none.  *)
(* best[i] is what bestNode points to after i turns of the loop.             *)
SelectNode(rows) ==
  LET best[i \in 0 .. Len(rows)] ==
        IF i = 0 THEN 0
        ELSE IF best[i-1] = 0 \/ Score(rows[i]) > Score(rows[best[i-1]]) THEN i
        ELSE best[i-1]
  IN best[Len(rows)]
=============================================================================
