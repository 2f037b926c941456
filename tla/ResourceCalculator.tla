------------------------- MODULE ResourceCalculator -------------------------
(***************************************************************************)
(* From the peak of a forecast to the number of pods an event needs: the    *)
(* second half of TrafficForecaster.predict and ResourceCalculator.         *)
(*                                                                         *)
(* Requests per second are whole numbers here; replicas are what the code   *)
(* computes: the factor 1.5 and the 250 RPS of a pod are 3 * u / 500.       *)
(***************************************************************************)
EXTENDS Naturals, Sequences, FiniteSetsExt

MinReplicas == 2
MaxReplicas == 50

Steps  == 24           \* 6 hours in steps of 15 minutes
Center == 13           \* the opening

\* exp(-0.5 * (d / 4)^2) in thousandths, for d steps from the opening
Gaussian == <<1000, 969, 882, 755, 607, 458, 325, 216, 135, 80, 44, 23, 11>>

\* upper_bound of every point of a forecast whose peak is u
Points(u) ==
  [i \in 1..Steps |->
     LET d == IF i < Center THEN Center - i ELSE i - Center
     IN  (u * Gaussian[d + 1]) \div 1000]

CeilDiv(a, b) == (a + b - 1) \div b

\* _rps_to_replicas(1.5 * u) at 250 RPS a pod
Replicas(u) == Max({MinReplicas, Min({MaxReplicas, CeilDiv(3 * u, 500)})})

\* a step keeps at least 80 %, rounded down, of the one before it
Smoothed(r) ==
  LET s[i \in 1..Len(r)] ==
        IF i = 1 THEN r[1] ELSE Max({r[i], 1, (4 * s[i - 1]) \div 5})
  IN  s

\* _merge_windows: a window begins where the number changes
Windows(r) ==
  LET s == Smoothed(r)
  IN  {[from |-> i, replicas |-> s[i]] : i \in {j \in 1..Len(r) : j = 1 \/ s[j] # s[j - 1]}}

\* mutant: the first window is taken for the peak
RecommendedFirst(u) ==
  (CHOOSE w \in Windows([i \in 1..Steps |-> Replicas(Points(u)[i])]) : w.from = 1).replicas

\* recommended_replicas of get_resource_plan: the peak window
Recommended(u) ==
  Max({w.replicas : w \in Windows([i \in 1..Steps |-> Replicas(Points(u)[i])])})

\* What the plan is for, defined without the pipeline: the fewest pods that carry
\* one and a half times the peak, within the limits.
Needed(u) ==
  Min({n \in MinReplicas..MaxReplicas : 500 * n >= 3 * u} \cup {MaxReplicas})
=============================================================================
