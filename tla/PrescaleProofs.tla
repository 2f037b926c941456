--------------------------- MODULE PrescaleProofs ---------------------------
(***************************************************************************)
(* Predictive scaling, for every number of processes and events, every     *)
(* forecast and every schedule: what the calculator recommends, what is    *)
(* cached, when an event is ready and when the minimum is given back.      *)
(***************************************************************************)
EXTENDS Prescale, FiniteSetTheorems, SequenceTheorems, TLAPS

(* The calculator.                                                         *)

LEMMA MaxIs ==
  ASSUME NEW S \in SUBSET Int, NEW m \in S, \A y \in S : m >= y
  PROVE  Max(S) = m
<1>1. Max(S) \in S /\ \A y \in S : Max(S) >= y
  BY DEF Max
<1>2. Max(S) \in Int /\ m \in Int /\ Max(S) >= m /\ m >= Max(S)
  BY <1>1
<1>3. QED
  BY <1>2

LEMMA MinIs ==
  ASSUME NEW S \in SUBSET Int, NEW m \in S, \A y \in S : m =< y
  PROVE  Min(S) = m
<1>1. Min(S) \in S /\ \A y \in S : Min(S) =< y
  BY DEF Min
<1>2. Min(S) \in Int /\ m \in Int /\ Min(S) =< m /\ m =< Min(S)
  BY <1>1
<1>3. QED
  BY <1>2

LEMMA MaxOfThree ==
  ASSUME NEW a \in Nat, NEW b \in Nat, NEW c \in Nat
  PROVE  /\ Max({a, b, c}) \in {a, b, c}
         /\ Max({a, b, c}) >= a /\ Max({a, b, c}) >= b /\ Max({a, b, c}) >= c
<1>1. \E m \in {a, b, c} : \A y \in {a, b, c} : m >= y
  <2>1. CASE a >= b /\ a >= c
    BY <2>1
  <2>2. CASE b >= a /\ b >= c
    BY <2>2
  <2>3. CASE c >= a /\ c >= b
    BY <2>3
  <2>4. QED
    BY <2>1, <2>2, <2>3
<1>2. PICK m \in {a, b, c} : \A y \in {a, b, c} : m >= y
  BY <1>1
<1>3. Max({a, b, c}) = m
  BY <1>2, MaxIs
<1>4. QED
  BY <1>2, <1>3

\* the code's cap and floor, and the rounding up between them
LEMMA ReplicasIs ==
  ASSUME NEW u \in Nat
  PROVE  Replicas(u) = LET c == (3 * u + 499) \div 500
                       IN  IF c < 2 THEN 2 ELSE IF c > 50 THEN 50 ELSE c
<1> DEFINE c == (3 * u + 499) \div 500
<1>1. c \in Nat /\ CeilDiv(3 * u, 500) = c
  BY DEF CeilDiv
<1> HIDE DEF c
<1>2. Min({50, c}) = IF c > 50 THEN 50 ELSE c
  <2>1. CASE c > 50
    BY <1>1, <2>1, MinIs
  <2>2. CASE c <= 50
    BY <1>1, <2>2, MinIs
  <2>3. QED
    BY <1>1, <2>1, <2>2
<1>3. ASSUME NEW d \in Nat PROVE Max({2, d}) = IF d < 2 THEN 2 ELSE d
  <2>1. CASE d < 2
    BY <2>1, MaxIs
  <2>2. CASE d >= 2
    BY <2>2, MaxIs
  <2>3. QED
    BY <2>1, <2>2
<1>4. Replicas(u) = Max({2, Min({50, c})})
  BY <1>1 DEF Replicas, MinReplicas, MaxReplicas
<1>5. QED
  BY <1>1, <1>2, <1>3, <1>4 DEF c

\* more traffic never needs fewer pods
LEMMA ReplicasMonotone ==
  ASSUME NEW u \in Nat, NEW v \in Nat, u <= v
  PROVE  Replicas(u) \in 2..50 /\ Replicas(v) \in 2..50 /\ Replicas(u) <= Replicas(v)
BY ReplicasIs

\* the pipeline without its windows and its smoothing
LEMMA NeededIsReplicas ==
  ASSUME NEW u \in Nat
  PROVE  Needed(u) = Replicas(u)
<1> DEFINE S == {n \in 2..50 : 500 * n >= 3 * u} \cup {50}
           r == Replicas(u)
<1>1. r \in S
  BY ReplicasIs
<1>2. \A n \in S : r <= n
  BY ReplicasIs
<1>3. S \in SUBSET Int
  OBVIOUS
<1> HIDE DEF S, r
<1>4. Min(S) = r
  BY <1>1, <1>2, <1>3, MinIs
<1>5. QED
  BY <1>4 DEF Needed, MinReplicas, MaxReplicas, S, r

\* a set that holds the first step of a forecast and with each step the next holds all
LEMMA StepByStep ==
  ASSUME NEW G, 1 \in G, \A n \in 1..23 : n \in G => n + 1 \in G
  PROVE  \A n \in 1..Steps : n \in G
<1>1. 2 \in G /\ 3 \in G /\ 4 \in G /\ 5 \in G /\ 6 \in G /\ 7 \in G /\ 8 \in G /\ 9 \in G
  OBVIOUS
<1>2. 10 \in G /\ 11 \in G /\ 12 \in G /\ 13 \in G /\ 14 \in G /\ 15 \in G /\ 16 \in G
  BY <1>1
<1>3. 17 \in G /\ 18 \in G /\ 19 \in G /\ 20 \in G /\ 21 \in G /\ 22 \in G /\ 23 \in G
  BY <1>2
<1>4. 24 \in G
  BY <1>3
<1>5. QED
  BY <1>1, <1>2, <1>3, <1>4 DEF Steps

\* no point of a forecast is above its peak, and the middle of it is the peak
LEMMA PointsBelowPeak ==
  ASSUME NEW u \in Nat
  PROVE  /\ \A i \in 1..Steps : Points(u)[i] \in Nat /\ Points(u)[i] <= u
         /\ Points(u)[Center] = u
<1>1. ASSUME NEW k \in 1..13 PROVE Gaussian[k] \in 0..1000
  BY DEF Gaussian
<1>2. Gaussian[1] = 1000
  BY DEF Gaussian
<1>3. ASSUME NEW g \in 0..1000
      PROVE  (u * g) \div 1000 \in Nat /\ (u * g) \div 1000 <= u
  <2>1. u * g \in Nat /\ u * g <= u * 1000
    OBVIOUS
  <2>2. QED
    BY <2>1
<1>4. ASSUME NEW i \in 1..Steps
      PROVE  Points(u)[i] \in Nat /\ Points(u)[i] <= u
  <2> DEFINE d == IF i < Center THEN Center - i ELSE i - Center
  <2>1. d + 1 \in 1..13
    BY DEF Steps, Center
  <2>2. Points(u)[i] = (u * Gaussian[d + 1]) \div 1000
    BY DEF Points
  <2> HIDE DEF d
  <2>3. PICK g \in 0..1000 : g = Gaussian[d + 1]
    BY <1>1, <2>1
  <2>4. Points(u)[i] = (u * g) \div 1000
    BY <2>2, <2>3
  <2>5. (u * g) \div 1000 \in Nat /\ (u * g) \div 1000 <= u
    BY <1>3
  <2>6. QED
    BY <2>4, <2>5, Zenon
<1>5. Points(u)[Center] = (u * 1000) \div 1000
  BY <1>2 DEF Points, Center, Steps
<1>6. QED
  BY <1>4, <1>5

(* The smoothing is defined by recursion over the 24 steps of a forecast;  *)
(* such a function exists because each step extends it by one.             *)

\* s smooths the first n steps of r
Smooths(r, n, s) ==
  s = [i \in 1..n |-> IF i = 1 THEN r[1] ELSE Max({r[i], 1, (4 * s[i - 1]) \div 5})]

LEMMA SmoothingExists ==
  ASSUME NEW r
  PROVE  \E s : Smooths(r, Steps, s)
<1> DEFINE G == {n \in 1..Steps : \E s : Smooths(r, n, s)}
<1>1. 1 \in G
  <2>1. [i \in 1..1 |-> r[1]] = [i \in 1..1 |-> IF i = 1 THEN r[1]
          ELSE Max({r[i], 1, (4 * [j \in 1..1 |-> r[1]][i - 1]) \div 5})]
    OBVIOUS
  <2>2. Smooths(r, 1, [i \in 1..1 |-> r[1]])
    BY <2>1 DEF Smooths
  <2>3. QED
    BY <2>2 DEF Steps
<1>2. ASSUME NEW n \in 1..23, n \in G PROVE n + 1 \in G
  <2>1. PICK s : Smooths(r, n, s)
    BY <1>2
  <2> DEFINE last == Max({r[n + 1], 1, (4 * s[n]) \div 5})
             t == [i \in 1..n + 1 |-> IF i = n + 1 THEN last ELSE s[i]]
             u == [i \in 1..n + 1 |-> IF i = 1 THEN r[1]
                                     ELSE Max({r[i], 1, (4 * t[i - 1]) \div 5})]
  <2>2. ASSUME NEW i \in 1..n PROVE t[i] = u[i]
    <3>1. t[i] = s[i]
      OBVIOUS
    <3>2. s[i] = IF i = 1 THEN r[1] ELSE Max({r[i], 1, (4 * s[i - 1]) \div 5})
      BY <2>1 DEF Smooths
    <3>3. i # 1 => t[i - 1] = s[i - 1]
      OBVIOUS
    <3>4. u[i] = IF i = 1 THEN r[1] ELSE Max({r[i], 1, (4 * t[i - 1]) \div 5})
      OBVIOUS
    <3> HIDE DEF t, u
    <3>5. QED
      BY <3>1, <3>2, <3>3, <3>4
  <2>3. t[n + 1] = u[n + 1]
    <3>1. t[n + 1] = last /\ t[n] = s[n] /\ n + 1 # 1
      OBVIOUS
    <3>2. \A k \in 2..n + 1 : u[k] = Max({r[k], 1, (4 * t[k - 1]) \div 5})
      OBVIOUS
    <3> HIDE DEF t, u
    <3>3. PICK k \in 2..n + 1 : k = n + 1 /\ k - 1 = n
      OBVIOUS
    <3>4. u[k] = Max({r[k], 1, (4 * t[k - 1]) \div 5})
      BY <3>2
    <3>5. u[n + 1] = Max({r[n + 1], 1, (4 * t[n]) \div 5})
      BY <3>3, <3>4, Zenon
    <3>6. QED
      BY <3>1, <3>5
  <2>4. t = u
    <3>1. DOMAIN t = 1..n + 1 /\ DOMAIN u = 1..n + 1
      OBVIOUS
    <3>2. \A i \in 1..n + 1 : t[i] = u[i]
      <4>1. \A i \in 1..n + 1 : i \in 1..n \/ i = n + 1
        OBVIOUS
      <4> HIDE DEF t, u
      <4>2. QED
        BY <2>2, <2>3, <4>1
    <3>3. t = [i \in 1..n + 1 |-> t[i]] /\ u = [i \in 1..n + 1 |-> u[i]]
      OBVIOUS
    <3> HIDE DEF t, u
    <3>4. QED
      BY <3>2, <3>3
  <2>5. Smooths(r, n + 1, t)
    BY <2>4 DEF Smooths
  <2>6. QED
    BY <2>5 DEF Steps
<1> HIDE DEF G
<1>3. Steps \in G
  BY <1>1, <1>2, StepByStep DEF Steps
<1>4. QED
  BY <1>3 DEF G

LEMMA SmoothedSmooths ==
  ASSUME NEW r, Len(r) = Steps
  PROVE  Smooths(r, Steps, Smoothed(r))
<1>1. Smoothed(r) = CHOOSE s : Smooths(r, Steps, s)
  BY DEF Smoothed, Smooths
<1>2. QED
  BY <1>1, SmoothingExists

\* A number of pods between 2 and a limit stays between them when it is smoothed, and is
\* never lowered.
LEMMA SmoothedWithin ==
  ASSUME NEW m \in Nat, NEW r, Len(r) = Steps, \A i \in 1..Steps : r[i] \in 2..m
  PROVE  \A i \in 1..Steps : Smoothed(r)[i] \in 2..m /\ Smoothed(r)[i] >= r[i]
<1> DEFINE s == Smoothed(r)
           G == {i \in 1..Steps : s[i] \in 2..m /\ s[i] >= r[i]}
<1> HIDE DEF s
<1>1. \A k \in 1..Steps :
        s[k] = IF k = 1 THEN r[1] ELSE Max({r[k], 1, (4 * s[k - 1]) \div 5})
  <2> DEFINE t == [i \in 1..Steps |->
                     IF i = 1 THEN r[1] ELSE Max({r[i], 1, (4 * s[i - 1]) \div 5})]
  <2>1. s = t
    BY SmoothedSmooths DEF Smooths, s
  <2>2. \A k \in 1..Steps : t[k] = IF k = 1 THEN r[1] ELSE Max({r[k], 1, (4 * s[k - 1]) \div 5})
    OBVIOUS
  <2> HIDE DEF t
  <2>3. QED
    BY <2>1, <2>2, Zenon
<1>2. 1 \in G
  BY <1>1 DEF Steps
<1>3. ASSUME NEW n \in 1..23, n \in G PROVE n + 1 \in G
  <2>1. n + 1 \in 1..Steps /\ s[n] \in 2..m /\ r[n + 1] \in 2..m
    BY <1>3 DEF Steps
  <2>2. s[n + 1] = Max({r[n + 1], 1, (4 * s[n]) \div 5})
    <3>1. PICK k \in 2..Steps : k = n + 1 /\ k - 1 = n
      BY DEF Steps
    <3>2. k \in 1..Steps /\ k # 1
      BY DEF Steps
    <3>3. s[k] = Max({r[k], 1, (4 * s[k - 1]) \div 5})
      BY <1>1, <3>2, Zenon
    <3>4. QED
      BY <3>1, <3>3, Zenon
  <2>3. (4 * s[n]) \div 5 \in Nat /\ (4 * s[n]) \div 5 <= s[n]
    BY <2>1
  <2>4. /\ s[n + 1] \in {r[n + 1], 1, (4 * s[n]) \div 5}
        /\ s[n + 1] >= r[n + 1]
    <3>1. r[n + 1] \in Nat /\ 1 \in Nat /\ (4 * s[n]) \div 5 \in Nat
      BY <2>1, <2>3
    <3>2. \A a \in Nat, b \in Nat, c \in Nat :
            Max({a, b, c}) \in {a, b, c} /\ Max({a, b, c}) >= a
      BY MaxOfThree
    <3>3. PICK x \in Nat : x = (4 * s[n]) \div 5
      BY <3>1, Zenon
    <3>4. PICK y \in Nat : y = r[n + 1]
      BY <3>1, Zenon
    <3>5. Max({y, 1, x}) \in {y, 1, x} /\ Max({y, 1, x}) >= y
      BY <3>2
    <3>6. s[n + 1] = Max({y, 1, x})
      BY <2>2, <3>3, <3>4, Zenon
    <3>7. s[n + 1] \in {y, 1, x} /\ s[n + 1] >= y
      BY <3>5, <3>6, Zenon
    <3>8. QED
      BY <3>3, <3>4, <3>7, Zenon
  <2>5. s[n + 1] \in 2..m
    BY <2>1, <2>3, <2>4
  <2>6. QED
    BY <2>1, <2>4, <2>5
<1> HIDE DEF G
<1>4. \A i \in 1..Steps : i \in G
  BY <1>2, <1>3, StepByStep
<1>5. QED
  BY <1>4 DEF G, s

\* every smoothed number is the number of the window it lies in
LEMMA WindowOfStep ==
  ASSUME NEW r, Len(r) = Steps, NEW i \in 1..Steps
  PROVE  \E w \in Windows(r) : w.replicas = Smoothed(r)[i]
<1> DEFINE s == Smoothed(r)
           W == {[from |-> k, replicas |-> s[k]] : k \in {j \in 1..Steps : j = 1 \/ s[j] # s[j - 1]}}
           G == {k \in 1..Steps : \E w \in W : w.replicas = s[k]}
<1>1. Windows(r) = W
  BY DEF Windows
<1> HIDE DEF s
<1>2. ASSUME NEW k \in 1..Steps, k = 1 \/ s[k] # s[k - 1] PROVE k \in G
  <2>1. [from |-> k, replicas |-> s[k]] \in W
    BY <1>2
  <2>2. [from |-> k, replicas |-> s[k]].replicas = s[k]
    OBVIOUS
  <2> HIDE DEF W
  <2>3. QED
    BY <2>1, <2>2
<1>3. 1 \in G
  <2>1. 1 \in 1..Steps
    BY DEF Steps
  <2> HIDE DEF G
  <2>2. QED
    BY <1>2, <2>1
<1>4. ASSUME NEW n \in 1..23, n \in G PROVE n + 1 \in G
  <2>1. n + 1 \in 1..Steps /\ (n + 1) - 1 = n
    BY DEF Steps
  <2>2. CASE s[n + 1] = s[n]
    <3> HIDE DEF W
    <3>1. QED
      BY <1>4, <2>1, <2>2
  <2>3. CASE s[n + 1] # s[n]
    <3> HIDE DEF G
    <3>1. QED
      BY <1>2, <2>1, <2>3
  <2>4. QED
    BY <2>2, <2>3
<1> HIDE DEF G
<1>5. i \in G
  BY <1>3, <1>4, StepByStep
<1>6. QED
  BY <1>1, <1>5 DEF G, s

(* What get_resource_plan recommends, through 24 points, rounding,         *)
(* smoothing and windows, is for every forecast exactly the fewest pods    *)
(* that carry one and a half times its peak, within the limits of          *)
(* ResourceCalculator: no step of the pipeline loses the peak or adds to   *)
(* it.                                                                     *)
THEOREM RecommendedIsNeeded == \A u \in Nat : Recommended(u) = Needed(u)
<1> SUFFICES ASSUME NEW u \in Nat PROVE Recommended(u) = Needed(u)
  OBVIOUS
<1> DEFINE r == [i \in 1..Steps |-> Replicas(Points(u)[i])]
           m == Replicas(u)
           V == {w.replicas : w \in Windows(r)}
<1>1. Len(r) = Steps
  BY DEF Steps
<1>2. m \in 2..50 /\ m \in Nat
  BY ReplicasMonotone
<1>3. ASSUME NEW i \in 1..Steps PROVE r[i] \in 2..m
  <2>1. PICK p \in Nat : p = Points(u)[i] /\ p <= u
    BY PointsBelowPeak
  <2>2. Replicas(p) \in 2..50 /\ Replicas(p) <= m
    BY <2>1, ReplicasMonotone
  <2>3. r[i] = Replicas(p)
    BY <2>1
  <2> HIDE DEF r, m
  <2>4. QED
    BY <1>2, <2>2, <2>3
<1>4. Center \in 1..Steps /\ r[Center] = m
  BY PointsBelowPeak DEF Center, Steps
<1> HIDE DEF r, m
<1>5. \A i \in 1..Steps : Smoothed(r)[i] \in 2..m /\ Smoothed(r)[i] >= r[i]
  BY <1>1, <1>2, <1>3, SmoothedWithin
<1>6. Smoothed(r)[Center] = m
  BY <1>2, <1>4, <1>5
<1>7. m \in V
  BY <1>1, <1>4, <1>6, WindowOfStep
<1>8. \A v \in V : v \in 2..m
  BY <1>1, <1>5 DEF Windows
<1>9. Max(V) = m
  <2> HIDE DEF V
  <2>1. V \in SUBSET Int /\ \A v \in V : m >= v
    BY <1>2, <1>8
  <2>2. QED
    BY <1>7, <2>1, MaxIs
<1>10. QED
  BY <1>9, NeededIsReplicas DEF Recommended, r, m

LEMMA NeededRange ==
  ASSUME NEW u \in Nat, NEW v \in Nat, u <= v
  PROVE  Needed(u) \in 2..50 /\ Needed(v) \in 2..50 /\ Needed(u) <= Needed(v)
BY ReplicasMonotone, NeededIsReplicas

-----------------------------------------------------------------------------
(* Predictions.                                                            *)

\* what a plan for e may say
Fits(n, e) == n \in Needed(Peak[e])..Needed(Peak[e] + Spread[e])

\* A prediction under way is for an event of the database and its network is there; a
\* plan that has been computed fits, and an answer is such a plan or the mock.
CallOK(t) ==
  LET c == call[t] IN
  /\ c.at \in {"forecaster", "build", "sample", "end", "store"} => c.event \in Events
  /\ c.at \in {"sample", "end"} => c.net \in Threads
  /\ c.at = "store" /\ c.kind = "plan" => Fits(c.result, c.event)
  /\ c.at = "answered" /\ c.kind = "plan" =>
       \/ c.result = Mock("plan") /\ (c.event \in Unknown \/ "redis" \in Faults)
       \/ c.event \in Events /\ Fits(c.result, c.event)

CallsOK == \A t \in Threads : CallOK(t)

LEMMA FitsRange ==
  ASSUME NEW e \in Events
  PROVE  /\ Peak[e] \in Nat /\ Spread[e] \in Nat
         /\ Needed(Peak[e]) \in 2..50 /\ Needed(Peak[e] + Spread[e]) \in 2..50
         /\ Needed(Peak[e]) <= Needed(Peak[e] + Spread[e])
         /\ \A n : Fits(n, e) => n \in 2..50 /\ n >= Needed(Peak[e])
<1>1. Peak[e] \in Nat /\ Spread[e] \in Nat
  BY ForecastAssumption
<1>2. /\ Needed(Peak[e]) \in 2..50 /\ Needed(Peak[e] + Spread[e]) \in 2..50
      /\ Needed(Peak[e]) <= Needed(Peak[e] + Spread[e])
  BY <1>1, NeededRange
<1>3. QED
  BY <1>1, <1>2 DEF Fits

\* whatever part of the spread is lost, the plan fits
LEMMA EndFits ==
  ASSUME NEW e \in Events, NEW lost \in {0, Spread[e]}
  PROVE  /\ Recommended(Peak[e] + Spread[e] - lost) \in Nat
         /\ Fits(Recommended(Peak[e] + Spread[e] - lost), e)
<1> DEFINE u == Peak[e] + Spread[e] - lost
<1>1. u \in Nat /\ Peak[e] <= u /\ u <= Peak[e] + Spread[e]
  BY FitsRange
<1> HIDE DEF u
<1>2. Recommended(u) = Needed(u)
  BY <1>1, RecommendedIsNeeded
<1>3. Needed(u) \in 2..50 /\ Needed(Peak[e]) <= Needed(u)
  BY <1>1, FitsRange, NeededRange
<1>4. Needed(u) <= Needed(Peak[e] + Spread[e])
  BY <1>1, FitsRange, NeededRange
<1>5. Fits(Needed(u), e)
  BY <1>3, <1>4, FitsRange DEF Fits
<1>6. QED
  BY <1>2, <1>3, <1>5 DEF u

LEMMA IdleIsCall == Idle \in Calls /\ Idle.at = "idle"
BY DEF Idle, Calls, Kinds

LEMMA ThreadsOf ==
  /\ \A p \in Processes : Looks(p) \in Threads /\ <<p, "request">> \in Threads
                            /\ Looks(p) # <<p, "request">> /\ ProcessOf(Looks(p)) = p
                            /\ ProcessOf(<<p, "request">>) = p
  /\ \A t \in Threads : ProcessOf(t) \in Processes
  /\ \A p, q \in Processes : Looks(p) = Looks(q) => p = q
  /\ \A p, q \in Processes : Looks(p) # <<q, "request">>
BY DEF Threads, Looks, ProcessOf

(* Passes.                                                                 *)

\* the events a pass scales for: start_at between LEAD and WINDOW minutes away
Near(e) == start[e] >= now + Lead /\ start[e] <= now + Window

\* What a pass has still to do, and that it plans one near event at a time.
PassOK(p) ==
  /\ pass[p].at \in {"due", "done"} => pass[p].todo = {}
  /\ pass[p].at = "scale" => \A e \in pass[p].todo : Near(e)
  /\ pass[p].at = "restore" => pass[p].todo = Opened(p)
  /\ call[Looks(p)].at # "idle" =>
       /\ pass[p].at = "scale" /\ call[Looks(p)].kind = "plan"
       /\ call[Looks(p)].event \in Events /\ Near(call[Looks(p)].event)

PassesOK == \A p \in Processes : PassOK(p)

\* a step of a prediction or of a request: it changes nothing a pass has decided, and no
\* pass's prediction begins, ends or changes its event
Aside ==
  /\ UNCHANGED scaling
  /\ faults' \in Nat /\ faults <= faults'
  /\ \A p \in Processes : /\ call'[Looks(p)].at = "idle" <=> call[Looks(p)].at = "idle"
                          /\ call'[Looks(p)].kind = call[Looks(p)].kind
                          /\ call'[Looks(p)].event = call[Looks(p)].event

\* the thread of a prediction, and what its call becomes
LEMMA CallBecomes ==
  ASSUME TypeOK, NEW t \in Threads, NEW c, Becomes(t, c)
  PROVE  /\ call'[t] = c
         /\ \A s \in Threads \ {t} : call'[s] = call[s]
         /\ c \in Calls => call' \in [Threads -> Calls]
BY DEF Becomes, TypeOK

LEMMA AnswerIs ==
  ASSUME TypeOK, NEW t \in Threads, NEW n \in Nat, Answer(t, n)
  PROVE  /\ call' \in [Threads -> Calls]
         /\ call'[t].at = "answered" /\ call'[t].kind = call[t].kind
         /\ call'[t].event = call[t].event /\ call'[t].result = n
         /\ \A s \in Threads \ {t} : call'[s] = call[s]
<1> DEFINE c == [Idle EXCEPT !.at = "answered", !.kind = call[t].kind,
                             !.event = call[t].event, !.result = n]
<1>1. /\ c.at = "answered" /\ c.kind = call[t].kind /\ c.event = call[t].event
      /\ c.result = n /\ c \in Calls
  <2>1. call[t] \in Calls
    BY DEF TypeOK
  <2>2. /\ c.at = "answered" /\ c.kind = call[t].kind /\ c.event = call[t].event
        /\ c.result = n
    BY DEF Idle
  <2>3. c \in Calls
    BY <2>1 DEF Idle, Calls
  <2>4. QED
    BY <2>2, <2>3
<1>2. Becomes(t, c)
  BY DEF Answer
<1> HIDE DEF c
<1>3. QED
  BY <1>1, <1>2, CallBecomes

LEMMA MoveIs ==
  ASSUME TypeOK, NEW t \in Threads,
         NEW p \in {"idle", "forecaster", "build", "sample", "end", "store", "answered"},
         MoveTo(t, p)
  PROVE  /\ call' \in [Threads -> Calls]
         /\ call'[t].at = p /\ call'[t].kind = call[t].kind
         /\ call'[t].event = call[t].event /\ call'[t].net = call[t].net
         /\ call'[t].result = call[t].result
         /\ \A s \in Threads \ {t} : call'[s] = call[s]
<1> DEFINE c == [call[t] EXCEPT !.at = p]
<1>1. /\ c.at = p /\ c.kind = call[t].kind /\ c.event = call[t].event /\ c.net = call[t].net
      /\ c.result = call[t].result /\ c \in Calls
  <2>1. call[t] \in Calls
    BY DEF TypeOK
  <2>2. QED
    BY <2>1 DEF Calls
<1>2. Becomes(t, c)
  BY DEF MoveTo
<1> HIDE DEF c
<1>3. QED
  BY <1>1, <1>2, CallBecomes

\* a question is answered from the cache or with the mock, or waits for the forecaster
LEMMA AskIs ==
  ASSUME TypeOK, PlanCovers, NEW t \in Threads, NEW k \in Kinds, NEW e \in Events \cup Unknown,
         Ask(t, k, e)
  PROVE  /\ call' \in [Threads -> Calls]
         /\ call[t].at = "idle" /\ call'[t].at \in {"answered", "forecaster"}
         /\ call'[t].kind = k /\ call'[t].event = e
         /\ CallOK(t)'
         /\ \A s \in Threads \ {t} : call'[s] = call[s]
         /\ UNCHANGED <<model, cache>>
<1> DEFINE asked == [Idle EXCEPT !.kind = k, !.event = e]
           said(n) == [asked EXCEPT !.at = "answered", !.result = n]
           sent == [asked EXCEPT !.at = "forecaster"]
<1>1. /\ asked.kind = k /\ asked.event = e /\ asked \in Calls
  BY DEF Idle, Calls, Kinds
<1> HIDE DEF asked
<1>2. /\ sent.at = "forecaster" /\ sent.kind = k /\ sent.event = e /\ sent \in Calls
  BY <1>1 DEF Calls
<1>3. ASSUME NEW n \in Nat
      PROVE  /\ said(n).at = "answered" /\ said(n).kind = k /\ said(n).event = e
             /\ said(n).result = n /\ said(n) \in Calls
  BY <1>1 DEF Calls
<1>4. /\ call[t].at = "idle" /\ UNCHANGED <<model, cache>>
      /\ Becomes(t, IF e \in Unknown THEN said(Mock(k))
                    ELSE IF cache[k][e] # None THEN said(cache[k][e]) ELSE sent)
  BY DEF Ask, asked
<1>5. ASSUME NEW n \in Nat, Becomes(t, said(n)),
             k = "plan" => \/ n = Mock("plan") /\ (e \in Unknown \/ "redis" \in Faults)
                           \/ e \in Events /\ Fits(n, e)
      PROVE  /\ call' \in [Threads -> Calls] /\ call'[t].at = "answered"
             /\ call'[t].kind = k /\ call'[t].event = e /\ CallOK(t)'
             /\ \A s \in Threads \ {t} : call'[s] = call[s]
  <2>1. /\ call'[t] = said(n) /\ call' \in [Threads -> Calls]
        /\ \A s \in Threads \ {t} : call'[s] = call[s]
    BY <1>3, <1>5, CallBecomes
  <2>2. /\ call'[t].at = "answered" /\ call'[t].kind = k /\ call'[t].event = e
        /\ call'[t].result = n
    BY <1>3, <2>1
  <2>3. CallOK(t)'
    BY <1>5, <2>2 DEF CallOK, Fits
  <2>4. QED
    BY <2>1, <2>2, <2>3
<1>6. CASE e \in Unknown
  <2>1. Mock(k) \in Nat
    BY DEF Mock
  <2>2. QED
    BY <1>4, <1>5, <1>6, <2>1
<1>7. CASE e \notin Unknown /\ cache[k][e] # None
  <2>1. cache[k][e] \in Nat
    BY <1>7 DEF TypeOK
  <2>2. k = "plan" => Fits(cache[k][e], e)
    BY <1>7 DEF PlanCovers, Fits
  <2>3. QED
    BY <1>4, <1>5, <1>7, <2>1, <2>2
<1>8. CASE e \notin Unknown /\ cache[k][e] = None
  <2>1. /\ call'[t] = sent /\ call' \in [Threads -> Calls]
        /\ \A s \in Threads \ {t} : call'[s] = call[s]
    BY <1>2, <1>4, <1>8, CallBecomes
  <2>2. call'[t].at = "forecaster" /\ call'[t].kind = k /\ call'[t].event = e
    BY <1>2, <2>1
  <2>3. CallOK(t)'
    BY <1>8, <2>2 DEF CallOK
  <2>4. QED
    BY <1>4, <2>1, <2>2, <2>3
<1>9. QED
  BY <1>4, <1>6, <1>7, <1>8

LEMMA FaultIs ==
  ASSUME TypeOK, NEW f, Fault(f)
  PROVE  faults \in Nat /\ faults' = faults + 1 /\ faults' \in 0..MaxFaults /\ f \in Faults
BY ProcessesAssumption DEF Fault, TypeOK

\* A prediction goes its way to an answer, and what it leaves in the cache fits.
LEMMA PredictIs ==
  ASSUME TypeOK, CallsOK, PlanCovers, NEW t \in Threads, Predict(t)
  PROVE  /\ TypeOK' /\ CallOK(t)' /\ PlanCovers'
         /\ UNCHANGED scaling /\ faults' \in Nat /\ faults <= faults'
         /\ call[t].at # "idle" /\ call'[t].at # "idle"
         /\ call'[t].kind = call[t].kind /\ call'[t].event = call[t].event
         /\ \A s \in Threads \ {t} : call'[s] = call[s]
<1> USE DEF TypeOK, scaling
<1>0. /\ call[t] \in Calls /\ CallOK(t) /\ ProcessOf(t) \in Processes
      /\ faults \in Nat /\ faults \in 0..MaxFaults
  BY ThreadsOf, ProcessesAssumption DEF CallsOK
<1>1. CASE StartBuild(t)
  <2>1. MoveTo(t, "build")
    BY <1>1 DEF StartBuild
  <2>2. CallOK(t)'
    BY <1>0, <1>1, <2>1, MoveIs DEF StartBuild, CallOK
  <2>3. QED
    BY <1>0, <1>1, <2>1, <2>2, MoveIs DEF StartBuild, PlanCovers, model
<1>2. CASE Built(t)
  <2>1. MoveTo(t, "forecaster")
    BY <1>2 DEF Built
  <2>2. CallOK(t)'
    BY <1>0, <1>2, <2>1, MoveIs DEF Built, CallOK
  <2>3. /\ instance' \in [Processes -> Threads \cup {None}]
        /\ training' \in [Threads -> BOOLEAN]
    BY <1>0, <1>2 DEF Built
  <2>4. QED
    BY <1>0, <1>2, <2>1, <2>2, <2>3, MoveIs DEF Built, PlanCovers
<1>3. CASE Begin(t)
  <2> DEFINE net == instance[ProcessOf(t)]
             c == [call[t] EXCEPT !.at = "sample", !.net = net]
  <2>1. net \in Threads
    BY <1>0, <1>3 DEF Begin
  <2>2. Becomes(t, c) /\ training' = [training EXCEPT ![net] = TRUE]
    BY <1>3 DEF Begin
  <2> HIDE DEF net
  <2>3. /\ c \in Calls /\ c.at = "sample" /\ c.kind = call[t].kind /\ c.net = net
        /\ c.event = call[t].event
    BY <1>0, <2>1 DEF Calls
  <2> HIDE DEF c
  <2>4. call'[t] = c /\ call' \in [Threads -> Calls]
        /\ \A s \in Threads \ {t} : call'[s] = call[s]
    BY <2>2, <2>3, CallBecomes
  <2>5. CallOK(t)'
    BY <1>0, <1>3, <2>1, <2>3, <2>4 DEF Begin, CallOK
  <2>6. training' \in [Threads -> BOOLEAN]
    BY <2>1, <2>2
  <2>7. QED
    BY <1>0, <1>3, <2>3, <2>4, <2>5, <2>6 DEF Begin, PlanCovers
<1>4. CASE Sample(t)
  <2> DEFINE b == training[call[t].net]
             c == [call[t] EXCEPT !.at = "end", !.spread = b]
  <2>1. b \in BOOLEAN
    BY <1>0, <1>4 DEF Sample, CallOK
  <2>2. Becomes(t, c)
    BY <1>4 DEF Sample
  <2> HIDE DEF b
  <2>3. /\ c \in Calls /\ c.at = "end" /\ c.kind = call[t].kind /\ c.net = call[t].net
        /\ c.event = call[t].event
    BY <1>0, <2>1 DEF Calls
  <2> HIDE DEF c
  <2>4. call'[t] = c /\ call' \in [Threads -> Calls]
        /\ \A s \in Threads \ {t} : call'[s] = call[s]
    BY <2>2, <2>3, CallBecomes
  <2>5. CallOK(t)'
    BY <1>0, <1>4, <2>3, <2>4 DEF Sample, CallOK
  <2>6. QED
    BY <1>0, <1>4, <2>3, <2>4, <2>5 DEF Sample, PlanCovers, model
<1>5. CASE End(t)
  <2> DEFINE e == call[t].event
  <2>1. e \in Events /\ call[t].net \in Threads
    BY <1>0, <1>5 DEF End, CallOK
  <2>2. PICK lost \in {0, Spread[e]} :
          Becomes(t, [call[t] EXCEPT
            !.at = "store", !.net = None, !.spread = FALSE,
            !.result = IF call[t].kind = "plan" THEN Recommended(Peak[e] + Spread[e] - lost)
                                                ELSE Peak[e]])
    BY <1>5 DEF End
  <2> DEFINE n == IF call[t].kind = "plan" THEN Recommended(Peak[e] + Spread[e] - lost)
                                           ELSE Peak[e]
             c == [call[t] EXCEPT !.at = "store", !.net = None, !.spread = FALSE, !.result = n]
  <2>3. n \in Nat /\ (call[t].kind = "plan" => Fits(n, e))
    BY <2>1, EndFits, FitsRange
  <2>4. Becomes(t, c)
    BY <2>2
  <2> HIDE DEF n
  <2>5. /\ c \in Calls /\ c.at = "store" /\ c.kind = call[t].kind /\ c.event = e
        /\ c.result = n
    BY <1>0, <2>3 DEF Calls
  <2> HIDE DEF c
  <2>6. call'[t] = c /\ call' \in [Threads -> Calls]
        /\ \A s \in Threads \ {t} : call'[s] = call[s]
    BY <2>4, <2>5, CallBecomes
  <2>7. CallOK(t)'
    BY <2>1, <2>3, <2>5, <2>6 DEF CallOK, Fits
  <2>8. training' \in [Threads -> BOOLEAN]
    BY <1>5, <2>1 DEF End
  <2>9. QED
    BY <1>0, <1>5, <2>5, <2>6, <2>7, <2>8 DEF End, PlanCovers
<1>6. CASE Store(t)
  <2>1. /\ call[t].at = "store" /\ call[t].event \in Events /\ call[t].result \in Nat
        /\ call[t].kind \in Kinds
        /\ call[t].kind = "plan" => Fits(call[t].result, call[t].event)
    BY <1>0, <1>6 DEF Store, CallOK, Calls
  <2>2. Answer(t, call[t].result)
    BY <1>6 DEF Store
  <2>3. CallOK(t)'
    BY <2>1, <2>2, AnswerIs DEF CallOK, Fits
  <2>4. cache' = [cache EXCEPT ![call[t].kind][call[t].event] = call[t].result]
    BY <1>6 DEF Store
  <2>5. cache' \in [Kinds -> [Events -> Nat \cup {None}]]
    BY <2>1, <2>4
  <2>6. ASSUME NEW e \in Events, cache'["plan"][e] # None
        PROVE  cache'["plan"][e] \in Needed(Peak[e])..Needed(Peak[e] + Spread[e])
    <3>1. \/ cache'["plan"][e] = cache["plan"][e]
          \/ /\ call[t].kind = "plan" /\ call[t].event = e
             /\ cache'["plan"][e] = call[t].result
      BY <2>1, <2>4 DEF Kinds
    <3>2. QED
      BY <2>1, <2>6, <3>1 DEF Fits, PlanCovers
  <2>7. QED
    BY <1>0, <1>6, <2>1, <2>2, <2>3, <2>5, <2>6, AnswerIs DEF Store, PlanCovers, model
<1>7. CASE StoreFails(t)
  <2>1. /\ Answer(t, Mock(call[t].kind)) /\ Mock(call[t].kind) \in Nat
        /\ call[t].at = "store"
    BY <1>7 DEF StoreFails, Mock
  <2>2. faults' = faults + 1 /\ faults' \in 0..MaxFaults /\ "redis" \in Faults
    BY <1>7, FaultIs DEF StoreFails
  <2>3. CallOK(t)'
    BY <2>1, <2>2, AnswerIs DEF CallOK
  <2>4. QED
    BY <1>0, <1>7, <2>1, <2>2, <2>3, AnswerIs DEF StoreFails, PlanCovers, model
<1>8. QED
  BY <1>1, <1>2, <1>3, <1>4, <1>5, <1>6, <1>7 DEF Predict

\* the other steps that leave the passes alone
LEMMA AsideSteps ==
  ASSUME TypeOK, CallsOK, PlanCovers,
         \/ \E t \in Threads : Predict(t)
         \/ \E p \in Processes : Respond(p)
         \/ \E r \in Requests : Request(r[1], r[2], r[3])
         \/ \E k \in Kinds, e \in Events : CacheExpires(k, e)
         \/ UNCHANGED vars
  PROVE  TypeOK' /\ CallsOK' /\ PlanCovers' /\ Aside
<1>0. faults \in Nat /\ call \in [Threads -> Calls]
  BY ProcessesAssumption DEF TypeOK
<1>1. ASSUME NEW t \in Threads, TypeOK', CallOK(t)', PlanCovers', UNCHANGED scaling,
             faults' \in Nat, faults <= faults',
             \A s \in Threads \ {t} : call'[s] = call[s],
             \A p \in Processes : t = Looks(p) =>
               /\ call'[t].at = "idle" <=> call[t].at = "idle"
               /\ call'[t].kind = call[t].kind /\ call'[t].event = call[t].event
      PROVE  TypeOK' /\ CallsOK' /\ PlanCovers' /\ Aside
  <2>1. CallsOK'
    BY <1>1 DEF CallsOK, CallOK, Fits
  <2>2. Aside
    BY <1>1, ThreadsOf DEF Aside
  <2>3. QED
    BY <1>1, <2>1, <2>2
<1>2. ASSUME NEW t \in Threads, Predict(t)
      PROVE  TypeOK' /\ CallsOK' /\ PlanCovers' /\ Aside
  BY <1>1, <1>2, PredictIs
<1>3. ASSUME NEW p \in Processes, Respond(p)
      PROVE  TypeOK' /\ CallsOK' /\ PlanCovers' /\ Aside
  <2> DEFINE t == <<p, "request">>
  <2>1. t \in Threads /\ Becomes(t, Idle) /\ UNCHANGED <<scaling, model, cache, faults>>
    BY <1>3, ThreadsOf DEF Respond
  <2>2. /\ call'[t] = Idle /\ call' \in [Threads -> Calls]
        /\ \A s \in Threads \ {t} : call'[s] = call[s]
    BY <2>1, CallBecomes, IdleIsCall
  <2>3. CallOK(t)'
    BY <2>2, IdleIsCall DEF CallOK
  <2>4. TypeOK' /\ PlanCovers'
    BY <2>1, <2>2 DEF TypeOK, PlanCovers, scaling, model
  <2>5. \A q \in Processes : t # Looks(q)
    BY ThreadsOf
  <2>6. QED
    BY <1>0, <1>1, <2>1, <2>2, <2>3, <2>4, <2>5
<1>4. ASSUME NEW r \in Requests, Request(r[1], r[2], r[3])
      PROVE  TypeOK' /\ CallsOK' /\ PlanCovers' /\ Aside
  <2> DEFINE t == <<r[1], "request">>
  <2>1. /\ r[1] \in Processes /\ r[2] \in Kinds /\ r[3] \in Events \cup Unknown
    BY EventsAssumption DEF Kinds
  <2>2. t \in Threads /\ Ask(t, r[2], r[3]) /\ UNCHANGED <<scaling, faults>>
    BY <1>4, <2>1, ThreadsOf DEF Request
  <2>3. /\ call' \in [Threads -> Calls] /\ CallOK(t)'
        /\ \A s \in Threads \ {t} : call'[s] = call[s]
        /\ UNCHANGED <<model, cache>>
    BY <2>1, <2>2, AskIs
  <2>4. TypeOK' /\ PlanCovers'
    BY <2>2, <2>3 DEF TypeOK, PlanCovers, scaling, model
  <2>5. \A q \in Processes : t # Looks(q)
    BY <2>1, ThreadsOf
  <2>6. QED
    BY <1>0, <1>1, <2>2, <2>3, <2>4, <2>5
<1>5. ASSUME NEW k \in Kinds, NEW e \in Events, CacheExpires(k, e)
      PROVE  TypeOK' /\ CallsOK' /\ PlanCovers' /\ Aside
  <2>1. cache' = [cache EXCEPT ![k][e] = None] /\ UNCHANGED <<scaling, model, call, faults>>
    BY <1>5 DEF CacheExpires
  <2>2. cache' \in [Kinds -> [Events -> Nat \cup {None}]]
    BY <2>1 DEF TypeOK
  <2>3. \A f \in Events : cache'["plan"][f] # None => cache'["plan"][f] = cache["plan"][f]
    BY <2>1 DEF TypeOK, Kinds
  <2>4. PlanCovers'
    BY <2>3 DEF PlanCovers
  <2>5. TypeOK'
    BY <2>1, <2>2 DEF TypeOK, scaling, model
  <2>6. QED
    BY <1>0, <2>1, <2>4, <2>5 DEF CallsOK, CallOK, Fits, Aside
<1>6. ASSUME UNCHANGED vars PROVE TypeOK' /\ CallsOK' /\ PlanCovers' /\ Aside
  BY <1>0, <1>6 DEF vars, TypeOK, CallsOK, CallOK, Fits, PlanCovers, Aside, scaling
<1>7. QED
  BY <1>2, <1>3, <1>4, <1>5, <1>6

-----------------------------------------------------------------------------
(* The steps of a pass, one lemma each: what they do to the process p, and *)
(* that they touch nobody else.                                            *)

\* the pass has a prediction under way
Busy(p) == call[Looks(p)].at # "idle"

Others(p) ==
  /\ UNCHANGED <<start, now>>
  /\ \A q \in Processes \ {p} : /\ pass'[q] = pass[q] /\ scaled'[q] = scaled[q]
                                /\ call'[Looks(q)] = call[Looks(q)]

\* what every step keeps, whatever the schedule
Sound == TypeOK /\ CallsOK /\ PlanCovers /\ PassesOK

LEMMA PassIs ==
  ASSUME TypeOK, NEW p \in Processes,
         NEW a \in {"due", "scale", "restore", "done"}, NEW S \in SUBSET Events,
         PassBecomes(p, a, S)
  PROVE  /\ pass' \in [Processes -> Passes] /\ pass'[p].at = a /\ pass'[p].todo = S
         /\ \A q \in Processes \ {p} : pass'[q] = pass[q]
<1>1. [at |-> a, todo |-> S] \in Passes
  BY DEF Passes
<1>2. [at |-> a, todo |-> S].at = a /\ [at |-> a, todo |-> S].todo = S
  OBVIOUS
<1>3. pass' = [pass EXCEPT ![p] = [at |-> a, todo |-> S]]
  BY DEF PassBecomes
<1>4. QED
  BY <1>1, <1>2, <1>3 DEF TypeOK

\* the processes a step does not touch keep what is true of their passes
LEMMA OthersKeep ==
  ASSUME PassesOK, NEW p \in Processes, Others(p), PassOK(p)'
  PROVE  PassesOK'
BY DEF PassesOK, PassOK, Others, Near, Opened

LEMMA CallsKept ==
  ASSUME CallsOK, NEW t \in Threads, CallOK(t)', \A s \in Threads \ {t} : call'[s] = call[s]
  PROVE  CallsOK'
BY DEF CallsOK, CallOK, Fits

LEMMA StartPassIs ==
  ASSUME Sound, NEW p \in Processes, StartPass(p)
  PROVE  /\ Sound' /\ Others(p)
         /\ pass[p].at = "due" /\ pass'[p].at = "scale" /\ pass'[p].todo = Upcoming(p)
         /\ UNCHANGED <<floor, scaled, faults, call>>
<1> USE DEF Sound
<1>1. /\ pass[p].at = "due" /\ PassBecomes(p, "scale", Upcoming(p))
      /\ UNCHANGED <<start, now, floor, scaled, model, cache, call, faults>>
  BY DEF StartPass
<1>2. Upcoming(p) \in SUBSET Events /\ \A e \in Upcoming(p) : Near(e)
  BY DEF Upcoming, Near
<1>3. /\ pass' \in [Processes -> Passes] /\ pass'[p].at = "scale"
      /\ pass'[p].todo = Upcoming(p) /\ \A q \in Processes \ {p} : pass'[q] = pass[q]
  BY <1>1, <1>2, PassIs
<1>4. TypeOK' /\ CallsOK' /\ PlanCovers'
  BY <1>1, <1>3 DEF TypeOK, CallsOK, CallOK, Fits, PlanCovers, model
<1>5. Others(p)
  BY <1>1, <1>3 DEF Others
<1>6. PassOK(p)'
  BY <1>1, <1>2, <1>3 DEF PassesOK, PassOK, Near
<1>7. QED
  BY <1>1, <1>3, <1>4, <1>5, <1>6, OthersKeep

LEMMA PlanIs ==
  ASSUME Sound, NEW p \in Processes, NEW e \in Events, Plan(p, e)
  PROVE  /\ Sound' /\ Others(p)
         /\ pass[p].at = "scale" /\ pass'[p].at = "scale" /\ e \in pass[p].todo
         /\ pass'[p].todo = pass[p].todo \ {e}
         /\ ~Busy(p) /\ Busy(p)' /\ call'[Looks(p)].event = e
         /\ UNCHANGED <<floor, scaled, faults>>
<1> USE DEF Sound
<1> DEFINE t == Looks(p)
<1>1. /\ pass[p].at = "scale" /\ e \in pass[p].todo /\ Ask(t, "plan", e)
      /\ PassBecomes(p, "scale", pass[p].todo \ {e})
      /\ UNCHANGED <<start, now, floor, scaled, faults>>
  BY DEF Plan
<1>2. t \in Threads /\ \A q \in Processes \ {p} : Looks(q) \in Threads \ {t}
  BY ThreadsOf
<1>3. pass[p] \in Passes /\ pass[p].todo \in SUBSET Events
  BY DEF TypeOK, Passes
<1>4. /\ pass' \in [Processes -> Passes] /\ pass'[p].at = "scale"
      /\ pass'[p].todo = pass[p].todo \ {e} /\ \A q \in Processes \ {p} : pass'[q] = pass[q]
  BY <1>1, <1>3, PassIs
<1>5. /\ call' \in [Threads -> Calls] /\ call[t].at = "idle" /\ call'[t].at # "idle"
      /\ call'[t].kind = "plan" /\ call'[t].event = e /\ CallOK(t)'
      /\ \A s \in Threads \ {t} : call'[s] = call[s]
      /\ UNCHANGED <<model, cache>>
  BY <1>1, <1>2, AskIs DEF Kinds
<1>6. TypeOK' /\ CallsOK' /\ PlanCovers'
  BY <1>1, <1>2, <1>4, <1>5, CallsKept DEF TypeOK, PlanCovers, model
<1>7. Others(p)
  BY <1>1, <1>2, <1>4, <1>5 DEF Others
<1>8. PassOK(p)'
  BY <1>1, <1>4, <1>5 DEF PassesOK, PassOK, Near
<1>9. QED
  BY <1>1, <1>4, <1>5, <1>6, <1>7, <1>8, OthersKeep DEF Busy

LEMMA PlanFailsIs ==
  ASSUME Sound, NEW p \in Processes, PlanFails(p)
  PROVE  /\ Sound' /\ Others(p)
         /\ pass[p].at = "scale" /\ pass[p].todo # {} /\ pass'[p].at = "done" /\ ~Busy(p)
         /\ "redis" \in Faults /\ faults' = faults + 1
         /\ UNCHANGED <<floor, scaled, call>>
<1> USE DEF Sound
<1>1. /\ pass[p].at = "scale" /\ pass[p].todo # {} /\ call[Looks(p)].at = "idle"
      /\ PassBecomes(p, "done", {})
      /\ UNCHANGED <<start, now, floor, scaled, model, cache, call>>
  BY DEF PlanFails
<1>2. faults' = faults + 1 /\ faults' \in 0..MaxFaults /\ "redis" \in Faults
  BY FaultIs DEF PlanFails
<1>3. /\ pass' \in [Processes -> Passes] /\ pass'[p].at = "done"
      /\ pass'[p].todo = {} /\ \A q \in Processes \ {p} : pass'[q] = pass[q]
  BY <1>1, PassIs
<1>4. TypeOK' /\ CallsOK' /\ PlanCovers'
  BY <1>1, <1>2, <1>3 DEF TypeOK, CallsOK, CallOK, Fits, PlanCovers, model
<1>5. Others(p)
  BY <1>1, <1>3 DEF Others
<1>6. PassOK(p)'
  BY <1>1, <1>3 DEF PassOK
<1>7. QED
  BY <1>1, <1>2, <1>3, <1>4, <1>5, <1>6, OthersKeep DEF Busy

LEMMA LeastIs ==
  ASSUME NEW e \in Events
  PROVE  /\ Least(e) \in Nat /\ Least(e) <= Needed(Peak[e]) /\ Least(e) <= Cap
         /\ "redis" \in Faults => Least(e) <= Mock("plan")
<1> DEFINE need == Needed(Peak[e])
<1>1. need \in 2..50
  BY FitsRange
<1> HIDE DEF need
<1>2. Least(e) = Min({need, Cap} \cup IF "redis" \in Faults THEN {10} ELSE {})
  BY DEF Least, Mock, need
<1>3. PICK m \in {need, 30} : m <= need /\ m <= 30
  BY <1>1
<1>4. CASE "redis" \notin Faults
  <2>1. Least(e) = m
    BY <1>1, <1>2, <1>3, <1>4, MinIs DEF Cap
  <2>2. QED
    BY <1>1, <1>3, <1>4, <2>1 DEF Cap, need
<1>5. CASE "redis" \in Faults
  <2>1. PICK k \in {m, 10} : k <= m /\ k <= 10
    BY <1>1, <1>3
  <2>2. Least(e) = k
    BY <1>1, <1>2, <1>3, <1>5, <2>1, MinIs DEF Cap
  <2>3. QED
    BY <1>1, <1>3, <2>1, <2>2 DEF Cap, Mock, need
<1>6. QED
  BY <1>4, <1>5

\* an answer, capped, is at least the least a plan can ask for
LEMMA RaisedEnough ==
  ASSUME NEW e \in Events, NEW n \in Nat,
         \/ n = Mock("plan") /\ "redis" \in Faults
         \/ Fits(n, e)
  PROVE  Min({n, Cap}) \in Default..Cap /\ Min({n, Cap}) >= Least(e)
<1>1. /\ Needed(Peak[e]) \in 2..50
      /\ Fits(n, e) => n \in 2..50 /\ n >= Needed(Peak[e])
  BY FitsRange
<1>2. Min({n, Cap}) = IF n <= 30 THEN n ELSE 30
  <2>1. CASE n <= 30
    BY <2>1, MinIs DEF Cap
  <2>2. CASE n > 30
    BY <2>2, MinIs DEF Cap
  <2>3. QED
    BY <2>1, <2>2
<1>3. n >= 2 /\ n >= Least(e)
  BY <1>1, LeastIs DEF Mock
<1>4. QED
  BY <1>2, <1>3, LeastIs DEF Default, Cap

LEMMA RaiseIs ==
  ASSUME Sound, NEW p \in Processes, Raise(p)
  PROVE  LET e == call[Looks(p)].event IN
         /\ Sound' /\ Others(p)
         /\ pass[p].at = "scale" /\ Busy(p) /\ ~Busy(p)'
         /\ e \in Events /\ Near(e) /\ scaled'[p] = scaled[p] \cup {e}
         /\ floor' >= Least(e)
         /\ UNCHANGED <<pass, faults>>
<1> USE DEF Sound
<1> DEFINE t == Looks(p)
           e == call[t].event
<1>1. /\ pass[p].at = "scale" /\ call[t].at = "answered"
      /\ floor' = Min({call[t].result, Cap})
      /\ scaled' = [scaled EXCEPT ![p] = scaled[p] \cup {e}]
      /\ Becomes(t, Idle)
      /\ UNCHANGED <<start, now, pass, model, cache, faults>>
  BY DEF Raise
<1>2. t \in Threads /\ \A q \in Processes \ {p} : Looks(q) \in Threads \ {t}
  BY ThreadsOf
<1>3. /\ call[t].kind = "plan" /\ e \in Events /\ Near(e) /\ e \notin Unknown
      /\ call[t].result \in Nat
  <2>1. call[t] \in Calls
    BY <1>2 DEF TypeOK
  <2>2. call[t].result \in Nat
    BY <2>1 DEF Calls
  <2>3. call[t].kind = "plan" /\ e \in Events /\ Near(e)
    BY <1>1 DEF PassesOK, PassOK
  <2>4. QED
    BY <2>2, <2>3, EventsAssumption
<1>4. \/ call[t].result = Mock("plan") /\ "redis" \in Faults
      \/ Fits(call[t].result, e)
  BY <1>1, <1>2, <1>3 DEF CallsOK, CallOK
<1>5. floor' \in Default..Cap /\ floor' >= Least(e)
  BY <1>1, <1>3, <1>4, RaisedEnough
<1>6. /\ call'[t] = Idle /\ call'[t].at = "idle" /\ call' \in [Threads -> Calls]
      /\ \A s \in Threads \ {t} : call'[s] = call[s]
  BY <1>1, <1>2, CallBecomes, IdleIsCall
<1>7. /\ scaled' \in [Processes -> SUBSET Events] /\ scaled'[p] = scaled[p] \cup {e}
      /\ \A q \in Processes \ {p} : scaled'[q] = scaled[q]
  BY <1>1, <1>3 DEF TypeOK
<1>8. CallOK(t)'
  BY <1>6 DEF CallOK
<1>9. TypeOK' /\ CallsOK' /\ PlanCovers'
  BY <1>1, <1>2, <1>5, <1>6, <1>7, <1>8, CallsKept DEF TypeOK, PlanCovers, model
<1>10. Others(p)
  BY <1>1, <1>2, <1>6, <1>7 DEF Others
<1>11. PassOK(p)'
  BY <1>1, <1>6 DEF PassesOK, PassOK, Near
<1>12. QED
  BY <1>1, <1>3, <1>5, <1>6, <1>7, <1>9, <1>10, <1>11, OthersKeep DEF Busy

LEMMA RaiseFailsIs ==
  ASSUME Sound, NEW p \in Processes, RaiseFails(p)
  PROVE  /\ Sound' /\ Others(p)
         /\ Busy(p) /\ ~Busy(p)' /\ faults' = faults + 1
         /\ UNCHANGED <<floor, scaled, pass>>
<1> USE DEF Sound
<1> DEFINE t == Looks(p)
<1>1. /\ pass[p].at = "scale" /\ call[t].at = "answered" /\ Fault("patch")
      /\ Becomes(t, Idle) /\ UNCHANGED <<scaling, model, cache>>
  BY DEF RaiseFails
<1>2. t \in Threads /\ \A q \in Processes \ {p} : Looks(q) \in Threads \ {t}
  BY ThreadsOf
<1>3. faults' = faults + 1 /\ faults' \in 0..MaxFaults
  BY <1>1, FaultIs
<1>4. /\ call'[t] = Idle /\ call'[t].at = "idle" /\ call' \in [Threads -> Calls]
      /\ \A s \in Threads \ {t} : call'[s] = call[s]
  BY <1>1, <1>2, CallBecomes, IdleIsCall
<1>5. CallOK(t)'
  BY <1>4 DEF CallOK
<1>6. TypeOK' /\ CallsOK' /\ PlanCovers'
  BY <1>1, <1>2, <1>3, <1>4, <1>5, CallsKept DEF TypeOK, PlanCovers, model, scaling
<1>7. Others(p)
  BY <1>1, <1>2, <1>4 DEF Others, scaling
<1>8. PassOK(p)'
  BY <1>1, <1>4 DEF PassesOK, PassOK, Near, scaling
<1>9. QED
  BY <1>1, <1>3, <1>4, <1>6, <1>7, <1>8, OthersKeep DEF Busy, scaling

LEMMA EndScaleIs ==
  ASSUME Sound, NEW p \in Processes, EndScale(p)
  PROVE  /\ Sound' /\ Others(p)
         /\ pass[p].at = "scale" /\ pass[p].todo = {} /\ ~Busy(p)
         /\ pass'[p].at = (IF Opened(p) = {} THEN "done" ELSE "restore")
         /\ pass'[p].todo = Opened(p)
         /\ UNCHANGED <<floor, scaled, faults, call>>
<1> USE DEF Sound
<1> DEFINE a == IF Opened(p) = {} THEN "done" ELSE "restore"
<1>1. /\ pass[p] = [at |-> "scale", todo |-> {}] /\ call[Looks(p)].at = "idle"
      /\ PassBecomes(p, a, Opened(p))
      /\ UNCHANGED <<start, now, floor, scaled, model, cache, call, faults>>
  BY DEF EndScale
<1>2. a \in {"due", "scale", "restore", "done"} /\ Opened(p) \in SUBSET Events
      /\ (a = "done" => Opened(p) = {}) /\ a \notin {"due", "scale"}
  BY DEF Opened, TypeOK
<1> HIDE DEF a
<1>3. /\ pass' \in [Processes -> Passes] /\ pass'[p].at = a
      /\ pass'[p].todo = Opened(p) /\ \A q \in Processes \ {p} : pass'[q] = pass[q]
  BY <1>1, <1>2, PassIs
<1>4. TypeOK' /\ CallsOK' /\ PlanCovers'
  BY <1>1, <1>3 DEF TypeOK, CallsOK, CallOK, Fits, PlanCovers, model
<1>5. Others(p)
  BY <1>1, <1>3 DEF Others
<1>6. PassOK(p)'
  BY <1>1, <1>2, <1>3 DEF PassOK, Opened
<1>7. QED
  BY <1>1, <1>3, <1>4, <1>5, <1>6, OthersKeep DEF Busy, a

\* whether its patch went through or not, a restore forgets an event that is over
LEMMA ForgetIs ==
  ASSUME Sound, NEW p \in Processes, NEW e \in Events, Forget(p, e),
         floor' \in Default..Cap, faults' \in 0..MaxFaults
  PROVE  /\ Sound' /\ Others(p)
         /\ pass[p].at = "restore" /\ e \in pass[p].todo /\ e \in Opened(p)
         /\ pass'[p].at \in {"restore", "done"} /\ pass'[p].todo = pass[p].todo \ {e}
         /\ scaled'[p] = scaled[p] \ {e}
         /\ UNCHANGED call
<1> USE DEF Sound
<1> DEFINE a == IF pass[p].todo = {e} THEN "done" ELSE "restore"
<1>1. /\ pass[p].at = "restore" /\ e \in pass[p].todo
      /\ scaled' = [scaled EXCEPT ![p] = scaled[p] \ {e}]
      /\ PassBecomes(p, a, pass[p].todo \ {e})
      /\ UNCHANGED <<start, now, model, cache, call>>
  BY DEF Forget
<1>2. /\ pass[p].todo = Opened(p) /\ ~Busy(p)
  BY <1>1 DEF PassesOK, PassOK, Busy
<1>3. /\ a \in {"restore", "done"} /\ pass[p].todo \ {e} \in SUBSET Events
      /\ (a = "done" => pass[p].todo \ {e} = {})
  BY <1>2 DEF Opened, TypeOK
<1> HIDE DEF a
<1>4. /\ pass' \in [Processes -> Passes] /\ pass'[p].at = a
      /\ pass'[p].todo = pass[p].todo \ {e}
      /\ \A q \in Processes \ {p} : pass'[q] = pass[q]
  BY <1>1, <1>3, PassIs
<1>5. /\ scaled' \in [Processes -> SUBSET Events] /\ scaled'[p] = scaled[p] \ {e}
      /\ \A q \in Processes \ {p} : scaled'[q] = scaled[q]
  BY <1>1 DEF TypeOK
<1>6. TypeOK' /\ CallsOK' /\ PlanCovers'
  BY <1>1, <1>4, <1>5 DEF TypeOK, CallsOK, CallOK, Fits, PlanCovers, model
<1>7. Others(p)
  BY <1>1, <1>4, <1>5 DEF Others
<1>8. Opened(p)' = Opened(p) \ {e}
  BY <1>1, <1>5 DEF Opened
<1>9. PassOK(p)'
  BY <1>1, <1>2, <1>3, <1>4, <1>8 DEF PassOK, Busy
<1>10. QED
  BY <1>1, <1>2, <1>3, <1>4, <1>5, <1>6, <1>7, <1>9, OthersKeep

LEMMA CrashIs ==
  ASSUME Sound, NEW p \in Processes, Crash(p)
  PROVE  /\ Sound' /\ Others(p)
         /\ pass'[p].at = "due" /\ scaled'[p] = {} /\ ~Busy(p)'
         /\ faults' = faults + 1 /\ UNCHANGED floor
<1> USE DEF Sound
<1>1. /\ scaled' = [scaled EXCEPT ![p] = {}] /\ PassBecomes(p, "due", {})
      /\ instance' = [instance EXCEPT ![p] = None]
      /\ call' = [t \in Threads |-> IF ProcessOf(t) = p THEN Idle ELSE call[t]]
      /\ training' = [t \in Threads |-> ProcessOf(t) # p /\ training[t]]
      /\ UNCHANGED <<start, now, floor, cache>>
  BY DEF Crash
<1>2. faults' = faults + 1 /\ faults' \in 0..MaxFaults
  BY FaultIs DEF Crash
<1>3. /\ pass' \in [Processes -> Passes] /\ pass'[p].at = "due"
      /\ pass'[p].todo = {} /\ \A q \in Processes \ {p} : pass'[q] = pass[q]
  BY <1>1, PassIs
<1>4. /\ call' \in [Threads -> Calls]
      /\ \A t \in Threads : call'[t] = call[t] \/ call'[t].at = "idle"
      /\ call'[Looks(p)].at = "idle"
      /\ \A q \in Processes \ {p} : call'[Looks(q)] = call[Looks(q)]
  BY <1>1, ThreadsOf, IdleIsCall DEF TypeOK
<1>5. /\ scaled' \in [Processes -> SUBSET Events] /\ scaled'[p] = {}
      /\ \A q \in Processes \ {p} : scaled'[q] = scaled[q]
  BY <1>1 DEF TypeOK
<1>6. CallsOK'
  BY <1>4 DEF CallsOK, CallOK, Fits
<1>7. instance' \in [Processes -> Threads \cup {None}]
  BY <1>1 DEF TypeOK
<1>8. training' \in [Threads -> BOOLEAN]
  <2>1. \A t \in Threads : training[t] \in BOOLEAN
    BY DEF TypeOK
  <2>2. \A t \in Threads : (ProcessOf(t) # p /\ training[t]) \in BOOLEAN
    BY Zenon
  <2>3. QED
    BY <1>1, <2>2, Zenon
<1>9. TypeOK' /\ PlanCovers'
  BY <1>1, <1>2, <1>3, <1>4, <1>5, <1>7, <1>8 DEF TypeOK, PlanCovers
<1>10. Others(p)
  BY <1>1, <1>3, <1>4, <1>5 DEF Others
<1>11. PassOK(p)'
  BY <1>3, <1>4 DEF PassOK
<1>12. QED
  BY <1>1, <1>2, <1>3, <1>4, <1>5, <1>6, <1>9, <1>10, <1>11, OthersKeep DEF Busy

LEMMA TickIs ==
  ASSUME Sound, Tick
  PROVE  /\ Sound' /\ now \in Nat /\ now' = now + 1
         /\ \A p \in Processes : /\ pass[p].at = "done" /\ ~Busy(p) /\ ~Busy(p)'
                                 /\ pass'[p].at = "due"
         /\ UNCHANGED <<start, floor, scaled, call, faults>>
<1> USE DEF Sound
<1>1. /\ now < Horizon /\ now' = now + 1 /\ \A p \in Processes : pass[p].at = "done"
      /\ pass' = [p \in Processes |-> [at |-> "due", todo |-> {}]]
      /\ UNCHANGED <<start, floor, scaled, model, cache, call, faults>>
  BY DEF Tick
<1>2. now \in Nat /\ now' \in 0..Horizon
  BY <1>1, TimeAssumption DEF TypeOK
<1>3. /\ pass' \in [Processes -> Passes]
      /\ \A p \in Processes : pass'[p].at = "due" /\ pass'[p].todo = {}
  BY <1>1 DEF Passes
<1>4. \A p \in Processes : call[Looks(p)].at = "idle" /\ call'[Looks(p)].at = "idle"
  BY <1>1 DEF PassesOK, PassOK
<1>5. TypeOK' /\ CallsOK' /\ PlanCovers'
  BY <1>1, <1>2, <1>3 DEF TypeOK, CallsOK, CallOK, Fits, PlanCovers, model
<1>6. PassesOK'
  BY <1>3, <1>4 DEF PassesOK, PassOK
<1>7. QED
  BY <1>1, <1>2, <1>3, <1>4, <1>5, <1>6 DEF Busy

\* the steps that touch no pass
AsideStep ==
  \/ \E t \in Threads : Predict(t)
  \/ \E p \in Processes : Respond(p)
  \/ \E r \in Requests : Request(r[1], r[2], r[3])
  \/ \E k \in Kinds, e \in Events : CacheExpires(k, e)
  \/ UNCHANGED vars

LEMMA AsideIs ==
  ASSUME Sound, AsideStep
  PROVE  Sound' /\ Aside
<1>1. TypeOK' /\ CallsOK' /\ PlanCovers' /\ Aside
  BY AsideSteps DEF AsideStep, Sound
<1>2. ASSUME NEW p \in Processes PROVE PassOK(p)'
  <2>0. pass' = pass /\ scaled' = scaled /\ start' = start /\ now' = now
    BY <1>1 DEF Aside, scaling
  <2>1. /\ call'[Looks(p)].at = "idle" <=> call[Looks(p)].at = "idle"
        /\ call'[Looks(p)].kind = call[Looks(p)].kind
        /\ call'[Looks(p)].event = call[Looks(p)].event
    BY <1>1 DEF Aside
  <2>2. PassOK(p)
    BY DEF Sound, PassesOK
  <2>3. QED
    BY <2>0, <2>1, <2>2 DEF PassOK, Near, Opened
<1>3. QED
  BY <1>1, <1>2 DEF Sound, PassesOK

\* a restore, with its patch or without
LEMMA RestoreIs ==
  ASSUME Sound, NEW p \in Processes, NEW e \in Events, Restore(p, e) \/ RestoreFails(p, e)
  PROVE  /\ Sound' /\ Others(p)
         /\ pass[p].at = "restore" /\ e \in pass[p].todo /\ e \in Opened(p)
         /\ pass'[p].at \in {"restore", "done"} /\ pass'[p].todo = pass[p].todo \ {e}
         /\ scaled'[p] = scaled[p] \ {e}
         /\ UNCHANGED call
         /\ \/ floor' = Default /\ faults' = faults
            \/ floor' = floor /\ faults' = faults + 1
<1>1. CASE Restore(p, e)
  <2>1. Forget(p, e) /\ floor' = Default /\ faults' = faults
    BY <1>1 DEF Restore
  <2>2. floor' \in Default..Cap /\ faults' \in 0..MaxFaults
    BY <2>1 DEF Sound, TypeOK, Default, Cap
  <2>3. QED
    BY <2>1, <2>2, ForgetIs
<1>2. CASE RestoreFails(p, e)
  <2>1. Forget(p, e) /\ floor' = floor /\ Fault("patch")
    BY <1>2 DEF RestoreFails
  <2>2. faults' = faults + 1 /\ faults' \in 0..MaxFaults /\ floor' \in Default..Cap
    BY <2>1, FaultIs DEF Sound, TypeOK
  <2>3. QED
    BY <2>1, <2>2, ForgetIs
<1>3. QED
  BY <1>1, <1>2

\* the steps of the system, as the lemmas above know them
LEMMA StepsAre ==
  ASSUME [Next]_vars
  PROVE  \/ AsideStep
         \/ Tick
         \/ \E p \in Processes :
              \/ StartPass(p) \/ PlanFails(p) \/ Raise(p) \/ RaiseFails(p) \/ EndScale(p)
              \/ Crash(p)
              \/ \E e \in Events : Plan(p, e)
              \/ \E e \in Events : Restore(p, e) \/ RestoreFails(p, e)
BY DEF Next, Step, AsideStep

LEMMA SoundInit ==
  ASSUME Init
  PROVE  Sound
<1>1. TypeOK
  <2>1. [at |-> "due", todo |-> {}] \in Passes
    BY DEF Passes
  <2>2. now \in 0..Horizon /\ faults \in 0..MaxFaults /\ floor \in Default..Cap
    BY TimeAssumption, ProcessesAssumption DEF Init, Default, Cap
  <2>3. QED
    BY <2>1, <2>2, IdleIsCall DEF Init, TypeOK
<1>2. \A t \in Threads : call[t].at = "idle"
  BY IdleIsCall DEF Init
<1>3. CallsOK /\ PlanCovers
  BY <1>2 DEF Init, CallsOK, CallOK, PlanCovers, Kinds
<1>4. PassesOK
  BY <1>2, ThreadsOf DEF Init, PassesOK, PassOK
<1>5. QED
  BY <1>1, <1>3, <1>4 DEF Sound

LEMMA SoundStep ==
  ASSUME Sound, [Next]_vars
  PROVE  Sound'
<1>1. CASE AsideStep
  BY <1>1, AsideIs
<1>2. CASE Tick
  BY <1>2, TickIs
<1>3. ASSUME NEW p \in Processes,
             \/ StartPass(p) \/ PlanFails(p) \/ Raise(p) \/ RaiseFails(p) \/ EndScale(p)
             \/ Crash(p)
      PROVE  Sound'
  BY <1>3, StartPassIs, PlanFailsIs, RaiseIs, RaiseFailsIs, EndScaleIs, CrashIs
<1>4. ASSUME NEW p \in Processes, NEW e \in Events, Plan(p, e)
      PROVE  Sound'
  BY <1>4, PlanIs
<1>5. ASSUME NEW p \in Processes, NEW e \in Events, Restore(p, e) \/ RestoreFails(p, e)
      PROVE  Sound'
  BY <1>5, RestoreIs
<1>6. QED
  BY <1>1, <1>2, <1>3, <1>4, <1>5, StepsAre

LEMMA SoundInvariant == Spec => []Sound
<1>1. Sound /\ [Next]_vars => Sound'
  BY SoundStep
<1>2. QED
  BY <1>1, SoundInit, PTL DEF Spec

\* The types of the scaling state: in particular the floor stays between the default
\* and the autoscaler's cap, whatever is predicted and whatever fails.
THEOREM PrescaleTypes == Spec => []TypeOK
<1>1. Sound => TypeOK
  BY DEF Sound
<1>2. QED
  BY <1>1, SoundInvariant, PTL

\* Whatever the threads of a process do to each other's dropout, a cached plan carries
\* what the prediction promises (get_resource_plan caches the peak window).
THEOREM PlansCover == Spec => []PlanCovers
<1>1. Sound => PlanCovers
  BY DEF Sound
<1>2. QED
  BY <1>1, SoundInvariant, PTL

-----------------------------------------------------------------------------
(* The minimum is given back.                                              *)

\* The process will look at the event again: it remembers it and has not made its last
\* pass over it, or it will still plan it, or it is planning it.
Owes(p, e) ==
  \/ e \in scaled[p] /\ (now < start[e] + After \/ pass[p].at # "done")
  \/ /\ Near(e)
     /\ \/ pass[p].at = "due"
        \/ pass[p].at = "scale" /\ e \in pass[p].todo
        \/ Busy(p) /\ call[Looks(p)].event = e

\* only a fault makes a process that saw the event near forget it early
MostOwe(e) == Cardinality({p \in Processes : ~Owes(p, e)}) <= faults

OweInv ==
  /\ \A e \in Events : Near(e) => MostOwe(e)
  /\ floor # Default => \E e \in Events : start[e] <= now + Window /\ MostOwe(e)

LEMMA Counted ==
  ASSUME NEW S \in SUBSET Processes, NEW T \in SUBSET Processes, NEW p \in Processes
  PROVE  /\ Cardinality(S) \in Nat /\ Cardinality(T) \in Nat
         /\ T \subseteq S => Cardinality(T) <= Cardinality(S)
         /\ T \subseteq S \cup {p} => Cardinality(T) <= Cardinality(S) + 1
<1>1. IsFiniteSet(S) /\ IsFiniteSet(T) /\ Cardinality(S) \in Nat /\ Cardinality(T) \in Nat
  BY ProcessesAssumption, FS_Subset, FS_CardinalityType
<1>2. /\ IsFiniteSet(S \cup {p}) /\ Cardinality(S \cup {p}) \in Nat
      /\ Cardinality(S \cup {p}) <= Cardinality(S) + 1
  <2>1. IsFiniteSet(S \cup {p})
    BY <1>1, FS_AddElement
  <2>2. Cardinality(S \cup {p}) = IF p \in S THEN Cardinality(S) ELSE Cardinality(S) + 1
    BY <1>1, FS_AddElement
  <2>3. QED
    BY <1>1, <2>1, <2>2, FS_CardinalityType
<1>3. T \subseteq S => Cardinality(T) <= Cardinality(S)
  BY <1>1, FS_Subset
<1>4. T \subseteq S \cup {p} => Cardinality(T) <= Cardinality(S \cup {p})
  BY <1>2, FS_Subset
<1>5. QED
  BY <1>1, <1>2, <1>3, <1>4

LEMMA OweKept ==
  ASSUME TypeOK, NEW e \in Events, \A p \in Processes : Owes(p, e) => Owes(p, e)',
         faults' \in Nat, faults <= faults', MostOwe(e)
  PROVE  MostOwe(e)'
<1> DEFINE S == {p \in Processes : ~Owes(p, e)}
           T == {p \in Processes : ~Owes(p, e)'}
<1>1. T \subseteq S /\ S \in SUBSET Processes /\ T \in SUBSET Processes
  OBVIOUS
<1>2. Cardinality(S) <= faults /\ faults \in Nat
  BY ProcessesAssumption DEF MostOwe, TypeOK
<1>3. Cardinality(T) <= faults'
  <2> HIDE DEF S, T
  <2>1. CASE Processes = {}
    <3>1. T = {}
      BY <1>1, <2>1
    <3>2. QED
      BY <3>1, FS_EmptySet
  <2>2. ASSUME NEW p \in Processes PROVE Cardinality(T) <= faults'
    <3>1. Cardinality(S) \in Nat /\ Cardinality(T) \in Nat /\ Cardinality(T) <= Cardinality(S)
      BY <1>1, Counted
    <3>2. QED
      BY <1>2, <3>1
  <2>3. QED
    BY <2>1, <2>2
<1>4. QED
  BY <1>3 DEF MostOwe

LEMMA OweLost ==
  ASSUME TypeOK, NEW e \in Events, NEW p \in Processes,
         \A q \in Processes \ {p} : Owes(q, e) => Owes(q, e)',
         faults' = faults + 1, MostOwe(e)
  PROVE  MostOwe(e)'
<1> DEFINE S == {q \in Processes : ~Owes(q, e)}
           T == {q \in Processes : ~Owes(q, e)'}
<1>1. T \subseteq S \cup {p} /\ S \in SUBSET Processes /\ T \in SUBSET Processes
  OBVIOUS
<1>2. Cardinality(S) <= faults /\ faults \in Nat
  BY ProcessesAssumption DEF MostOwe, TypeOK
<1>3. Cardinality(T) <= faults'
  <2> HIDE DEF S, T
  <2>1. /\ Cardinality(S) \in Nat /\ Cardinality(T) \in Nat
        /\ Cardinality(T) <= Cardinality(S) + 1
    BY <1>1, Counted
  <2>2. QED
    BY <1>2, <2>1
<1>4. QED
  BY <1>3 DEF MostOwe

\* a step of p leaves what the others owe
LEMMA OthersOwe ==
  ASSUME NEW p \in Processes, Others(p), NEW e \in Events
  PROVE  /\ Near(e) <=> Near(e)'
         /\ \A q \in Processes \ {p} : Owes(q, e) => Owes(q, e)'
BY DEF Others, Owes, Near, Busy

\* when p keeps what it owes too, or a fault has struck it, everything stays
LEMMA OweStep ==
  ASSUME TypeOK, OweInv, NEW p \in Processes, Others(p), UNCHANGED floor,
         \/ faults' = faults /\ \A e \in Events : Owes(p, e) => Owes(p, e)'
         \/ faults' = faults + 1
  PROVE  OweInv'
<1>1. faults \in Nat
  BY ProcessesAssumption DEF TypeOK
<1>2. ASSUME NEW e \in Events, MostOwe(e) PROVE MostOwe(e)'
  <2>1. CASE faults' = faults /\ (Owes(p, e) => Owes(p, e)')
    BY <1>1, <1>2, <2>1, OthersOwe, OweKept
  <2>2. CASE faults' = faults + 1
    BY <1>2, <2>2, OthersOwe, OweLost
  <2>3. QED
    BY <2>1, <2>2
<1>3. QED
  BY <1>2, OthersOwe DEF OweInv, Others

LEMMA OweInit ==
  ASSUME Init, Sound
  PROVE  OweInv
<1>1. floor = Default /\ faults = 0 /\ \A p \in Processes : pass[p].at = "due"
  BY DEF Init
<1>2. ASSUME NEW e \in Events, Near(e) PROVE MostOwe(e)
  <2>1. {p \in Processes : ~Owes(p, e)} = {}
    BY <1>1, <1>2 DEF Owes
  <2>2. QED
    BY <1>1, <2>1, FS_EmptySet DEF MostOwe
<1>3. QED
  BY <1>1, <1>2 DEF OweInv

LEMMA OweTick ==
  ASSUME Sound, OweInv, Tick
  PROVE  OweInv'
<1> USE DEF Sound
<1>1. /\ now \in Nat /\ now' = now + 1
      /\ \A p \in Processes : pass[p].at = "done" /\ ~Busy(p) /\ pass'[p].at = "due"
      /\ UNCHANGED <<start, floor, scaled, faults>>
  BY TickIs
<1>2. faults \in Nat /\ \A e \in Events : start[e] \in Nat
  BY ProcessesAssumption, TimeAssumption DEF TypeOK
<1>3. \A p \in Processes, e \in Events : Owes(p, e) => Owes(p, e)'
  BY <1>1 DEF Owes
<1>4. ASSUME NEW e \in Events, Near(e)' PROVE MostOwe(e)'
  <2>1. \A p \in Processes : Owes(p, e)'
    BY <1>1, <1>4 DEF Owes
  <2>2. {p \in Processes : ~Owes(p, e)'} = {}
    BY <2>1
  <2>3. QED
    BY <1>1, <1>2, <2>2, FS_EmptySet DEF MostOwe
<1>5. ASSUME floor' # Default
      PROVE  \E e \in Events : start'[e] <= now' + Window /\ MostOwe(e)'
  <2>1. PICK e \in Events : start[e] <= now + Window /\ MostOwe(e)
    BY <1>1, <1>5 DEF OweInv
  <2>2. MostOwe(e)'
    BY <1>1, <1>2, <1>3, <2>1, OweKept
  <2>3. start'[e] <= now' + Window
    BY <1>1, <1>2, <2>1, TimeAssumption
  <2>4. QED
    BY <2>2, <2>3
<1>6. QED
  BY <1>4, <1>5 DEF OweInv

\* the last look at an event comes after its opening
LEMMA OverIsNotNear ==
  ASSUME TypeOK, NEW e \in Events, NEW f \in Events, now >= start[e] + After, Near(f)
  PROVE  f # e /\ now < start[f] + After
<1>1. now \in Nat /\ start[e] \in Nat /\ start[f] \in Nat
  BY TimeAssumption DEF TypeOK
<1>2. QED
  BY <1>1, TimeAssumption DEF Near

LEMMA OweStepOfPass ==
  ASSUME Sound, OweInv, NEW p \in Processes,
         \/ StartPass(p) \/ PlanFails(p) \/ Raise(p) \/ RaiseFails(p) \/ EndScale(p)
         \/ Crash(p)
         \/ \E e \in Events : Plan(p, e)
         \/ \E e \in Events : Restore(p, e) \/ RestoreFails(p, e)
  PROVE  OweInv'
<1>0. TypeOK /\ PassOK(p) /\ faults \in Nat /\ now \in Nat /\ \A e \in Events : start[e] \in Nat
  BY ProcessesAssumption, TimeAssumption DEF Sound, PassesOK, TypeOK
<1>1. CASE StartPass(p)
  <2>1. /\ Others(p) /\ UNCHANGED <<floor, scaled, faults, call>>
        /\ pass'[p].at = "scale" /\ pass'[p].todo = Upcoming(p) /\ pass[p].at = "due"
    BY <1>1, StartPassIs
  <2>2. ASSUME NEW e \in Events, Owes(p, e) PROVE Owes(p, e)'
    BY <1>0, <2>1, <2>2 DEF Owes, Others, Upcoming, Near, PassOK, Busy
  <2>3. QED
    BY <1>0, <2>1, <2>2, OweStep
<1>2. CASE PlanFails(p) \/ RaiseFails(p)
  BY <1>0, <1>2, PlanFailsIs, RaiseFailsIs, OweStep
<1>3. CASE Crash(p)
  BY <1>0, <1>3, CrashIs, OweStep
<1>4. CASE Raise(p)
  <2>0. PICK g \in Events : g = call[Looks(p)].event
    BY <1>4, RaiseIs
  <2>1. /\ Others(p) /\ pass[p].at = "scale" /\ Near(g)
        /\ scaled'[p] = scaled[p] \cup {g} /\ UNCHANGED <<pass, faults>>
    BY <1>4, <2>0, RaiseIs
  <2>2. ASSUME NEW e \in Events, Owes(p, e) PROVE Owes(p, e)'
    <3>1. start' = start /\ now' = now
      BY <2>1 DEF Others
    <3>2. CASE e \in scaled[p] \/ e = g
      BY <2>1, <3>2 DEF Owes
    <3>3. CASE Near(e) /\ e \in pass[p].todo
      BY <2>1, <3>1, <3>3 DEF Owes, Near
    <3>4. QED
      BY <2>0, <2>1, <2>2, <3>2, <3>3 DEF Owes
  <2>3. \A e \in Events : MostOwe(e) => MostOwe(e)'
    BY <1>0, <2>1, <2>2, OthersOwe, OweKept
  <2>4. MostOwe(g)' /\ start'[g] <= now' + Window
    BY <2>1, <2>3 DEF OweInv, Others, Near
  <2>5. \A e \in Events : Near(e)' => MostOwe(e)'
    BY <2>1, <2>3, OthersOwe DEF OweInv
  <2>6. QED
    BY <2>1, <2>4, <2>5 DEF OweInv
<1>5. CASE EndScale(p)
  <2>1. /\ Others(p) /\ UNCHANGED <<floor, scaled, faults, call>>
        /\ pass[p].at = "scale" /\ pass[p].todo = {} /\ ~Busy(p)
        /\ pass'[p].at = IF Opened(p) = {} THEN "done" ELSE "restore"
    BY <1>5, EndScaleIs
  <2>2. ASSUME NEW e \in Events, Owes(p, e) PROVE Owes(p, e)'
    <3>1. e \in scaled[p]
      BY <2>1, <2>2 DEF Owes
    <3>2. start' = start /\ now' = now /\ scaled' = scaled
      BY <2>1 DEF Others
    <3>3. now < start[e] + After \/ pass'[p].at # "done"
      BY <1>0, <2>1, <3>1, TimeAssumption DEF Opened
    <3>4. QED
      BY <3>1, <3>2, <3>3 DEF Owes
  <2>3. QED
    BY <1>0, <2>1, <2>2, OweStep
<1>6. ASSUME NEW f \in Events, Plan(p, f) PROVE OweInv'
  <2>1. /\ Others(p) /\ UNCHANGED <<floor, scaled, faults>> /\ ~Busy(p) /\ Busy(p)'
        /\ pass[p].at = "scale" /\ pass'[p].at = "scale" /\ call'[Looks(p)].event = f
        /\ pass'[p].todo = pass[p].todo \ {f}
    BY <1>6, PlanIs
  <2>2. ASSUME NEW e \in Events, Owes(p, e) PROVE Owes(p, e)'
    BY <2>1, <2>2 DEF Owes, Others, Near
  <2>3. QED
    BY <1>0, <2>1, <2>2, OweStep
<1>7. ASSUME NEW f \in Events, Restore(p, f) \/ RestoreFails(p, f) PROVE OweInv'
  <2>1. /\ Others(p) /\ f \in Opened(p) /\ pass[p].at = "restore" /\ scaled'[p] = scaled[p] \ {f}
        /\ UNCHANGED call
        /\ \/ floor' = Default /\ faults' = faults
           \/ floor' = floor /\ faults' = faults + 1
    BY <1>7, RestoreIs
  <2>2. CASE floor' = floor /\ faults' = faults + 1
    BY <1>0, <2>1, <2>2, OweStep
  <2>3. CASE floor' = Default /\ faults' = faults
    <3>1. ASSUME NEW e \in Events, Near(e) PROVE MostOwe(e)'
      <4>1. e # f /\ now < start[e] + After
        BY <1>0, <2>1, <3>1, OverIsNotNear DEF Opened
      <4>2. Owes(p, e) => Owes(p, e)'
        <5>1. ASSUME Owes(p, e) PROVE e \in scaled[p]
          BY <1>0, <2>1, <5>1 DEF Owes, PassOK, Busy
        <5>2. start' = start /\ now' = now
          BY <2>1 DEF Others
        <5>3. QED
          BY <2>1, <4>1, <5>1, <5>2 DEF Owes
      <4>3. QED
        BY <1>0, <2>1, <2>3, <3>1, <4>2, OthersOwe, OweKept DEF OweInv
    <3>2. QED
      BY <2>1, <2>3, <3>1, OthersOwe DEF OweInv
  <2>4. QED
    BY <2>1, <2>2, <2>3
<1>8. QED
  BY <1>1, <1>2, <1>3, <1>4, <1>5, <1>6, <1>7

LEMMA OweAside ==
  ASSUME Sound, OweInv, AsideStep
  PROVE  OweInv'
<1>1. Aside /\ TypeOK
  BY AsideIs DEF Sound
<1>2. /\ start' = start /\ now' = now /\ floor' = floor /\ scaled' = scaled /\ pass' = pass
      /\ faults' \in Nat /\ faults <= faults'
  BY <1>1 DEF Aside, scaling
<1>3. \A p \in Processes, e \in Events : Owes(p, e) => Owes(p, e)'
  BY <1>1, <1>2 DEF Aside, Owes, Near, Busy
<1>4. \A e \in Events : (Near(e)' <=> Near(e)) /\ (MostOwe(e) => MostOwe(e)')
  BY <1>1, <1>2, <1>3, OweKept DEF Near
<1>5. QED
  BY <1>2, <1>4 DEF OweInv

LEMMA OweInvariant == Spec => [](Sound /\ OweInv)
<1>1. Init => Sound /\ OweInv
  BY SoundInit, OweInit
<1>2. Sound /\ OweInv /\ [Next]_vars => (Sound /\ OweInv)'
  <2> SUFFICES ASSUME Sound, OweInv, [Next]_vars PROVE Sound' /\ OweInv'
    OBVIOUS
  <2>1. Sound'
    BY SoundStep
  <2>2. OweInv'
    BY StepsAre, OweAside, OweTick, OweStepOfPass
  <2>3. QED
    BY <2>1, <2>2
<1>3. QED
  BY <1>1, <1>2, PTL DEF Spec

\* The minimum is back at its default once the events are over and the passes are
\* through, as long as fewer things failed than there are processes: each fault makes
\* one process at most forget an event it scaled for.
THEOREM GivesBack == Spec => []BackToDefault
<1>1. ASSUME Sound, OweInv PROVE BackToDefault
  <2> SUFFICES ASSUME \A p \in Processes : pass[p].at = "done",
                      \A e \in Events : now + Window < start[e] \/ now >= start[e] + After,
                      faults < Cardinality(Processes), floor # Default
               PROVE  FALSE
    BY DEF BackToDefault
  <2>1. /\ faults \in Nat /\ now \in Nat /\ \A e \in Events : start[e] \in Nat
        /\ \A p \in Processes : PassOK(p)
    BY <1>1, ProcessesAssumption, TimeAssumption DEF Sound, PassesOK, TypeOK
  <2>2. PICK e \in Events : start[e] <= now + Window /\ MostOwe(e)
    BY <1>1 DEF OweInv
  <2>3. now >= start[e] + After /\ ~Near(e)
    BY <2>1, <2>2, TimeAssumption DEF Near
  <2>4. \A p \in Processes : ~Owes(p, e)
    BY <2>1, <2>3, TimeAssumption DEF Owes
  <2>5. {p \in Processes : ~Owes(p, e)} = Processes
    BY <2>4
  <2>6. Cardinality(Processes) <= faults /\ Cardinality(Processes) \in Nat
    BY <2>2, <2>5, ProcessesAssumption, FS_CardinalityType DEF MostOwe
  <2>7. QED
    BY <2>1, <2>6
<1>2. QED
  BY <1>1, OweInvariant, PTL

-----------------------------------------------------------------------------
(* An event is ready.                                                      *)

\* the moment an event that opens at s is near for the first time, and how many passes
\* can plan it from then on
First(s)   == IF s >= Window THEN s - Window ELSE 0
Chances(s) == Cardinality(Processes) * (s - Lead - First(s) + 1)

\* from the first look at the event to its opening
Within(e) == start[e] <= now + Window /\ now <= start[e]

\* the processes whose pass in this unit of time is past the event
Missed(e) == {p \in Processes : /\ pass[p].at # "due" /\ e \notin pass[p].todo
                                /\ ~(Busy(p) /\ call[Looks(p)].event = e)}

\* what is remembered has been near
Seen == \A p \in Processes : \A f \in scaled[p] : start[f] <= now + Window

\* just before the event is near, every pass forgets all others
Clear(e) ==
  start[e] = now + Window + 1 =>
    \A p \in Processes : pass[p].at = "done" => scaled[p] = {}

\* then nothing else is scaled for, and once it is, the floor is high enough
Only(e) ==
  Within(e) => \A p \in Processes : /\ scaled[p] \subseteq {e}
                                    /\ e \in scaled[p] => floor >= Least(e)

\* until it is, every pass that is over has cost a fault
Tried(e) ==
  Within(e) /\ floor < Least(e) =>
    IF now + Lead <= start[e]
    THEN faults >= Cardinality(Processes) * (now - First(start[e])) + Cardinality(Missed(e))
    ELSE faults >= Chances(start[e])

Prepared(e) == Clear(e) /\ Only(e) /\ Tried(e)

ReadyInv == Seen /\ \A e \in Events : Alone(e) /\ start[e] >= Lead => Prepared(e)

LEMMA Times ==
  ASSUME TypeOK
  PROVE  /\ now \in Nat /\ faults \in Nat /\ floor \in Nat /\ \A e \in Events : start[e] \in Nat
         /\ Lead \in Nat \ {0} /\ Window \in Nat /\ After \in Nat \ {0} /\ Lead <= Window
BY ProcessesAssumption, TimeAssumption DEF TypeOK, Default, Cap

LEMMA AloneIs ==
  ASSUME TypeOK, NEW e \in Events, NEW f \in Events, f # e, Alone(e),
         start[e] <= now + Window + 1, now <= start[e]
  PROVE  /\ ~Near(f)
         /\ start[f] <= now + Window /\ start[e] = now + Window + 1 => start[f] + After <= now
         /\ start[f] <= now + Window /\ Within(e) => start[f] + After < now
<1>1. \/ start[f] + After < start[e] - Window
      \/ start[f] - Window > start[e]
  BY DEF Alone
<1>2. QED
  BY <1>1, Times DEF Near, Within

LEMMA MissedIs ==
  ASSUME NEW e \in Events
  PROVE  Missed(e) \in SUBSET Processes /\ Cardinality(Missed(e)) \in Nat
         /\ Cardinality(Processes) \in Nat
<1>1. Missed(e) \in SUBSET Processes
  BY DEF Missed
<1>2. QED
  BY <1>1, ProcessesAssumption, FS_Subset, FS_CardinalityType

LEMMA SeenStep ==
  ASSUME Sound, Seen, [Next]_vars
  PROVE  Seen'
<1>0. TypeOK /\ now \in Nat /\ Window \in Nat /\ \A e \in Events : start[e] \in Nat
  BY Times DEF Sound
<1>00. \A p \in Processes : scaled[p] \subseteq Events
  BY <1>0 DEF TypeOK
<1>1. CASE AsideStep
  BY <1>1, AsideIs DEF Seen, Aside, scaling
<1>2. CASE Tick
  BY <1>0, <1>00, <1>2, TickIs DEF Seen
<1>3. ASSUME NEW p \in Processes, Others(p),
             scaled'[p] \subseteq scaled[p] \cup {f \in Events : Near(f)}
      PROVE  Seen'
  BY <1>3 DEF Seen, Others, Near
<1>4. ASSUME NEW p \in Processes,
             \/ StartPass(p) \/ PlanFails(p) \/ Raise(p) \/ RaiseFails(p) \/ EndScale(p)
             \/ Crash(p)
      PROVE  Seen'
  <2>1. CASE StartPass(p) \/ PlanFails(p) \/ RaiseFails(p) \/ EndScale(p)
    <3>1. Others(p) /\ scaled' = scaled
      BY <2>1, StartPassIs, PlanFailsIs, RaiseFailsIs, EndScaleIs
    <3>2. QED
      BY <1>3, <3>1
  <2>2. CASE Raise(p)
    <3>1. PICK g \in Events : /\ Others(p) /\ Near(g)
                              /\ scaled'[p] = scaled[p] \cup {g}
      BY <2>2, RaiseIs
    <3>2. QED
      BY <1>3, <3>1
  <2>3. CASE Crash(p)
    <3>1. Others(p) /\ scaled'[p] = {}
      BY <2>3, CrashIs
    <3>2. QED
      BY <1>3, <3>1
  <2>4. QED
    BY <1>4, <2>1, <2>2, <2>3
<1>5. ASSUME NEW p \in Processes, NEW e \in Events, Plan(p, e) PROVE Seen'
  <2>1. Others(p) /\ scaled' = scaled
    BY <1>5, PlanIs
  <2>2. QED
    BY <1>3, <2>1
<1>6. ASSUME NEW p \in Processes, NEW e \in Events, Restore(p, e) \/ RestoreFails(p, e)
      PROVE  Seen'
  <2>1. Others(p) /\ scaled'[p] = scaled[p] \ {e}
    BY <1>6, RestoreIs
  <2>2. QED
    BY <1>3, <2>1
<1>7. QED
  BY <1>1, <1>2, <1>4, <1>5, <1>6, StepsAre

\* a step of p that scales for nothing new keeps the event prepared, provided a pass
\* that gets past the event without scaling for it costs a fault
LEMMA PreparedStep ==
  ASSUME TypeOK, NEW e \in Events, Prepared(e), NEW p \in Processes, Others(p),
         scaled'[p] \subseteq scaled[p],
         Within(e) => floor' = floor,
         start[e] = now + Window + 1 /\ pass'[p].at = "done" => scaled'[p] = {},
         \/ faults' = faults + 1
         \/ /\ faults' = faults
            /\ Within(e) /\ now + Lead <= start[e] /\ floor < Least(e) /\ p \in Missed(e)' =>
                 p \in Missed(e)
  PROVE  Prepared(e)'
<1>0. /\ start' = start /\ now' = now /\ faults \in Nat
      /\ \A q \in Processes \ {p} : pass'[q] = pass[q] /\ scaled'[q] = scaled[q]
  BY Times DEF Others
<1>1. Clear(e)'
  BY <1>0 DEF Prepared, Clear
<1>2. Only(e)'
  <2> SUFFICES ASSUME Within(e), NEW q \in Processes
               PROVE  scaled'[q] \subseteq {e} /\ (e \in scaled'[q] => floor' >= Least(e))
    BY <1>0 DEF Only, Within, Least
  <2>1. scaled[q] \subseteq {e} /\ (e \in scaled[q] => floor >= Least(e))
    BY DEF Prepared, Only
  <2>2. scaled'[q] \subseteq scaled[q] /\ floor' = floor
    BY <1>0
  <2>3. QED
    BY <2>1, <2>2
<1>3. Tried(e)'
  <2> SUFFICES ASSUME Within(e), floor' < Least(e)
               PROVE  IF now + Lead <= start[e]
                      THEN faults' >= Cardinality(Processes) * (now - First(start[e]))
                                        + Cardinality(Missed(e)')
                      ELSE faults' >= Chances(start[e])
    BY <1>0 DEF Tried, Within, Least, Chances, First, Missed
  <2>1. floor < Least(e) /\ Tried(e)
    BY DEF Prepared
  <2>2. CASE now + Lead <= start[e]
    <3> DEFINE n == Cardinality(Processes) * (now - First(start[e]))
    <3>1. faults >= n + Cardinality(Missed(e))
      BY <2>1, <2>2 DEF Tried
    <3>2. /\ Missed(e) \in SUBSET Processes /\ Missed(e)' \in SUBSET Processes
          /\ \A q \in Processes \ {p} : q \in Missed(e)' => q \in Missed(e)
      BY <1>0 DEF Missed, Busy, Others
    <3>3. n \in Int
      BY Times, MissedIs DEF First
    <3> HIDE DEF n
    <3>4. CASE faults' = faults + 1
      <4>1. Missed(e)' \subseteq Missed(e) \cup {p}
        BY <3>2
      <4>2. Cardinality(Missed(e)') <= Cardinality(Missed(e)) + 1
            /\ Cardinality(Missed(e)') \in Nat /\ Cardinality(Missed(e)) \in Nat
        BY <3>2, <4>1, Counted
      <4>3. QED
        BY <1>0, <2>2, <3>1, <3>3, <3>4, <4>2 DEF n
    <3>5. CASE faults' = faults /\ (p \in Missed(e)' => p \in Missed(e))
      <4>1. Missed(e)' \subseteq Missed(e)
        BY <3>2, <3>5
      <4>2. Cardinality(Missed(e)') <= Cardinality(Missed(e))
            /\ Cardinality(Missed(e)') \in Nat /\ Cardinality(Missed(e)) \in Nat
        BY <3>2, <4>1, Counted
      <4>3. QED
        BY <1>0, <2>2, <3>1, <3>3, <3>5, <4>2 DEF n
    <3>6. QED
      BY <2>1, <2>2, <3>4, <3>5
  <2>3. CASE ~(now + Lead <= start[e])
    <3>1. faults >= Chances(start[e])
      BY <2>1, <2>3 DEF Tried
    <3>2. Chances(start[e]) \in Int
      BY Times, MissedIs DEF Chances, First
    <3>3. QED
      BY <1>0, <2>3, <3>1, <3>2
  <2>4. QED
    BY <2>2, <2>3
<1>4. QED
  BY <1>1, <1>2, <1>3 DEF Prepared

LEMMA PreparedAside ==
  ASSUME Sound, NEW e \in Events, Prepared(e), AsideStep
  PROVE  Prepared(e)'
<1>1. Aside /\ TypeOK
  BY AsideIs DEF Sound
<1>2. /\ start' = start /\ now' = now /\ floor' = floor /\ scaled' = scaled /\ pass' = pass
      /\ faults' \in Nat /\ faults <= faults' /\ faults \in Nat
  BY <1>1, Times DEF Aside, scaling
<1>3. Missed(e)' = Missed(e)
  BY <1>1, <1>2 DEF Aside, Missed, Busy
<1>4. Clear(e)' /\ Only(e)'
  BY <1>2 DEF Prepared, Clear, Only, Within, Least
<1>5. Tried(e)'
  <2> DEFINE n == Cardinality(Processes) * (now - First(start[e]))
             c == Chances(start[e])
             m == Cardinality(Missed(e))
  <2>1. n \in Int /\ c \in Int /\ m \in Nat
    BY <1>1, Times, MissedIs DEF First, Chances
  <2>2. Within(e) /\ floor < Least(e) =>
          IF now + Lead <= start[e] THEN faults >= n + m ELSE faults >= c
    BY DEF Prepared, Tried
  <2> HIDE DEF n, m, c
  <2>3. Within(e) /\ floor < Least(e) =>
          IF now + Lead <= start[e] THEN faults' >= n + m ELSE faults' >= c
    BY <1>2, <2>1, <2>2
  <2>4. QED
    BY <1>2, <1>3, <2>3 DEF Tried, Within, Least, First, Chances, n, m, c
<1>6. QED
  BY <1>4, <1>5 DEF Prepared

LEMMA PreparedTick ==
  ASSUME Sound, NEW e \in Events, Prepared(e), start[e] >= Lead, Tick
  PROVE  Prepared(e)'
<1>0. TypeOK /\ Least(e) \in Nat
  BY LeastIs DEF Sound
<1>1. /\ now' = now + 1
      /\ \A p \in Processes : pass[p].at = "done" /\ ~Busy(p) /\ pass'[p].at = "due"
      /\ \A p \in Processes : pass[p].todo = {}
      /\ UNCHANGED <<start, floor, scaled, faults>>
  BY TickIs DEF Sound, PassesOK, PassOK
<1>2. Clear(e)'
  BY <1>1 DEF Clear
<1>3. CASE ~Within(e)'
  BY <1>2, <1>3 DEF Prepared, Only, Tried
<1>4. CASE Within(e)' /\ start[e] = now + Window + 1
  <2>1. \A p \in Processes : scaled'[p] = {}
    BY <1>1, <1>4 DEF Prepared, Clear
  <2>2. Only(e)'
    BY <2>1 DEF Only
  <2>3. First(start[e]) = now + 1 /\ now + 1 + Lead <= start[e]
    BY <1>0, <1>4, Times DEF First
  <2>4. Missed(e)' = {}
    BY <1>1 DEF Missed
  <2>5. faults >= Cardinality(Processes) * ((now + 1) - First(start[e])) + Cardinality(Missed(e)')
    <3>1. (now + 1) - First(start[e]) = 0
      BY <1>0, <2>3, Times
    <3>2. Cardinality(Missed(e)') = 0
      BY <2>4, FS_EmptySet
    <3>3. QED
      BY <1>0, <3>1, <3>2, Times, MissedIs
  <2>6. Tried(e)'
    BY <1>1, <2>3, <2>5 DEF Tried, First
  <2>7. QED
    BY <1>2, <2>2, <2>6 DEF Prepared
<1>5. CASE Within(e)' /\ start[e] # now + Window + 1
  <2>1. Within(e)
    BY <1>0, <1>1, <1>5, Times DEF Within
  <2>2. Only(e)'
    BY <1>1, <2>1 DEF Prepared, Only, Least
  <2>3. Missed(e)' = {} /\ Missed(e) = Processes
    BY <1>1 DEF Missed
  <2>4. PICK N \in Nat : N = Cardinality(Processes)
    BY MissedIs
  <2>5. PICK k \in Nat : k = now - First(start[e])
    BY <1>0, <2>1, Times DEF First, Within
  <2>6. N * (k + 1) = N * k + N /\ N * k \in Nat
    OBVIOUS
  <2>7. ASSUME floor < Least(e), now + 1 + Lead <= start[e]
        PROVE  faults >= N * (k + 1)
    <3>1. faults >= N * k + N
      BY <1>0, <2>1, <2>3, <2>4, <2>5, <2>7, Times DEF Prepared, Tried
    <3>2. QED
      BY <2>6, <3>1
  <2>8. ASSUME floor < Least(e), ~(now + 1 + Lead <= start[e])
        PROVE  faults >= Chances(start[e])
    <3>1. CASE now + Lead <= start[e]
      <4>1. faults >= N * k + N
        BY <2>1, <2>3, <2>4, <2>5, <2>8, <3>1 DEF Prepared, Tried
      <4>2. start[e] - Lead - First(start[e]) + 1 = k + 1
        BY <1>0, <2>5, <2>8, <3>1, Times DEF First
      <4>3. Chances(start[e]) = N * (k + 1)
        BY <2>4, <4>2 DEF Chances
      <4>4. QED
        BY <2>6, <4>1, <4>3
    <3>2. CASE ~(now + Lead <= start[e])
      BY <2>1, <2>8, <3>2 DEF Prepared, Tried
    <3>3. QED
      BY <3>1, <3>2
  <2>9. Tried(e)'
    <3>1. Cardinality(Missed(e)') = 0
      BY <2>3, FS_EmptySet
    <3>2. (now + 1) - First(start[e]) = k + 1
      BY <1>0, <2>5, Times DEF First
    <3>3. /\ start' = start
          /\ Cardinality(Processes)' = Cardinality(Processes)
          /\ First(start[e])' = First(start[e]) /\ Chances(start[e])' = Chances(start[e])
      BY <1>1 DEF First, Chances
    <3>4. ASSUME floor' < Least(e)
          PROVE  IF now' + Lead <= start[e]
                 THEN faults' >= N * (now' - First(start[e])) + 0
                 ELSE faults' >= Chances(start[e])
      <4>1. floor < Least(e) /\ now' = now + 1 /\ faults' = faults
        BY <1>1, <3>4
      <4>2. CASE now + 1 + Lead <= start[e]
        <5>0. faults >= N * (k + 1)
          BY <2>7, <4>1, <4>2
        <5>1. now' - First(start[e]) = k + 1
          BY <3>2, <4>1
        <5>2. faults' >= N * (now' - First(start[e])) + 0
          BY <2>6, <4>1, <5>0, <5>1
        <5>3. QED
          BY <4>1, <4>2, <5>2
      <4>3. CASE ~(now + 1 + Lead <= start[e])
        BY <2>8, <4>1, <4>3
      <4>4. QED
        BY <4>2, <4>3
    <3>5. QED
      BY <2>4, <3>1, <3>3, <3>4 DEF Tried
  <2>10. QED
    BY <1>2, <2>2, <2>9 DEF Prepared
<1>6. QED
  BY <1>3, <1>4, <1>5

LEMMA PreparedPass ==
  ASSUME Sound, Seen, NEW e \in Events, Alone(e), start[e] >= Lead, Prepared(e),
         NEW p \in Processes,
         \/ StartPass(p) \/ PlanFails(p) \/ Raise(p) \/ RaiseFails(p) \/ EndScale(p)
         \/ Crash(p)
         \/ \E f \in Events : Plan(p, f)
         \/ \E f \in Events : Restore(p, f) \/ RestoreFails(p, f)
  PROVE  Prepared(e)'
<1>0. /\ TypeOK /\ PassOK(p) /\ scaled[p] \subseteq Events /\ pass[p].todo \subseteq Events
      /\ Least(e) \in Nat
  BY LeastIs DEF Sound, PassesOK, TypeOK, Passes
\* just before the event is near there is nothing to plan, and all that is remembered
\* is over
<1>1. ASSUME start[e] = now + Window + 1
      PROVE  /\ \A f \in Events : ~Near(f)
             /\ \A f \in scaled[p] : f \in Opened(p)
  <2>1. now <= start[e] /\ start[e] <= now + Window + 1 /\ ~Near(e)
    BY <1>0, <1>1, Times DEF Near
  <2>2. \A f \in scaled[p] : start[f] <= now + Window /\ f # e
    BY <1>0, <1>1, Times DEF Seen
  <2>3. \A f \in scaled[p] : start[f] + After <= now
    BY <1>0, <1>1, <2>1, <2>2, AloneIs
  <2>4. QED
    BY <1>0, <2>1, <2>3, AloneIs, Times DEF Opened
<1>2. CASE StartPass(p)
  <2>1. /\ Others(p) /\ UNCHANGED <<floor, scaled, faults, call>>
        /\ pass'[p].at = "scale" /\ pass'[p].todo = Upcoming(p)
    BY <1>2, StartPassIs
  <2>2. ASSUME Within(e), now + Lead <= start[e], floor < Least(e) PROVE p \notin Missed(e)'
    <3>1. e \notin scaled[p]
      BY <1>0, <2>2, Times DEF Prepared, Only
    <3>2. e \in Upcoming(p)
      BY <1>0, <2>2, <3>1, Times DEF Upcoming, Within
    <3>3. QED
      BY <2>1, <3>2 DEF Missed
  <2>3. QED
    BY <1>0, <2>1, <2>2, PreparedStep
<1>3. CASE PlanFails(p)
  <2>1. /\ Others(p) /\ UNCHANGED <<floor, scaled, call>> /\ faults' = faults + 1
        /\ pass[p].at = "scale" /\ pass[p].todo # {}
    BY <1>3, PlanFailsIs
  <2>2. start[e] # now + Window + 1
    BY <1>0, <1>1, <2>1 DEF PassOK
  <2>3. QED
    BY <1>0, <2>1, <2>2, PreparedStep
<1>4. CASE RaiseFails(p)
  <2>1. Others(p) /\ UNCHANGED <<floor, scaled, pass>> /\ faults' = faults + 1
    BY <1>4, RaiseFailsIs
  <2>2. start[e] = now + Window + 1 /\ pass'[p].at = "done" => scaled'[p] = {}
    BY <2>1 DEF Prepared, Clear
  <2>3. QED
    BY <1>0, <2>1, <2>2, PreparedStep
<1>5. CASE Crash(p)
  <2>1. Others(p) /\ scaled'[p] = {} /\ faults' = faults + 1 /\ floor' = floor
    BY <1>5, CrashIs
  <2>2. QED
    BY <1>0, <2>1, PreparedStep
<1>6. CASE EndScale(p)
  <2>1. /\ Others(p) /\ UNCHANGED <<floor, scaled, faults, call>>
        /\ pass[p].at = "scale" /\ pass[p].todo = {} /\ ~Busy(p)
        /\ pass'[p].at = IF Opened(p) = {} THEN "done" ELSE "restore"
    BY <1>6, EndScaleIs
  <2>2. start[e] = now + Window + 1 /\ pass'[p].at = "done" => scaled'[p] = {}
    BY <1>1, <2>1
  <2>3. p \in Missed(e)
    BY <2>1 DEF Missed
  <2>4. QED
    BY <1>0, <2>1, <2>2, <2>3, PreparedStep
<1>7. CASE Raise(p)
  <2>1. PICK g \in Events : /\ g = call[Looks(p)].event
                            /\ Others(p) /\ Near(g) /\ scaled'[p] = scaled[p] \cup {g}
                            /\ floor' >= Least(g) /\ UNCHANGED <<pass, faults>>
    BY <1>7, RaiseIs
  <2>2. start' = start /\ now' = now /\ \A q \in Processes \ {p} : scaled'[q] = scaled[q]
    BY <2>1 DEF Others
  <2>3. Clear(e)'
    BY <1>1, <2>1, <2>2 DEF Clear
  <2>4. CASE Within(e)
    <3>1. g = e
      BY <1>0, <2>1, <2>4, AloneIs, Times DEF Within
    <3>2. Only(e)'
      <4>1. \A q \in Processes : scaled[q] \subseteq {e}
        BY <2>4 DEF Prepared, Only
      <4>2. \A q \in Processes : scaled'[q] \subseteq {e}
        BY <2>1, <2>2, <3>1, <4>1
      <4>3. QED
        BY <2>1, <3>1, <4>2 DEF Only
    <3>3. ~(floor' < Least(e))
      <4>1. floor' \in Nat
        BY <1>7, RaiseIs DEF Sound, TypeOK, Default, Cap
      <4>2. QED
        BY <1>0, <2>1, <3>1, <4>1
    <3>4. Tried(e)'
      BY <3>3 DEF Tried
    <3>5. QED
      BY <2>3, <3>2, <3>4 DEF Prepared
  <2>5. CASE ~Within(e)
    <3>1. ~Within(e)'
      BY <2>2, <2>5 DEF Within
    <3>2. QED
      BY <2>3, <3>1 DEF Prepared, Only, Tried
  <2>6. QED
    BY <2>4, <2>5
<1>8. ASSUME NEW f \in Events, Plan(p, f) PROVE Prepared(e)'
  <2>1. /\ Others(p) /\ UNCHANGED <<floor, scaled, faults>> /\ ~Busy(p) /\ Busy(p)'
        /\ pass[p].at = "scale" /\ pass'[p].at = "scale" /\ call'[Looks(p)].event = f
        /\ pass'[p].todo = pass[p].todo \ {f}
    BY <1>8, PlanIs
  <2>2. p \in Missed(e)' => p \in Missed(e)
    BY <2>1 DEF Missed
  <2>3. QED
    BY <1>0, <2>1, <2>2, PreparedStep
<1>9. ASSUME NEW f \in Events, Restore(p, f) \/ RestoreFails(p, f) PROVE Prepared(e)'
  <2>1. /\ Others(p) /\ pass[p].at = "restore" /\ f \in Opened(p)
        /\ pass'[p].todo = pass[p].todo \ {f} /\ scaled'[p] = scaled[p] \ {f}
        /\ faults' = faults \/ faults' = faults + 1
        /\ Sound'
    BY <1>9, RestoreIs
  <2>2. ~Within(e)
    <3>1. ASSUME Within(e) PROVE f = e
      BY <2>1, <3>1 DEF Prepared, Only, Opened
    <3>2. QED
      BY <1>0, <2>1, <3>1, Times DEF Within, Opened
  <2>3. ASSUME start[e] = now + Window + 1, pass'[p].at = "done" PROVE scaled'[p] = {}
    <3>1. pass'[p].todo = {}
      BY <2>1, <2>3 DEF Sound, PassesOK, PassOK
    <3>2. pass[p].todo = Opened(p) /\ scaled[p] \subseteq Opened(p)
      BY <1>0, <1>1, <2>1, <2>3 DEF PassOK
    <3>3. QED
      BY <2>1, <3>1, <3>2
  <2>4. QED
    BY <1>0, <2>1, <2>2, <2>3, PreparedStep
<1>10. QED
  BY <1>2, <1>3, <1>4, <1>5, <1>6, <1>7, <1>8, <1>9

LEMMA ReadyInit ==
  ASSUME Init, Sound
  PROVE  ReadyInv
<1>0. /\ TypeOK /\ now = 0 /\ faults = 0 /\ \A p \in Processes : pass[p].at = "due"
      /\ \A p \in Processes : scaled[p] = {}
  BY DEF Init, Sound
<1>1. Seen
  BY <1>0 DEF Seen
<1>2. ASSUME NEW e \in Events, start[e] >= Lead PROVE Prepared(e)
  <2>1. Clear(e) /\ Only(e)
    BY <1>0 DEF Clear, Only
  <2>2. ASSUME Within(e)
        PROVE  /\ now + Lead <= start[e]
               /\ faults >= Cardinality(Processes) * (now - First(start[e]))
                              + Cardinality(Missed(e))
    <3>1. now - First(start[e]) = 0 /\ now + Lead <= start[e]
      BY <1>0, <1>2, <2>2, Times DEF First, Within
    <3>2. Missed(e) = {}
      BY <1>0 DEF Missed
    <3>3. QED
      BY <1>0, <3>1, <3>2, FS_EmptySet, MissedIs
  <2>3. Tried(e)
    BY <2>2 DEF Tried
  <2>4. QED
    BY <2>1, <2>3 DEF Prepared
<1>3. QED
  BY <1>1, <1>2 DEF ReadyInv

LEMMA ReadyStep ==
  ASSUME Sound, ReadyInv, [Next]_vars
  PROVE  ReadyInv'
<1>1. Seen'
  BY SeenStep DEF ReadyInv
<1>2. start' = start
  BY StepsAre, AsideIs, TickIs, StartPassIs, PlanFailsIs, RaiseIs, RaiseFailsIs, EndScaleIs,
     CrashIs, PlanIs, RestoreIs DEF Aside, scaling, Others
<1>3. ASSUME NEW e \in Events, Alone(e)', start'[e] >= Lead PROVE Prepared(e)'
  <2>1. Alone(e) /\ start[e] >= Lead /\ Prepared(e) /\ Seen
    BY <1>2, <1>3 DEF Alone, ReadyInv
  <2>2. QED
    BY <2>1, StepsAre, PreparedAside, PreparedTick, PreparedPass
<1>4. QED
  BY <1>1, <1>3 DEF ReadyInv

LEMMA ReadyInvariant == Spec => [](Sound /\ ReadyInv)
<1>1. Init => Sound /\ ReadyInv
  BY SoundInit, ReadyInit
<1>2. Sound /\ ReadyInv /\ [Next]_vars => (Sound /\ ReadyInv)'
  BY SoundStep, ReadyStep
<1>3. QED
  BY <1>1, <1>2, PTL DEF Spec

\* An event that opens far enough from the others is ready, unless as many things have
\* failed by then as all processes together had passes to plan it in.
ReadyUnlessFaults ==
  \A e \in Events :
    now = start[e] /\ Alone(e) /\ start[e] >= Lead /\ faults < Chances(start[e]) =>
      floor >= Least(e)

THEOREM ReadyDespiteFaults == Spec => []ReadyUnlessFaults
<1>1. ASSUME Sound, ReadyInv PROVE ReadyUnlessFaults
  <2> SUFFICES ASSUME NEW e \in Events, now = start[e], Alone(e), start[e] >= Lead,
                      faults < Chances(start[e]), floor < Least(e)
               PROVE  FALSE
    BY <1>1, LeastIs, Times DEF ReadyUnlessFaults, Sound
  <2>1. TypeOK
    BY <1>1 DEF Sound
  <2>2. Within(e) /\ ~(now + Lead <= start[e])
    BY <2>1, Times DEF Within
  <2>3. faults >= Chances(start[e])
    BY <1>1, <2>2 DEF ReadyInv, Prepared, Tried
  <2>4. Chances(start[e]) \in Int
    BY <2>1, Times, MissedIs DEF Chances, First
  <2>5. QED
    BY <2>1, <2>3, <2>4, Times
<1>2. QED
  BY <1>1, ReadyInvariant, PTL

\* With fewer faults than passes, every event that opens far enough from the others
\* finds its pods asked for at its opening.
THEOREM OpensReady ==
  ASSUME \A st \in Openings : \A e \in Events :
           st[e] >= Lead /\ MaxFaults < Chances(st[e])
  PROVE  Spec => []Ready
<1>1. ASSUME TypeOK, ReadyUnlessFaults PROVE Ready
  <2> SUFFICES ASSUME NEW e \in Events, now = start[e], Alone(e)
               PROVE  floor >= Least(e)
    BY DEF Ready
  <2>1. start[e] >= Lead /\ MaxFaults < Chances(start[e])
    BY <1>1 DEF TypeOK
  <2>2. Chances(start[e]) \in Int /\ faults \in Nat /\ faults <= MaxFaults
    BY <1>1, Times, MissedIs, ProcessesAssumption DEF Chances, First, TypeOK
  <2>3. faults < Chances(start[e])
    BY <2>1, <2>2, ProcessesAssumption
  <2>4. QED
    BY <1>1, <2>1, <2>3 DEF ReadyUnlessFaults
<1>2. QED
  BY <1>1, PrescaleTypes, ReadyDespiteFaults, PTL
=============================================================================
