----------------------------- MODULE MCPrescale -----------------------------
(* Instances of Prescale: one small and one large event. *)
EXTENDS Prescale, TLC

CONSTANTS p1, p2, e1, e2, x

PeakOf   == e1 :> 1200 @@ e2 :> 4800
SpreadOf == e1 :> 300 @@ e2 :> 700

\* far apart in either order, and close to each other
Apart == {e1 :> 2 @@ e2 :> 8}
Close == {e1 :> 2 @@ e2 :> 5}

\* what one process is asked: a forecast by a client, and a plan by the first join of a
\* queue, which may name any event id
Asked == {<<p1, "forecast", e1>>, <<p1, "plan", x>>}
=============================================================================
