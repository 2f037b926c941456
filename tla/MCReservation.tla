--------------------------- MODULE MCReservation ---------------------------
(* Model values and bounds for the runs of Reservation.                    *)
EXTENDS Reservation, TLC

CONSTANTS e1, e2, odd

\* every seat belongs to the one event
OneEvent == [s \in Seats |-> e1]

\* one seat belongs to another event: a request may name seats of both
TwoEvents == [s \in Seats |-> IF s = odd THEN e2 ELSE e1]

\* interchangeable ids and workers; used by runs without liveness properties
Same == Permutations(Rids) \cup Permutations(Pids) \cup Permutations(Users)
          \cup Permutations(Handlers) \cup Permutations(Cleaners)
          \cup Permutations(Seats \ {odd})
=============================================================================
