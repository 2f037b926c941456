------------------------------ MODULE SeatSale ------------------------------
(***************************************************************************)
(* What core-api promises about seats, without locks, transactions or      *)
(* threads: a reservation takes a set of available seats in one step, and  *)
(* later either all of them become sold, for good, or all of them become   *)
(* available again and the reservation is over.                            *)
(***************************************************************************)
CONSTANTS Seats, Rids, Nobody

VARIABLES
  state,   \* available, hold or sold
  holder,  \* the reservation a seat is held or sold for
  ended    \* reservations that gave their seats back

sale == <<state, holder, ended>>

Of(r) == {s \in Seats : holder[s] = r}

Init ==
  /\ state  = [s \in Seats |-> "available"]
  /\ holder = [s \in Seats |-> Nobody]
  /\ ended  = {}

Take(r, S) ==
  /\ r \notin ended
  /\ S # {} /\ Of(r) = {}
  /\ \A s \in S : state[s] = "available" /\ holder[s] = Nobody
  /\ state'  = [s \in Seats |-> IF s \in S THEN "hold" ELSE state[s]]
  /\ holder' = [s \in Seats |-> IF s \in S THEN r ELSE holder[s]]
  /\ UNCHANGED ended

Sell(r) ==
  /\ Of(r) # {}
  /\ \A s \in Of(r) : state[s] = "hold"
  /\ state' = [s \in Seats |-> IF s \in Of(r) THEN "sold" ELSE state[s]]
  /\ UNCHANGED <<holder, ended>>

GiveBack(r) ==
  /\ Of(r) # {}
  /\ \A s \in Of(r) : state[s] = "hold"
  /\ state'  = [s \in Seats |-> IF s \in Of(r) THEN "available" ELSE state[s]]
  /\ holder' = [s \in Seats |-> IF s \in Of(r) THEN Nobody ELSE holder[s]]
  /\ ended'  = ended \cup {r}

Next == \E r \in Rids : Sell(r) \/ GiveBack(r) \/ \E S \in SUBSET Seats : Take(r, S)

Spec == Init /\ [][Next]_sale
=============================================================================
