------------------------------ MODULE MCGrace -------------------------------
(* Instances of GraceRelease: a user with three sockets and one with a single one. *)
EXTENDS GraceRelease, TLC

CONSTANTS r1, r2, u1, u2, a, b, c, d

Owner    == a :> u1 @@ b :> u1 @@ c :> u1 @@ d :> u2
OneEach  == u1 :> {r1} @@ u2 :> {r2}
=============================================================================
