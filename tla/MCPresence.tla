---------------------------- MODULE MCPresence ----------------------------
(* Four clients in a map of four slots, which takes three; three of them   *)
(* hash to the last slot, so that their chains overlap and wrap around.    *)
EXTENDS Presence, TLC

CONSTANTS c1, c2, c3, c4

Collide == (c1 :> 3) @@ (c2 :> 3) @@ (c3 :> 3) @@ (c4 :> 4)

\* Clients with the same hash are interchangeable.
SameHash == Permutations({c1, c2, c3})
=============================================================================
