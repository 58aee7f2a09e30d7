-------------------------- MODULE MCHTTPWorkQueue --------------------------
(* Two workers, three requests, room for one of them. *)
EXTENDS HTTPWorkQueue, TLC

CONSTANTS w1, w2, r1, r2, r3
MCWorkers == {w1, w2}
MCRequests == {r1, r2, r3}
=============================================================================
