----------------------------- MODULE MCMemPool -----------------------------
(* MemPool with a parent tp, a child tc, a grandchild td that also spends tp, *)
(* ts that spends a coinbase and conflicts with td, and tx that conflicts     *)
(* with tp.                                                                   *)
EXTENDS MemPool

CONSTANTS tp, tc, td, ts, tx, tk, tb

TheInputs ==
    [t \in {tp, tc, td, ts, tx} |->
        CASE t = tp -> {<<tb, 1>>}
          [] t = tc -> {<<tp, 1>>}
          [] t = td -> {<<tc, 1>>, <<tp, 2>>}
          [] t = ts -> {<<tk, 1>>, <<tp, 2>>}
          [] t = tx -> {<<tb, 1>>}]

\* Fees of which no two sums are equal.
TheFees == [t \in {tp, tc, td, ts, tx} |->
    CASE t = tp -> 1 [] t = tc -> 2 [] t = td -> 4 [] t = ts -> 8 [] t = tx -> 16]

=============================================================================
