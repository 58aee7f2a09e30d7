---------------------------- MODULE MCBlockUndo ----------------------------
(* An instance of BlockUndo: one coinbase with two outputs of which one is *)
(* unspendable, one that can be repeated once it is spent, a payment that  *)
(* spends two outputs of one transaction and one with no spendable output. *)
EXTENDS BlockUndo

CONSTANTS cb1, cb2, split, join, burn

TwoCoinbases == {cb1, cb2}
ThreePayments == {split, join, burn}

In(t, n) == [hash |-> t, n |-> n]

PaymentInputs == [t \in ThreePayments |->
    CASE t = split -> <<In(cb1, 0)>>
      [] t = join -> <<In(split, 0), In(split, 1)>>
      [] t = burn -> <<In(join, 0), In(cb2, 0)>>]

OutputCounts == [t \in TwoCoinbases \cup ThreePayments |->
    IF t \in {cb2, split} THEN 2 ELSE 1]

BurntOutputs == {In(cb2, 1), In(burn, 0)}
=============================================================================
