-------------------------- MODULE MCCheckoutPayment --------------------------
(* Small instances of CheckoutPayment for TLC. *)
EXTENDS CheckoutPayment, TLC

CONSTANTS o1, o2, v1, w1, w2

MCDemand == [o \in Orders |-> [v \in Variants |-> IF o = o1 THEN 2 ELSE 1]]
MCInitStock == [v \in Variants |-> 2]
Symmetry == Permutations(Workers)

\* Every operation a worker can run.
AllOps == {"checkout", "cancel", "orderCancel", "expire", "poll", "verify",
           "worker", "ship", "deliver", "refund"}
=============================================================================
