----------------------------- MODULE MCBrokerBook -----------------------------
(***************************************************************************)
(* A small instance of BrokerBook for TLC: an order bought at 4, stop 1,   *)
(* take-profit 10, at a price of 7.  A profit is locked in at 5, and a     *)
(* weakened position gets a closer stop or a nearer take-profit.           *)
(***************************************************************************)
EXTENDS BrokerBook, TLC

Calm == [conf |-> 3, noAction |-> FALSE, conflict |-> "none", severe |-> FALSE,
         healthy |-> TRUE, expired |-> FALSE]
Weak == [Calm EXCEPT !.conf = 1, !.noAction = TRUE]
SomeEvidence == {Calm, Weak, [Weak EXCEPT !.severe = TRUE, !.conflict = "strong"],
                 [Calm EXCEPT !.expired = TRUE]}

=============================================================================
