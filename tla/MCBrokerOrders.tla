--------------------------- MODULE MCBrokerOrders ---------------------------
(***************************************************************************)
(* Small instances of BrokerOrders for TLC.                                *)
(***************************************************************************)
EXTENDS BrokerOrders, TLC

CONSTANTS p1, p2, a1, r1, r2

\* Run r1 has two plans, run r2 has one; a pass of each, and one repeated.
Pairs == {<<r1, p1, a1>>, <<r1, p2, a1>>, <<r2, p1, a1>>}

=============================================================================
