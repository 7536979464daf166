----------------------------- MODULE MCOrderFeed -----------------------------
(* Instances for TLC: an order's events numbered by the router or a replay. *)
EXTENDS OrderFeed

One == {"o1"}
Starts == {-1, 0}
=============================================================================
