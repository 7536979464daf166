---------------------------- MODULE MCTradingDay ----------------------------
(* Instances for TLC: a fill of no slippage, and one that breaches the limit. *)
EXTENDS TradingDay

GoodAndBadFills == {[slippage |-> 0, rate |-> 100], [slippage |-> 40, rate |-> 100]}

=============================================================================
