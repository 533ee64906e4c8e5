---------------------------- MODULE MCTradingDay ----------------------------
(* A small instance of TradingDay for TLC. *)
EXTENDS TradingDay

FewPrices == {40, 80, 120}
Window == {4}

=============================================================================
