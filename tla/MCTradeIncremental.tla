-------------------------- MODULE MCTradeIncremental --------------------------
EXTENDS TradeIncremental
=============================================================================
