--------------------------- MODULE MCGuardedRelease ---------------------------
EXTENDS GuardedRelease

MCCore == <<"core-1000", "core-1600">>
MCTrade == <<"trade-domestic", "trade-overseas">>
MCOld == <<"batch">>
MCFlows == DOMAIN Flows
=============================================================================
