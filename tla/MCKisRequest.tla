---------------------------- MODULE MCKisRequest -----------------------------
(***************************************************************************)
(* Instances of KisRequest.                                                 *)
(***************************************************************************)
EXTENDS KisRequest, TLC

CONSTANTS c1, c2, c3, c4, price, balance

MCCall == {c1, c2, c3, c4}
MCEndpoint == {price, balance}

\* Three calls to one endpoint, and one to another that shares the bulkhead and
\* the limiter with them.
MCEndpointOf == [c \in MCCall |-> IF c = c4 THEN balance ELSE price]
=============================================================================
