---------------------------- MODULE MCRateLimit ----------------------------
(* One role whose burst limit exceeds its limit, and one whose burst limit  *)
(* is cut below it by RATE_LIMIT_BURST.                                     *)
EXTENDS RateLimit, TLC

CONSTANTS analyst, admin

MCClients == {analyst, admin}
MCLimit == (analyst :> 2) @@ (admin :> 4)
MCPercent == [c \in MCClients |-> 150]
=============================================================================
