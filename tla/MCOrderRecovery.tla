--------------------------- MODULE MCOrderRecovery ---------------------------
(* A few orders and failures on either route.                              *)
EXTENDS OrderRecoveryProperties

MCRoutes == {"Real", "Paper"}
MCReal == {"Real"}
MCNoFailure == {"None"}
MCFailures == {"Crash", "PowerLoss"}
MCPowerLoss == {"PowerLoss"}
MCRequest == {1}
MCRequests == {1, 2}
=============================================================================
