--------------------------- MODULE MCEngineControl ---------------------------
(* The trading loop on a small instance: every configuration, two days.    *)
EXTENDS EngineControlProperties

MCConfigs == [live : BOOLEAN, tui : BOOLEAN]
MCPnLs == {-2, 1}
MCDays == {1, 2}
=============================================================================
