---------------------------- MODULE MCDiscovery ----------------------------
(***************************************************************************)
(* A small instance of Discovery for TLC.                                  *)
(***************************************************************************)
EXTENDS Discovery

CONSTANTS a, b

\* An entry must survive the longest silence (config_manager.cpp:67 bounds
\* interval_ms from below only, so that the code does not ensure this).
ASSUME SilenceAssumption == LongestSilence <= Expiry * Sec

\* upFor counts as far as KnownInTime looks.
ASSUME HorizonAssumption == Horizon > LongestSilence + MaxDelay

MCJumps == {-3, 4}

=============================================================================
