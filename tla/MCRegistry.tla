----------------------------- MODULE MCRegistry -----------------------------
(* Small instances of Registry for TLC.                                    *)
EXTENDS Registry
MCFiles == {"f"}
MCReportedStates == {"DISCOVERY"}
=============================================================================
