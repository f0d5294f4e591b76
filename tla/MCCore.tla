------------------------------- MODULE MCCore -------------------------------
(* Small instances of Core for TLC.                                        *)
EXTENDS Core

NobodyProposes == {}
OneFile        == {"f"}
SameState      == {"DISCOVERY"}
=============================================================================
