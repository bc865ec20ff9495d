-------------------------- MODULE MCGBTWorkState --------------------------
(* GBTWorkState instantiated for TLC.                                      *)
EXTENDS GBTWorkState, TLC

CONSTANTS c1, c2
=============================================================================
