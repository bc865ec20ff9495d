------------------------- MODULE MCKopachController -------------------------
(* The kopach controller with two controllers (model values).               *)
EXTENDS KopachController

CONSTANTS x, y
=============================================================================
