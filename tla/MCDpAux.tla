------------------------------- MODULE MCDpAux -------------------------------
(* DpAux alone.                                                                *)
EXTENDS DpAux
=============================================================================
