----------------------------- MODULE MCEhciXfer -----------------------------
(* EhciXfer with two transfers, so that the second meets what the first left   *)
(* behind, in memory that may be the same or different.                        *)
EXTENDS EhciXfer
=============================================================================
