----------------------------- MODULE MCFtgmacRx -----------------------------
(* FtgmacRx on a ring of two descriptors: it fills, overflows and wraps, and   *)
(* good and bad frames come in every order.                                    *)
EXTENDS FtgmacRx
=============================================================================
