----------------------------- MODULE MCFtgmacTx -----------------------------
(* FtgmacTx on a ring of two descriptors: every slot is reused, the ring fills *)
(* up and wraps, and the driver and the MAC meet on the same descriptor.       *)
EXTENDS FtgmacTx
=============================================================================
