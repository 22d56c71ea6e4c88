--------------------------- MODULE MCOrderConfirm ---------------------------
(***************************************************************************)
(* Small instances of OrderConfirm for TLC.                                *)
(***************************************************************************)
EXTENDS OrderConfirm

CONSTANTS c1, c2, k1, k2, goods, labour
=============================================================================
