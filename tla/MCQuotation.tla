---------------------------- MODULE MCQuotation ----------------------------
(***************************************************************************)
(* Small instances of Quotation for TLC.                                   *)
(***************************************************************************)
EXTENDS Quotation

CONSTANTS c1, c2, n1, n2
=============================================================================
