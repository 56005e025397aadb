------------------------------ MODULE MCRxRing ------------------------------
(***************************************************************************)
(* RxRing on rings of a few slots, for TLC.                                *)
(***************************************************************************)
EXTENDS RxRing
=============================================================================
