------------------------------ MODULE MCSiteRead ------------------------------
(***************************************************************************)
(* Small instances of SiteRead.                                            *)
(***************************************************************************)
EXTENDS SiteRead, TLC

CONSTANT a1
===============================================================================
