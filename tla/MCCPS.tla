------------------------------- MODULE MCCPS -------------------------------
(***************************************************************************)
(* CPS on the families of graphs of MCGraphs.                              *)
(***************************************************************************)
EXTENDS CPS, MCGraphs

=============================================================================
