----------------------------- MODULE MCCascade -----------------------------
(***************************************************************************)
(* Cascade on the families of graphs of MCGraphs.                          *)
(***************************************************************************)
EXTENDS Cascade, MCGraphs

MCTimeout == [c \in Component |-> IF c = c2 THEN 30 ELSE 0]

=============================================================================
