--------------------------- MODULE MCAlertManager ---------------------------
(***************************************************************************)
(* Two monitors and two rules: one rule sees the events of both, the other *)
(* those of one monitor only.                                              *)
(***************************************************************************)
EXTENDS AlertManager

CONSTANTS t1, t2, shared, sole

MCMatch == {<<t1, shared>>, <<t2, shared>>, <<t1, sole>>}
MCDefault == <<shared, sole>>

=============================================================================
