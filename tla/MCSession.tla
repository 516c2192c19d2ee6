------------------------------ MODULE MCSession -----------------------------
(***************************************************************************)
(* Two monitors: one emits twice, the other an event of another type that  *)
(* the tail's filter keeps back.                                           *)
(***************************************************************************)
EXTENDS Session

MCKinds == [p1 |-> <<"a", "a">>, p2 |-> <<"b">>]
=============================================================================
