---------------------------- MODULE MCControllers ----------------------------
(***************************************************************************)
(* Two versions of the questions, and one answer that fits only the first; *)
(* two people and one seat.                                                *)
(***************************************************************************)
EXTENDS Controllers, TLC

CONSTANTS r1, b1, q1, q2, blue, alice, bob

Fits == q1 :> {blue} @@ q2 :> {}
=============================================================================
