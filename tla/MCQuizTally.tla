----------------------------- MODULE MCQuizTally -----------------------------
(***************************************************************************)
(* Two versions of the questions, and one answer that fits only the first. *)
(***************************************************************************)
EXTENDS QuizTally, TLC

CONSTANTS r1, b1, q1, q2, blue

Fits == q1 :> {blue} @@ q2 :> {}
=============================================================================
