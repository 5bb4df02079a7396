----------------------------- MODULE MCServing ------------------------------
(***************************************************************************)
(* Serving with a ranking one entry longer than what is cached, whose      *)
(* cached entries a stop word can halve.  The stream is on one of two      *)
(* instances; calls are made on both.                                      *)
(***************************************************************************)
EXTENDS Serving, TLC

CONSTANTS w1, q1, q2, q3, i1

MCTokens == q1 :> {w1} @@ q2 :> {w1} @@ q3 :> {}
MCRanking == {<<q2, q3, q1>>}
MCServer == [s \in Stream |-> i1]
MCRequested == [s \in Stream |-> 1]
=============================================================================
