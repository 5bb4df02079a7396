---------------------------- MODULE MCStopWords -----------------------------
\* StopWords with a one-word query and a query of two words.
EXTENDS StopWords, TLC

CONSTANTS w1, w2, q1, q2

MCTokens == q1 :> {w1} @@ q2 :> {w1, w2}
=============================================================================
