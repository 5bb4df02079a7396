----------------------------- MODULE MCTrendTop -----------------------------
\* TrendTop with small windows; every request goes to instance i1.
EXTENDS TrendTop

CONSTANT i1

AllHome == [g \in Request |-> i1]
=============================================================================
