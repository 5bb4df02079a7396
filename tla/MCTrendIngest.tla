--------------------------- MODULE MCTrendIngest ----------------------------
(***************************************************************************)
(* TrendIngest on small instances: one user repeating a query, and a mix   *)
(* of identified, anonymous and dropped events.                            *)
(***************************************************************************)
EXTENDS TrendIngest, TLC

CONSTANTS i1, i2, e1, e2, e3, e4, u1, d1, q1, m1

\* One user sends the same query several times.
NoIDs == [e \in Event |-> NoID]
MCUserID == [e \in Event |-> u1]
OneQuery == [e \in Event |-> q1]
OneMinute == [e \in Event |-> m1]
NoStopWords == [e \in Event |-> {FALSE}]

\* e1 is known by its user, e3 by a session with the same identifier and e4 not
\* at all; the stop words change under e3.
MixedUserID == [e \in Event |-> IF e = e1 THEN u1 ELSE NoID]
MixedSessionID == [e \in Event |-> IF e = e3 THEN u1 ELSE NoID]
MixedDeviceID == [e \in Event |-> IF e = e3 THEN d1 ELSE NoID]
MixedStopWords == [e \in Event |-> IF e = e3 THEN BOOLEAN ELSE {FALSE}]

InstanceSymmetry == Permutations(Instance)
=============================================================================
