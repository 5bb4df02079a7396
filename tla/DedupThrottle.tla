--------------------------- MODULE DedupThrottle ----------------------------
(***************************************************************************)
(* What the deduplication of TrendService.Ingest promises, without Redis:  *)
(* a key is admitted only when Window ticks have passed since its last     *)
(* admission.  Rejections do not show; neither do failures.                *)
(***************************************************************************)
EXTENDS Naturals

CONSTANTS Key, Window

VARIABLE since    \* ticks since the key's last admission, up to Window

Init == since = [k \in Key |-> Window]

Admit(k) ==
    /\ since[k] = Window
    /\ since' = [since EXCEPT ![k] = 0]

Tick == since' = [k \in Key |-> IF since[k] < Window THEN since[k] + 1
                                ELSE Window]

Next == Tick \/ \E k \in Key : Admit(k)

Spec == Init /\ [][Next]_since
=============================================================================
