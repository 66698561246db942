---------------------------- MODULE MCSdkTurn ----------------------------
(* A finite instance of SdkTurn: one turn made in any way, beside a turn   *)
(* of the middleware that has ids of its own or is an answer to the same   *)
(* question.                                                               *)
EXTENDS SdkTurn

CONSTANTS t1, t2, k1, k2

Way(m, k, n) == [mode |-> m, key |-> k, steps |-> n]
MixedPlans ==
    {[t \in {t1, t2} |-> IF t = t1 THEN Way(m, k1, MaxSteps) ELSE Way("generate", k, 1)] :
        m \in Modes, k \in {k1, k2}}
=============================================================================
