---------------------------- MODULE TokenBucket ----------------------------
(***************************************************************************)
(* What the rate limit promises (docs/api.md, rate-limit/limiter.ts): each *)
(* key has a bucket of at most Burst tokens that gains Rate every second,  *)
(* whatever the clocks of the callers do.  A request takes a token when    *)
(* there is one; when there is none it takes nothing, and is told how long *)
(* a token will take.                                                      *)
(*                                                                         *)
(* Tokens are counted in shares of a token, Token of them to one, so that  *)
(* a balance need not be whole; Rate is in shares a second.  The code      *)
(* keeps them in floating point, whose rounding is left out.               *)
(***************************************************************************)
EXTENDS Integers

CONSTANTS Keys, Token, Burst, Rate, MaxTime     \* as in Admission

VARIABLES level, asOf, verdict

Times == 0..MaxTime
Full == Burst * Token
Lesser(x, y) == IF x < y THEN x ELSE y

Allowed(left) == [allowed |-> TRUE, remaining |-> left \div Token, retryAfter |-> 0]

\* The whole seconds, at least one, after which the bucket holds a token.
SecondsToToken(held) ==
    CHOOSE s \in 1..Token :
        /\ held + Rate * s >= Token
        /\ \A shorter \in 1..(s - 1) : held + Rate * shorter < Token
Refused(held) == [allowed |-> FALSE, remaining |-> 0, retryAfter |-> SecondsToToken(held)]

Init ==
    /\ level = [k \in Keys |-> Full]
    /\ asOf = [k \in Keys |-> 0]
    /\ verdict = [k \in Keys |-> Allowed(Full)]

Ask(k, now) ==
    LET held == Lesser(Full, level[k] + Rate * (now - asOf[k]))
    IN  /\ now >= asOf[k]
        /\ asOf' = [asOf EXCEPT ![k] = now]
        /\ \/ /\ held >= Token
              /\ level' = [level EXCEPT ![k] = held - Token]
              /\ verdict' = [verdict EXCEPT ![k] = Allowed(held - Token)]
           \/ /\ held < Token
              /\ level' = [level EXCEPT ![k] = held]
              /\ verdict' = [verdict EXCEPT ![k] = Refused(held)]

Next == \E k \in Keys, now \in Times : Ask(k, now)

Spec == Init /\ [][Next]_<<level, asOf, verdict>>
=============================================================================
